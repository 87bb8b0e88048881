# Verification of explicit-free-list-malloc

TLA+ models of the allocator `src/mymalloc.c`, of the collector `src/mygc.c` and
of the first allocator `src/mymalloc-raw.c`, TLC configurations that check them
on small heaps, and TLAPS proofs that the allocators and the collector keep their
heaps sound for every size of heap, list table and chunk, that `mymalloc.c` and
`mygc.c` keep their promise to the client, and that free lists are what their
links spell. Paths below are relative to the repository.

## 1. The system

The program is sequential C: no threads, no signals, no locks, nothing
persisted. A call runs from its first to its last statement without another
call in between; what is hard is not interleaving but the *history*: each call
trusts bits, footers, sizes and links that earlier calls left in memory.

| Component | State | Operations | Talks to |
|---|---|---|---|
| Segregated-fit allocator, `src/mymalloc.c/.h` | `ch_array[256]`, `corr_size_arr[256]`, `index_last_chunk_from_OS`; in the mapped memory a `Chunk` per mapping, a `Block` header and a `Footer` per block | `my_malloc`, `my_free`; within them `get_chunk_from_OS`, `split_block`, `freeing_up`, `coalesce` | the OS through `mmap`; the client; the free lists |
| Free lists of the allocator, `src/mymalloc.c` | `free_lists[59]`, `next_offset` in each block | `put_block_in_free_list`, `remove_from_free_list`, `list_fit`, `best_fit` | called by the former |
| Garbage collector, `src/mygc.c/.h` | its own copy of all of the above, `alloc_block_end` (the list of allocated blocks), `start_of_stack`, the mark bit in `markFlag_index` | the same, `my_gc` = `scan_and_mark` (`find_block`, `mark_block`), then `sweep` (`remove_from_alloc_list`, `my_free`) | the OS; the client, whose stack it reads |
| First allocator, `src/mymalloc-raw.c/.h` | `first_map`, the list of chunks; in each chunk a list of free and one of allocated blocks, both doubly linked; fenceposts | `my_malloc` (a loop over `best_fit` and `get_chunk_from_OS`, then `split_block` and `mallocing_up`), `my_free` (`freeing_up`, insertion, `join`) | the OS; the client; linked by no build target |
| Heap dump and queries | none | `print_heap`, `get_start_block`, `get_next_block`, `is_free`, `block_size` | reads the heap |
| Tests, benchmark, drivers | none | clients and build scripts | `my_malloc`, `my_free` |

What is hard, per component, and what would make it right:

* **Allocator.** Merging decides from a bit in the block's own header (written
  by calls on the *left* neighbour), from a footer below the block, and from
  fence tests that compare addresses of different mappings. Correct means:
  blocks tile their chunk; the bits, footers and lists agree with the blocks;
  no two free blocks are neighbours; what the client holds is what is
  allocated, disjoint and large enough; and these survive every sequence of
  calls, chunks that are adjacent in memory, and refusals of `mmap`. At the
  edges: a search that fails although a chunk was requested for it, the length
  of the chunk table, chunks mapped downwards, addresses of other memory.
* **Free lists.** A list is what its links spell; a link is a distance cut to 32
  bits. A removal finds the block to unlink by walking. Correct means: each
  list leads through its blocks and ends, whatever was removed where, and the
  loops return what a search of the sequence would.
* **Collector.** The list of allocated blocks and the free lists share one
  field. Marks and links of a new block are whatever its memory held. `sweep`
  changes the heap it is walking. Correct means: what the client can reach is
  kept, the rest is freed, the heap is sound after each turn of the loop, no
  merge swallows a block in use, and the loop ends.
* **Raw allocator.** Two lists to keep in step and in order, sizes that wrap,
  merging decided by list order, and a loop that asks the OS until it finds.

The list of hazards, line by line, with the property that covers each, is
in `PROJECT.json`.

## 2. Modules

```
Walks --- Sizes --- Heap --- HeapInvariant --- MyMalloc --- MCMyMalloc
  |   |         |        |                |             `- INSTANCE Allocator
  |   |         |        |            HeapProofs --- MyMallocProofs
  |   |         |         `- FreeLists
  |   |         |                `- (INSTANCE)
  |   |         |--- FreeListLinks --- MCFreeListLinks
  |   |         |                 `--- FreeListProofs
  |   |         `--- GcHeap --- MyGC --- MCMyGC
  |   |                    |        |- INSTANCE Allocator
  |   |                    |         `- MyGCProofs (extends both)
  |   |                     `- GcHeapProofs --- MyGCProofs
  |   |                            `- INSTANCE HeapProofs
  |   `--- RawHeap --- RawMalloc --- MCRawMalloc
  |                |            `--- RawListProofs --- RawProofs
  |                 `- RawInvariant (extended by RawListProofs)
   `--- WalkProofs (extended by HeapProofs, FreeListProofs, RawListProofs, GcHeapProofs)
```

* **Walks**: a list in memory as the sequence a loop along it meets. The links
  are a function from addresses to addresses; the sequence ends at NULL, where a
  link leads out of the function's domain, or at a limit by which rings are seen.
* **Sizes**: the constants and the arithmetic that `mymalloc.c` and `mygc.c`
  share (`round_up`, `calculate_index`, the size of a block for a request), the
  struct sizes on LP64, and the named assumptions on the constants.
* **Heap**: the data structure of `mymalloc.c`, one operator per C function
  under its name, the read-only walks (`get_next_block`, `print_heap`) included. A
  heap is a record with the C globals, the headers and footers of the current
  blocks as partial functions from addresses, and each free list as the
  sequence of its blocks. `fault` says how the program left defined behaviour:
  `"null"` (reads a header at NULL), `"wild"` (reads a header or a footer where there
  is none), `"table"` (stores past `ch_array`), `"foreign"` (frees what is not a
  block). Bytes of the payload and remains of old headers are not kept: a read
  of them is a fault, not a value.
* **HeapInvariant**: what a sound heap is, in named parts, with parameters for
  the intermediate states within a call.
* **MyMalloc**: the allocator with a client. Actions: `my_malloc(size)` for any
  requested size, `my_free(p)` for a pointer the client holds, NULL, or an
  address outside of all mappings. Each is one C call from entry to return,
  early returns included.
* **Allocator**: what the two functions promise, as a specification of its own:
  a partial map from pointers to sizes; a new pointer is aligned and its
  block, bookkeeping included, is disjoint from all others. MyMalloc and MyGC
  are both checked against it.
* **FreeListLinks**: the free lists as they are stored: heads, 32-bit links,
  and loops that take one step per turn. Its client puts a block that is in no
  list, removes any block, and searches. **FreeLists** is the same as Heap has
  it: sequences, changed at once by Heap's own operators. The first is checked
  to implement the second, which is what justifies the sequences in Heap.
* **GcHeap**: the memory of `mygc.c` *word by word*. Here what a word was before
  matters: links and marks survive in merged blocks and come back when a
  header is laid over them, and a freed block's stale header is read again. So
  the model keeps every word of every mapping, with the half-words and the mark
  bit the code tells apart, and lists are links in memory.
* **MyGC**: the collector with a client that allocates and clears blocks, keeps
  pointers to them on the stack and in blocks, drops pointers and calls
  `my_gc`. A collection is one mark step, one step per turn of the loop of
  `sweep`, and the return, so that the heap is also looked at between turns.
* **RawHeap**: the memory of `mymalloc-raw.c` word by word, with unsigned
  arithmetic that wraps, and its functions. **RawMalloc**: its client, and
  `my_malloc` in steps: its first statements, each search, each request.
* **MCMyMalloc, MCFreeListLinks, MCMyGC, MCRawMalloc**: constants of the instances.
* **RawInvariant**: what a sound memory of the first allocator is, in terms of
  four sets: chunks in the list, blocks, allocated blocks, listed free blocks.
* **WalkProofs, HeapProofs, MyMallocProofs, FreeListProofs, GcHeapProofs,
  MyGCProofs, RawListProofs, RawProofs**: section 4.

An operator marked "Mutant" stands before the definition it is a plausible slip
of; it is used in no specification and shows that the named property tells the
slip from the code.

### Correspondence worth knowing

* Headers: `size_and_flags` is the fields `size`, `alloc`, `prev_alloc` in Heap
  and the low half of a word in GcHeap; `markFlag_index` is `index`, and in
  GcHeap `hi` and `mark`.
* `tell_next` is `set_allocation_status(get_next_block(b), s, 0)` behind its
  fence test; in `my_free` the test before it is part of `release`.
* `first_chunk`, `another_chunk` and `chosen` are the two requests to the OS
  in `my_malloc` and the block it settles on; the environment picks what
  `get_chunk_from_OS` returns, from the set of heaps it may leave.
* `mmap` is external: it returns any of `MmapBases` that overlaps no chunk, and
  may refuse (`MmapMayFail` in MyMalloc and RawMalloc, always in MyGC). `Ascending`
  says whether later chunks lie above earlier ones.
* A loop along a list that only reads is the sequence it meets (`Follow`); where
  its turns matter (FreeListLinks, `sweep`, the loop of the raw `my_malloc`) each
  is a step.
* In FreeListLinks what a block is, and when it is put or removed, is its
  client's choice: more than `my_malloc` and `my_free` ever do. The removal of a
  block that is not listed is one of these choices, since the code has a path
  for it.
* The stack scanned by `scan_and_mark` is the set `roots`; the client has
  called `set_start_of_stack` in `main`, as `mygctest.c` does. `handed` is not a
  variable of the program: it has what the client was given and `sweep` has not
  taken back.

## 3. What the runs check

### The allocator

| Run | Configuration | Question | Result |
|---|---|---|---|
| `core` | `MyMalloc.cfg` | Is the heap sound and the promise kept over every sequence of calls? | holds, 5,576 states |
| `chain` | `FreeListLinks.cfg` | Do links and loops behave as the sequences of Heap? | holds, 16,500 states |
| `edge` | `MyMallocEdge.cfg` | Does a second chunk always hold the block it was requested for? | `NoNullBlock` violated |
| `descending` | `MyMallocDescending.cfg` | Do the fences hold for a chunk mapped below another? | `NoWildAccess` violated |
| `foreign` | `MyMallocForeign.cfg` | Does `my_free` ignore all memory that is not its own? | `ForeignIgnored` violated |

`core` checks `TypeOK`; `BlocksTileChunks`, `PrevBitsExact`, `NoFreeNeighbours`,
`FreeListsExact` and `FootersExact` (the parts of a sound heap); `HeapWalkExact`
(from `get_start_block` on, `get_next_block` meets every block of every chunk once,
in the order of the chunk table: what the dump and the counting loop of the
internal tests rely on); `LiveBlocksFit` (the client's blocks are the allocated
ones, with room for what was asked for); `NoWildAccess`; `AllFreeMeansWhole` (when
everything is freed each chunk is one free block); `BestFit` (a block is cut
from a smallest free block that fits in the *whole* heap, and the OS is asked
only if none fits); and `ImplementsAllocator` (the refinement).

Bounds of `core`. All sizes are real bytes, only the unit is small: 112 bytes for
64 MB, so that chunks hold 96 or 208 bytes, up to two or five blocks; 8 lists
for 59, so that blocks of 40 and of 48 bytes have lists of their own and all from
56 on share the last one. Two bases, 1000 and 1112, are exactly adjacent: the
fence must keep chunks apart that touch. The requests 5 and 24 leave rests
below, at and above the 40 bytes a rest needs; 64 is a whole chunk; 96 needs two
units; 0 and 209 take the early return. With these every path of
`my_malloc`, `my_free` and `freeing_up` is taken: split with and without rest, merge
left, right, both and neither, first and second request to the OS, refusal, and
the failed search. Nothing is counted, so no counter needs a bound; the heap
bounds the state space.

`chain` checks `LinksTypeOK`; `ListsSpelled` (each head leads through exactly the
listed blocks of its list, each once, to NULL); `WalkKeepsPlace`; `WalkEnds`
(liveness); and `ImplementsFreeLists`: an insertion, a removal and a search do what
Heap's operators do to its sequences, including which of several blocks of the
same size is found. Three blocks are the fewest with a first, a middle and a last
one; two of the three sizes share the last list, one has a list of its own, and
the list between stays empty. The link has 8 bits for 32 (`OffsetLimit` 128): of
the six distances between the blocks, five fit, one of them the most negative
that does, and one, 128, is one too many. Where a distance is cut the code
goes on; the model records `cut` and ends there.

### The collector

| Run | Configuration | Question | Result |
|---|---|---|---|
| `gc` | `MyGC.cfg` | Do collections keep the heap, the lists and what the stack points to, free the unmarked, and return? | holds, 107,795 states |
| `gc_reach` | `MyGCReach.cfg` | Is a block kept that only another block points to? | `ReachableRetained` violated |
| `gc_garbage` | `MyGCGarbage.cfg` | Is a block freed that became unreachable since the last collection? | `GarbageFreed` violated |
| `gc_twice` | `MyGCTwice.cfg` | What does the second `my_free` of a block in `sweep` lead to? | `HeldNotFree` violated |
| `gc_stale` | `MyGCStale.cfg` | What does the link left in a new block's memory lead to? | `AllocatedListed` violated |

`gc` checks `GcTypeOK`; `WalkMeetsEveryBlock` (the walk by sizes that `find_block`
relies on, with footers, indices, bits and merging, between any two turns of
`sweep`); `ListsPartitionBlocks` (one link field, two kinds of list, and each block
in exactly the right one); `StackRetained`; `HandedFits` (what is allocated is what
was handed out and not swept, with room for what was asked for); `SweepReclaims` (no
unmarked block survives); `SweepEnds`, a liveness property; and
`CollectorImplementsAllocator`: seen by the client the collector is an Allocator
whose frees are the turns of `sweep`.

Two defects would end most runs early, so the model records them in `mishap`
instead: `sweep` frees a block a second time (`"second_free"`), and a new block
enters the list of allocated blocks with a link left in its memory
(`"stale_link"`). `Tolerated` says after which of them a run goes on. In `gc` none is
tolerated: the run says what the collector does *up to* them, which
includes first collections of every shape and later ones in which no marked
block follows a freed one in the list. `gc_twice` and `gc_stale` tolerate one each
and show where it leads. A mark step that reads past the end of a chunk may
end in the fault `"past"`, or not: both are in the model.

Bounds. One chunk of 160 bytes (three blocks of 40, or one of 56 and two of 40;
208 in `gc_twice`, whose trace needs two of each), one pointer field per block,
requests of 8 and 24 bytes, and of 0 and 216 for the early return. `mmap` may refuse
every request. Three blocks are enough for a chain root -> block -> block, for a
sweep that merges left, right and on both sides, and for a freed block between
two marked ones. The number of collections is unbounded.

### The first allocator

| Run | Configuration | Question | Result |
|---|---|---|---|
| `raw` | `RawMalloc.cfg` | Are chunks tiled, lists sorted and linked both ways, the client's blocks apart, and does `my_malloc` return? | holds, 7,396 states |
| `raw_apart` | `RawMallocApart.cfg` | What does a merge by list order lead to? | `HeldNotListed` violated |

`raw` checks `RawTypeOK`; `RawBlocksTile` (the walk by sizes meets the end of the
chunk, every block is free or held, no two free ones touch); `RawListsSorted`;
`RawLiveFits`; and `MallocReturns` (liveness).

Four defects are recorded in `mishap`, and `raw` ends at each of them:
`"small"` (a block smaller than needed is taken, because the difference of sizes
is unsigned, line 137), `"misplaced"` (a block enters the list of allocated blocks
out of order, because `start_alloc_list` is stale after a `my_free` or because all
listed blocks are lower: malloc, free, malloc makes a block point to itself),
`"apart"` (lines 436 and 521) and `"below"` (a chunk mapped below an earlier
one, line 85). So what `raw` says holds as long as a freed block has no free block
below it in its chunk but its neighbour, and a new block goes in front of an
allocated one or into an empty list. That leaves: filling chunks, freeing with a
merge on either side, both or neither, taking freed blocks again, and freeing
what is free.

Bounds. A unit of 144 bytes gives chunks of 96 and 240 bytes: three blocks of
32, or one of 32 and one of 64. The bases 1000 and 1144 touch, and may be mapped
in either order, the second of which is the mishap `"below"`. Words have 16 bits for
64 (`HalfWord` 256), which addresses up to 1,288 need: a size that wraps is larger
than all others, as in the source. Requests: 8 and 40, and 0 and 300 for the early
return.

### Deadlock, fairness

`CHECK_DEADLOCK FALSE` throughout: a client may stop, and a fault
ends the run, as it does the program. MyMalloc has no fairness: its calls are
single steps, and a client need not call. The other three have weak fairness
of one action, the control of the loops of a function that has been called:
`turn` in FreeListLinks, `next_turn` (the loop of `sweep`) in MyGC, `turn` (the loop of
`my_malloc`) in RawMalloc. The functions are sequential and nothing interrupts
them, so their next turn is taken; the client's actions get none. The liveness
properties are not consequences of that alone. `WalkEnds` needs that no removal
leaves a ring. `SweepEnds` needs that the list is finite and that the next block is
read before the link is overwritten. `MallocReturns` needs that each turn that
goes on has taken a mapping of a finite address space: after a refused first
request the chunks of later turns are linked nowhere, and only a refusal
ends the loop.

## 4. What is proved

Every theorem holds for **every** value of the constants that the named ASSUMEs
of the modules allow, and each of these the code justifies:

* Sizes, Heap, MyMalloc, MyGC: a unit is a multiple of 8 and its block goes into the
  last list (`my_malloc` searches only that list after a request), mappings are
  aligned to a word, sizes are natural numbers; the collector's client asks for whole
  words and stores pointers within its blocks. The real values (64 MB, 59
  lists, 256 chunks) satisfy them.
* FreeListLinks: NULL is not the address of a block; addresses are below `MmapTop`.
* RawHeap: the same of its unit and mappings; a word is large enough for every
  mapped address and for the largest request with its header, as 64 bits are; a
  fencepost is not a multiple of 8.

Those about MyMalloc have the hypothesis `Ascending = TRUE`: each chunk is mapped
above the earlier ones. The run `descending` shows that without it they are
false. GcHeap has only such mappings.

### The allocator (MyMallocProofs)

**Inductive invariant.** `IInv` is `Sound(heap)`, `Client(heap, live)` and
`heap.fault # "wild"`. No property is inductive alone. That a merge finds a header
where it looks (`NoWildAccess`) needs footers and bits to be exact; that these
stay exact across a merge needs the tiling; that the tiling stays needs that the
block taken from a list is a block, hence exact lists; and that no two free
neighbours remain needs that a list removal hits, since a merged block must
leave the list of its *old* size. So all parts are proved together.

**Argument.** Within a call the heap is not sound: a freed block is in no list
yet, or two free blocks touch. `SoundBut(h, odd, seams)` says sound but for the
free blocks `odd` outside of the lists and the `seams` where free blocks may
touch. Then

* `HeapProofs`: removal from a list, `coalesce` (closes a seam), insertion
  (`PutSound` empties `odd`), and from them `FreeingUpSound` and `ReleaseSound`
  (`my_free`); `split_block` and taking a block, whole or its upper part:
  `AllocateSound`; the searches return blocks that fit (`ChosenFits`); a chunk
  mapped above the others: `NewChunkSound`, `RequestSound`. Nothing in it is about
  a client, so that the collector's proofs use it too;
* `MyMallocProofs`: the client's side, one lemma per action, and
  `Soundness == Spec => []IInv`. From it: `TypeCorrectness`, `Tiling`,
  `PrevBitsRight`, `Coalescing`, `ListsExact`, `FootersRight`, `LiveFits`,
  `NoWild`, `Defragmented`.

**What the client is promised.** `RefinesAllocator` proves the refinement. The
new obligation is that a pointer handed out is *aligned*, of which `IInv` says
nothing: `OnGrid` proves the invariant `Grid`, that blocks start and chunks end at
words (a split takes a rounded size off the upper end, a merge keeps the lower
block's start). Disjointness then comes from the tiling, headers and footers
included; a `my_free` of memory that is not the allocator's is a stutter.

**Best fit.** `TakesBestFit`: the search runs through lists of growing sizes and
takes the least of the first list that offers any. Lists are exact, so a block
in a later list is larger than every one in an earlier; the proof cuts the call
into the cases of how a request was served (a listed block, a first chunk,
another chunk) and shows for each that nothing smaller fits in the whole heap.

**The loops over the heap.** `WalksExact` proves `HeapWalkExact`. A recursive
function cannot be unfolded inductively by the provers directly, so `WalkProofs`
goes by induction over sets of numbers, as the least element of those for which
a claim fails: `FollowMeets` says of any loop upwards in memory, in which every
element but the first follows another one, that it meets every element once, in
order, and ends. The tiling supplies the hypothesis, for this walk and for those
of the raw allocator.

### The free lists (FreeListProofs)

For any set of blocks, any sizes and any width of the link:

* `LinkTypes`: every link is in the range of its type, whatever the distance it
  was made of, since the conversion is a remainder.
* `PlaceOfWalk`: through every turn `prev` is the block whose link leads to `curr`;
  inductive because no head or link is written while a loop runs, and because NULL
  is not the address of a block.
* `ListsInOrder`: there are sequences, one per list, that the links spell, and a
  loop under way is at a place of one of them with what it has kept of the blocks
  before. Each writing step gives the new sequences (with a new head, or
  without one block); a search keeps the first of the least blocks passed.
* `ListsAreSpelled` and `RefinesFreeLists` follow, since links spell one sequence
  only: the sequence that `ListsSpelled` walks and the one the refinement maps to
  is the one of the invariant.

`ListsInOrder` and what follows from it are about memory in which no distance was
cut to 32 bits (`~cut`), where the model ends.

### The collector (GcHeapProofs, MyGCProofs)

`mygc.c` has a copy of the allocator, and GcHeap models it word by word where
Heap has records. The proofs say that this is the same allocator, and then
use what is proved of it.

**Words and heaps.** `Holds(m, h)`: the words of `m` hold the heap `h` of Heap. The
mappings are those of `h`; the first word of each header is size, bit and bit, the
half-word above the link is the chunk's index, the last but one word of a block is
its size; and from each head the links spell the list of `h`. Of all other words,
payloads and remains of old headers among them, it says nothing. GcHeapProofs
takes an instance of HeapProofs, for chunks mapped upwards, as `Room` of GcHeap has
them, and an OS that may refuse, and shows that each function of GcHeap does to
the words what Heap's function of that name does to the heap: `Coalesced`, `Put`,
`FreedUp` and `Freed` (`my_free`), `AllocateAlike` (whole or cut), `NewChunkAlike`,
`ChosenAlike` (the searches find what Heap's find), `WalkAlike` (the walk by sizes of
`find_block`). So merges, cuts and chunks keep the memory sound because the
lemmas of HeapProofs say so of heaps. What has to be shown anew is what the words
add: that a store to one block's header, footer or link is no word of another
block (`Apart`, `WordApart`), and that a list whose links change at one place spells
the sequence changed at that place (`UnlinkedSpelled`, `SpellsCons`, `SpellsSnoc`).

**Inductive invariant.** `GcInv`: short of the mishaps there are a heap that the memory
holds, sound and on the grid, and a list `A` that the links from `alloc_block_end`
spell and whose elements are the allocated blocks of the heap (`Collected`); these
are the blocks handed out, with room for what was asked for; the stack holds such
pointers only; and within `sweep` (`Sweeping`) the blocks of `A` before the current one
are marked, so are those that the stack points to, and `freed` is NULL or free. No
property is inductive without the others. That a turn frees an allocated
block needs `A` to be spelled by its links, which share their field with the free
lists; that the link of a new block is the end of its list needs the absence of
the mishap; that `sweep` frees no block of the client twice needs `freed` to be free,
which makes the second free of a block a mishap in every case; that the stack's
blocks survive needs their marks, which a turn must leave alone although it
merges blocks around them; and `SweepReclaims` needs that what lies before the
current block was passed because it is marked.

**Argument.** One lemma per action: `MallocGood` (`MallocAlike` follows the requests, the
choice, the cut and the appending; `ClearedHeld` the client's `memset`), `ClientGood`
(a store into a payload and a mark change no word that `Holds` reads: `PayloadStored`,
`HoldsReads`), `MarkGood` (`BlockFound`: a pointer of the stack is found to be its block),
`SweepGood` (`SweptAlike`: one block less in the list, free, all else as it was),
`ReturnGood`. Then `CollectorSound == Spec => []GcInv`, and from it `GcTypesRight`,
`WalkRight`, `ListsRight`, `StackKept`, `HandedRight`, `Reclaimed`; `CollectorPromise`, the
refinement of Allocator; and `MishapsFirst`: that a block the stack points to is free
(run `gc_twice`), or the list of allocated blocks wrong (`gc_stale`), takes one of the
two mishaps.

**What is not said.** All of this is short of the mishaps, where `gc` ends as well.
The types, too: after a second free, or with a stale link, a free list may
be headed by any number, and `GcTypeOK` is proved while `mishap = "none"`; `gc` checks it
in the state right after a mishap as well. `GcInv` itself is not checked by TLC,
for which "there is a heap" is out of reach; the invariants of `gc` are what it
implies.

### The first allocator (RawListProofs, RawProofs)

**Inductive invariant.** `RawInv`: types hold in every state, whatever mishap the
program goes on after; and short of the mishaps there is no fault, what the client
holds has room for what it asked for, and there are sets of chunks and of blocks
such that the memory is `Kept`: blocks tile the chunks, allocated are exactly those
the client holds, free are all others, and no two free ones are neighbours. The
lists are not sequences here but *sets in order of address*: `Linked(h, S)` says
that the link of each element of S leads to the next higher one and its back link
to the next lower one. In a sorted list that says it all, and an insertion or a
removal changes the fields of two blocks only, whatever the length.

The code's `start_alloc_list` is not part of such a list: `freeing_up` never moves it,
so it may be left at a block that is free, merged away, or cut again. What is
invariant is that it lies within its chunk and never above an allocated block.

**Argument.** `RawListProofs`: where blocks and chunks are, that writes to one
block's fields leave all others alone, where each loop along a list stops, and
that unlinking and linking keep `Shape` (`FreeingUpShape`, `InsertFreeShape`); then
`JoinShape`, `SplitShape`, `FreshShape` (a chunk laid out above the others), and that
no function stores anything but words, whatever goes wrong.
`RawProofs`: `TakeKept`, `FreeKept`, `FreshKept`, one lemma per action, then
`RawInvariance == Spec => []RawInv`. From it: `RawTypes`, `BlocksTile`, `ListsSorted`,
`LiveFits`; and `HeldCovered`: where the program stops at every mishap no free block
covers held memory, so that what `raw_apart` shows takes one of them.

**What the proof changed.** Two mishaps had been judged in the wrong state, which
none of the runs shows: whether a block is misplaced depends on the memory that the
loop of `mallocing_up` runs in, after a split and after the block left its free list,
and not on the memory before; and whether a chunk is below another one on the
chunks before the request. And it takes an assumption on the largest request:
else its rounded size wraps.

### Only model-checked

The liveness properties `WalkEnds`, `SweepEnds` and `MallocReturns`, which the prover
does not reach, and the properties that runs show violated. Every invariant of a
passing run, and every action property and refinement, is a theorem, with the
hypotheses named above: chunks mapped upwards, no cut distance, no mishap.

## 5. Disagreements with the repository's own words

Each is shown by a run; the quotes and lines are in `PROJECT.json`.

1. `mymalloc.c:436`: the second request leaves out the `Chunk` stored at the
   start of a mapping; for a block within 16 bytes of a multiple of the unit
   the search in the new chunk fails and NULL is read.
2. `mymalloc.c:167`: past the last block of a chunk `get_next_block` returns the
   start of the next chunk; mapped lower, it is taken to be inside of this one.
3. `mymalloc.c:472`: `is_valid` accepts the first 16 bytes after a mapping.
4. `mygc.c:517`: `mark_block` follows pointers to no block, and not the others.
5. `mygc.c:549`: marks are never cleared.
6. `mygc.c:556`: `sweep` frees the last freed block again for each marked block
   that follows.
7. `mygc.c:610`: a new block is appended to the list of allocated blocks with
   whatever link its memory held.
8. `mymalloc-raw.c:436`: a freed block is merged with the one before it in the
   free list, next to it or not.

Seen while modelling, without a run: the chunk table is stored to without a
comparison with `MAX_REQ` (`mymalloc.c:332`; it takes 256 requests); the comment at
`mymalloc.c:21-23` is off by one against `calculate_index` (a size of 8 has index
1, not 0), which no block meets, the smallest being 40 bytes; and the
mishaps `"small"`, `"misplaced"` and `"below"` of the raw allocator.

## 6. Not modelled, and why

* Integer overflow in `mymalloc.c` and `mygc.c`: `size_t` sums stay far below 2^64
  because requests are limited to 128 MB before any arithmetic. The raw
  allocator, where a difference does wrap, has its width.
* What follows a link that was cut (chunks more than 2 GB apart): it leads to any
  address. Collector and raw allocator are modelled at distances that fit.
* A client that frees a pointer twice or an inner pointer: the API forbids it.
  In the raw allocator, which looks for it, freeing what is free is an action.
* A client of the collector that calls `my_free`: the block stays in the list
  of allocated blocks (hazard at `mygc.c:662`); `mygctest.c` does not.
* The values mark_block reads in the 16 bytes past a block: they change nothing
  (its result is dropped). Whether memory is mapped there is the OS's choice.
* Words of the stack that are no pointers, pointers in registers, and a
  `start_of_stack` that was never set: they depend on compiler and client. The
  first only make more blocks marked.
* `unmark_block` (never called), `get_start_block` of the raw allocator (only
  reads), logging, tests, benchmark, build files.

## 7. Plan

Done, in this order: the allocator's heap and client and their proofs, the
collector, the links of the free lists, the raw allocator; the proofs of the
refinement, of best fit and of the walks; those of the free lists; those of the
raw allocator; those of the collector. Left:

1. MyGC on an instance with two chunks, inner pointers and several fields. The
   proofs already allow any number of chunks and fields.
2. What a collection does after a mishap: at least the types of the globals.
