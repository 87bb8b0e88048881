-------------------------------- MODULE MyGC ---------------------------------
(***************************************************************************)
(* The collector of src/mygc.c and a client that never frees: it allocates *)
(* and clears blocks (my_calloc_gc in mygctest.c), keeps pointers to them  *)
(* on the stack and in some words of its blocks, drops pointers, and calls *)
(* my_gc. The words of the stack that scan_and_mark reads are "roots". A   *)
(* collection is a mark step, then one step for each turn of the loop of   *)
(* sweep; nothing else runs meanwhile.                                     *)
(*                                                                         *)
(* Two things the code does not guard against are recorded in "mishap":    *)
(* sweep frees a block a second time, and a block enters the list of       *)
(* allocated blocks with a link left in its memory. Tolerated says after   *)
(* which of them the model goes on.                                        *)
(***************************************************************************)
EXTENDS GcHeap

CONSTANTS
  Requests,    \* sizes the client asks for, multiples of the word
  Fields,      \* offsets in its blocks at which the client stores pointers
  Tolerated    \* mishaps after which the program goes on

VARIABLES
  m,        \* the memory and the globals
  roots,    \* pointers on the stack
  handed,   \* pointer handed out and not taken back by sweep -> size asked for
  pc,       \* "client", or "sweep" within my_gc
  block,    \* the locals of sweep
  freed,
  mishap    \* "none", "second_free" or "stale_link"

vars == <<m, roots, handed, pc, block, freed, mishap>>

ASSUME RequestsAssumption ==
  \A size \in Requests :
    /\ size \in Nat /\ size % kAlignment = 0
    /\ \A f \in Fields : f \in Nat /\ f % kAlignment = 0 /\ (size = 0 \/ f < size)

Running == m.fault = "none" /\ mishap \in Tolerated

\* The client's memset of a new block of "size" bytes.
Cleared(h, p, size) ==
  [h EXCEPT !.mem = [a \in DOMAIN @ |-> IF p <= a /\ a < p + size THEN Word(0) ELSE @[a]]]

my_malloc(size) ==
  LET total == total_size(size) IN
  /\ Running
  /\ pc = "client"
  /\ \/ /\ size = 0 \/ size > kMaxAllocationSize
        /\ UNCHANGED <<m, roots, handed, mishap>>
     \/ /\ size > 0 /\ size <= kMaxAllocationSize
        /\ \E m1 \in first_chunk(m, total) : \E m2 \in another_chunk(m1, total) :
             \/ /\ chosen(m1, m2, total) = {}
                /\ m' = Faulted(m2, "null")   \* get_size(NULL)
                /\ UNCHANGED <<roots, handed, mishap>>
             \/ \E b \in chosen(m1, m2, total) : \E r \in {allocate(m2, b, total)} :
                  LET p == r.block + kMetadataSize
                  IN  /\ m' = Cleared(append_to_alloc_list(r.heap, r.block), p, size)
                      /\ roots' = roots \cup {p}
                      /\ handed' = [q \in DOMAIN handed \cup {p} |->
                                      IF q = p THEN size ELSE handed[q]]
                      /\ mishap' = IF get_next_through_off(m', r.block) # NULL
                                   THEN "stale_link" ELSE mishap
  /\ UNCHANGED <<pc, block, freed>>

\* The client stores q in one of its blocks, and forgets a pointer.
Write(a, q) ==
  /\ Running
  /\ pc = "client"
  /\ m' = Store(m, a, Word(q))
  /\ UNCHANGED <<roots, handed, pc, block, freed, mishap>>

Drop(p) ==
  /\ Running
  /\ pc = "client"
  /\ roots' = roots \ {p}
  /\ UNCHANGED <<m, handed, pc, block, freed, mishap>>

\* mark_block only marks: it goes on with the words that lie in no block, and
\* then with the NULL that find_block returned for them.
mark_blocks(h, S) ==
  [h EXCEPT !.mem = [a \in DOMAIN @ |-> IF a - 8 \in S THEN [@[a] EXCEPT !.mark = 1] ELSE @[a]]]

\* The last two words that mark_block reads of b lie after b: after the last
\* block of a chunk, where memory may be mapped or not.
reads_past(h, b) == ~is_marked(h, b) /\ ~ {b + get_size(h, b), b + get_size(h, b) + 8} \subseteq DOMAIN h.mem

scan_and_mark ==
  /\ Running
  /\ pc = "client"
  /\ \E S \in {UNION {find_block(m, p) : p \in roots}} :
       \/ m' = mark_blocks(m, S)
       \/ /\ \E b \in S : reads_past(m, b)
          /\ m' = Faulted(m, "past")
  /\ pc' = "sweep"
  /\ block' = m.alloc_block_end
  /\ freed' = NULL
  /\ UNCHANGED <<roots, handed, mishap>>

\* The block that a turn of sweep frees: "freed" keeps its value from turn to
\* turn, so a marked block has the one freed last freed again.
swept == IF is_marked(m, block) THEN freed ELSE block

\* Mutant (SweepReclaims): the next block is read after the removal.
next_after_removal == get_next_through_off(remove_from_alloc_list(m, swept), block)

\* Mutant (SweepEnds): a marked block is not passed.
next_if_unmarked == IF block = swept THEN get_next_through_off(m, block) ELSE block

next_to_sweep == get_next_through_off(m, block)

\* The control of the loop of sweep, and the return from my_gc.
next_turn ==
  /\ Running
  /\ pc = "sweep"
  /\ block' = IF block = NULL THEN NULL ELSE next_to_sweep
  /\ pc' = IF block = NULL THEN "client" ELSE "sweep"

sweep ==
  /\ block # NULL
  /\ next_turn
  /\ freed' = swept
  /\ m' = my_free(remove_from_alloc_list(m, swept), swept + kMetadataSize)
  /\ mishap' = IF swept # NULL /\ ~is_allocated(m, swept) THEN "second_free" ELSE mishap
  /\ handed' = [q \in DOMAIN handed \ {swept + kMetadataSize} |-> handed[q]]
  /\ UNCHANGED roots

my_gc_returns ==
  /\ block = NULL
  /\ next_turn
  /\ freed' = NULL
  /\ UNCHANGED <<m, roots, handed, mishap>>

Init ==
  /\ m = InitMemory
  /\ roots = {}
  /\ handed = [p \in {} |-> 0]
  /\ pc = "client"
  /\ block = NULL
  /\ freed = NULL
  /\ mishap = "none"

Next ==
  \/ \E size \in Requests : my_malloc(size)
  \/ \E p, q \in roots, f \in Fields : Write(p + f, q)
  \/ \E p \in roots : Drop(p)
  \/ scan_and_mark
  \/ sweep
  \/ my_gc_returns

\* my_gc runs to its end: nothing else runs before it returns.
Spec == Init /\ [][Next]_vars /\ WF_<<block, pc>>(next_turn)

-----------------------------------------------------------------------------
(* Properties                                                              *)

Sound == m.fault = "none" /\ mishap = "none"

AllBlocks == UNION {Elements(BlocksOf(m, i)) : i \in ChunkIds(m)}

AllocatedBlocks == {b \in AllBlocks : is_allocated(m, b)}

\* Every variable holds values of the C types that store it.
GcTypeOK ==
  /\ m.index_last_chunk_from_OS \in -1 .. MAX_REQ - 1
  /\ m.ch_array \in [ChunkIds(m) -> Nat]
  /\ m.corr_size_arr \in [ChunkIds(m) -> Nat]
  /\ m.free_lists \in [0 .. N_LISTS - 1 -> Nat]
  /\ m.alloc_block_end \in Nat
  /\ m.mem \in [DOMAIN m.mem -> [lo : Int, hi : Nat, mark : {0, 1}]]
  /\ roots \subseteq Nat
  /\ handed \in [DOMAIN handed -> Nat]
  /\ pc \in {"client", "sweep"}
  /\ block \in Nat /\ freed \in Nat

\* The walk by sizes that find_block relies on meets the end of each chunk;
\* each block on it ends in its footer, knows its chunk and its left
\* neighbour's status, and has a free neighbour on no side if it is free.
\* It holds between any two turns of sweep, and no call stores elsewhere.
WalkMeetsEveryBlock ==
  /\ mishap = "none" => m.fault # "wild"
  /\ Sound =>
    \A i \in ChunkIds(m) :
      LET s == BlocksOf(m, i) IN
      /\ s[Len(s)] + get_size(m, s[Len(s)]) = EndOfChunk(m, i)
      /\ \A k \in DOMAIN s :
           /\ get_chunk_index(m, s[k]) = i
           /\ At(m, s[k] + get_size(m, s[k]) - SizeofFooter).lo = get_size(m, s[k])
      /\ \A k \in DOMAIN s \ {1} :
           /\ s[k] = s[k - 1] + get_size(m, s[k - 1])
           /\ is_prev_allocated(m, s[k]) <=> is_allocated(m, s[k - 1])
           /\ is_allocated(m, s[k]) \/ is_allocated(m, s[k - 1])

\* One link field serves two kinds of list: still the blocks are split between
\* the list of the allocated ones and the free lists of their sizes.
ListsPartitionBlocks ==
  Sound =>
    LET free == {b \in AllBlocks : ~is_allocated(m, b)} IN
    /\ ~Lost(m, m.alloc_block_end)
    /\ Elements(Chain(m, m.alloc_block_end)) = AllocatedBlocks
    /\ \A i \in 0 .. N_LISTS - 1 :
         /\ ~Lost(m, m.free_lists[i])
         /\ Elements(Chain(m, m.free_lists[i])) = {b \in free : calculate_index(get_size(m, b)) = i}

\* What the stack points to is an allocated block, through any number of
\* collections, and is marked while sweep runs.
StackRetained ==
  Sound =>
    LET allocated == AllocatedBlocks IN
    \A p \in roots :
      /\ ptr_to_block(p) \in allocated
      /\ pc = "sweep" => is_marked(m, ptr_to_block(p))

\* The allocated blocks are those handed out and not taken back, with room for
\* what was asked for: no turn of sweep takes another block along, by a merge
\* or by a bit that was not told.
HandedFits ==
  Sound =>
    /\ {b + kMetadataSize : b \in AllocatedBlocks} = DOMAIN handed
    /\ \A p \in DOMAIN handed :
         handed[p] + kMetadataSize + SizeofFooter <= get_size(m, ptr_to_block(p))

\* When sweep has passed the last block, no block is allocated but unmarked.
SweepReclaims ==
  Sound /\ pc = "sweep" /\ block = NULL => \A b \in AllocatedBlocks : is_marked(m, b)

\* A collection returns, short of the mishaps and of the read past a chunk.
SweepEnds == pc = "sweep" ~> pc = "client" \/ mishap # "none" \/ m.fault = "past"

Promise ==
  INSTANCE Allocator WITH
    live   <- handed,
    Addr   <- {kAlignment * k : k \in 0 .. MmapTop \div kAlignment},
    Sizes  <- Requests,
    Header <- kMetadataSize,
    Footer <- SizeofFooter,
    Align  <- kAlignment

\* Short of the mishaps the collector implements Allocator: it hands out
\* memory, bookkeeping included, apart from all it has not taken back, and takes
\* back one block at a time.
CollectorImplementsAllocator ==
  Promise!Init /\ [][mishap' = "none" /\ handed' # handed => Promise!Next]_vars

\* Pointers on the stack, and stored in the blocks that these lead to.
Reachable ==
  LET reach[k \in 0 .. Cardinality(AllBlocks)] ==
        IF k = 0 THEN roots
        ELSE reach[k - 1] \cup ({At(m, p + f).lo : p \in reach[k - 1], f \in Fields} \ {NULL})
  IN  reach[Cardinality(AllBlocks)]

\* All memory that can be reached from the stack is retained.
ReachableRetained == Sound => {ptr_to_block(p) : p \in Reachable} \subseteq AllocatedBlocks

\* What cannot be reached from the stack is free when my_gc returns.
GarbageFreed ==
  Sound /\ pc = "sweep" /\ block = NULL => AllocatedBlocks \subseteq {ptr_to_block(p) : p \in Reachable}

\* The list of allocated blocks leads to allocated blocks, and ends.
AllocatedListed ==
  m.fault = "none" =>
    Elements(Chain(m, m.alloc_block_end)) \subseteq AllocatedBlocks /\ ~Lost(m, m.alloc_block_end)

\* Memory that the stack points to is not free to be handed out again.
HeldNotFree ==
  m.fault = "none" =>
    \A i \in 0 .. N_LISTS - 1 : \A b \in Elements(Chain(m, m.free_lists[i])) :
      \A p \in roots : p < b \/ p >= b + get_size(m, b)
=============================================================================
