-------------------------------- MODULE Sizes --------------------------------
(***************************************************************************)
(* What src/mymalloc.c and src/mygc.c have in common word for word: the    *)
(* constants, the sizes of the structs on LP64 and the arithmetic on       *)
(* sizes. Addresses and sizes are in bytes.                                *)
(***************************************************************************)
EXTENDS Walks

CONSTANTS
  N_LISTS,              \* number of free lists (59 in the source)
  MAX_REQ,              \* length of ch_array (256 in the source)
  kMemorySize,          \* unit of a request to the OS (64 MB in the source)
  kMaxAllocationSize,   \* largest request served (128 MB - 16 in the source)
  MmapBases,            \* addresses the OS may map a chunk at
  MmapTop               \* end of the address space

kAlignment         == 8
kMinAllocationSize == kAlignment
kMetadataSize      == 16   \* sizeof(Block): size_t, int32_t, int
SizeofFooter       == 16   \* size_t, bool and padding
SizeofChunk        == 16   \* two pointers

ASSUME ListsAssumption == N_LISTS \in Nat \ {0}

\* A chunk of one unit holds a block, and that block is in the last list:
\* my_malloc looks for the block of a new chunk only there.
ASSUME MemoryAssumption ==
  /\ kMemorySize \in Nat
  /\ kMemorySize % kAlignment = 0
  /\ kMemorySize >= SizeofChunk + kMetadataSize + SizeofFooter
  /\ kMemorySize - SizeofChunk >= kAlignment * (N_LISTS - 1)

\* mmap returns page-aligned addresses; here, multiples of the word.
ASSUME BasesAssumption == \A a \in MmapBases : a \in Nat /\ a > 0 /\ a % kAlignment = 0

ASSUME LimitsAssumption ==
  MAX_REQ \in Nat \ {0} /\ MmapTop \in Nat /\ kMaxAllocationSize \in Nat

-----------------------------------------------------------------------------
(* Sizes *)

\* Mutant (ImplementsAllocator): sizes are not aligned.
round_up_nothing(size, alignment) == size

round_up(size, alignment) == ((size + alignment - 1) \div alignment) * alignment

calculate_index(size) ==
  LET index == (size + kAlignment) \div kAlignment - 1
  IN  IF index >= N_LISTS THEN N_LISTS - 1 ELSE index

\* Mutant (LiveBlocksFit, CollectorImplementsAllocator): no room is kept for the footer.
total_size_without_footer(size) == round_up(size + kMetadataSize, kAlignment)

\* Bytes taken by a block that serves a request: header, payload, footer.
total_size(size) == round_up(size + kMetadataSize + SizeofFooter, kAlignment)
=============================================================================
