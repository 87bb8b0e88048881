---------------------------- MODULE RawInvariant ----------------------------
(***************************************************************************)
(* What a sound memory of the first allocator is. C are the chunks in the  *)
(* list, B the blocks, A those in the lists of allocated blocks and F      *)
(* those in the free lists; within a call, a block may be in neither.      *)
(***************************************************************************)
EXTENDS RawHeap

Words == 0 .. HalfWord * HalfWord - 1

\* The fields and their types.
HeapType(h) ==
  /\ h = [first_map |-> h.first_map, mem |-> h.mem, maps |-> h.maps, fault |-> h.fault]
  /\ h.first_map \in Words
  /\ h.mem \in [DOMAIN h.mem -> Words]
  /\ h.maps \in [DOMAIN h.maps -> Nat]
  /\ h.fault \in {"none", "wild"}

-----------------------------------------------------------------------------
(* Lists *)

\* n is the first element of S above b, or NULL if there is none.
After(S, b, n) ==
  \/ n = NULL /\ \A x \in S : x <= b
  \/ n \in S /\ b < n /\ \A x \in S : x <= b \/ n <= x

\* p is the last element of S below b, or NULL if there is none.
Before(S, b, p) ==
  \/ p = NULL /\ \A x \in S : b <= x
  \/ p \in S /\ p < b /\ \A x \in S : x <= p \/ b <= x

\* The elements of S are linked both ways in order of address.
Linked(h, S) ==
  \A b \in S : After(S, b, Get(h, b, NEXT)) /\ Before(S, b, Get(h, b, PREV))

-----------------------------------------------------------------------------
(* Blocks and chunks *)

EndOf(h, b) == b + Get(h, b, SIZE)

\* Where the chunk mapped at c ends.
Limit(h, c) == c + h.maps[c]

Within(h, c, S) == {b \in S : c <= b /\ b < Limit(h, c)}

\* The mappings are apart, and the memory is their words.
Mapping(h) ==
  /\ DOMAIN h.maps \subseteq Nat /\ DOMAIN h.mem \subseteq Nat /\ IsFiniteSet(DOMAIN h.mem)
  /\ \A c \in DOMAIN h.maps :
       /\ c > 0 /\ c % kAlignment = 0 /\ Limit(h, c) % kAlignment = 0
       /\ h.maps[c] \in Nat /\ Limit(h, c) <= MmapTop
       /\ c + SizeofChunk + kMetadataSize + kMinAllocationSize <= Limit(h, c)
  /\ \A c, d \in DOMAIN h.maps : c < d => Limit(h, c) <= d
  /\ \A a \in DOMAIN h.mem : \E c \in DOMAIN h.maps : c <= a /\ a < Limit(h, c)
  /\ \A c \in DOMAIN h.maps : \A a \in Nat :
       c <= a /\ a < Limit(h, c) /\ a % kAlignment = 0 => a \in DOMAIN h.mem

\* A block of the chunk c, followed by a block or by the end of c, and preceded
\* by a block or at the start of c.
BlockOf(h, B, c, b) ==
  /\ c + SizeofChunk <= b /\ EndOf(h, b) <= Limit(h, c)
  /\ EndOf(h, b) = Limit(h, c) \/ EndOf(h, b) \in B
  /\ b = c + SizeofChunk \/ \E a \in B : EndOf(h, a) = b

\* The blocks tile the chunks.
Tiled(h, C, B) ==
  /\ \A c \in C : c + SizeofChunk \in B /\ Get(h, c, CHUNK_SIZE) = h.maps[c]
  /\ \A b \in B :
       /\ b \in Nat /\ b % kAlignment = 0
       /\ Get(h, b, SIZE) >= kMetadataSize + kMinAllocationSize
       /\ \E c \in C : BlockOf(h, B, c, b)
  /\ \A a, b \in B : a < b => EndOf(h, a) <= b

\* The lists of the chunk c. start_alloc_list may be left at a block that is
\* not allocated any more, but is never above one that is.
ChunkLists(h, c, A, F) ==
  /\ After(F, NULL, Get(h, c, FREE)) /\ Linked(h, F) /\ Linked(h, A)
  /\ \/ Get(h, c, ALLOC) = NULL
     \/ c + SizeofChunk <= Get(h, c, ALLOC) /\ Get(h, c, ALLOC) < Limit(h, c)
  /\ \A x \in A : Get(h, c, ALLOC) <= x

Listed(h, C, A, F) ==
  /\ After(C, NULL, h.first_map) /\ Linked(h, C)
  /\ \A c \in C : ChunkLists(h, c, Within(h, c, A), Within(h, c, F))

Shape(h, C, B, A, F) ==
  /\ HeapType(h) /\ Mapping(h) /\ C \subseteq DOMAIN h.maps
  /\ Tiled(h, C, B)
  /\ A \subseteq B /\ F \subseteq B /\ A \cap F = {}
  /\ Listed(h, C, A, F)

\* No two free blocks are neighbours.
Coalesced(h, F) == \A b \in F : EndOf(h, b) \notin F
=============================================================================
