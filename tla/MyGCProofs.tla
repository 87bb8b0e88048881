----------------------------- MODULE MyGCProofs ------------------------------
(***************************************************************************)
(* What MyGC keeps in every reachable state, short of the two mishaps that *)
(* the code does not guard against: the memory holds a sound heap of the   *)
(* allocator, all of its allocated blocks are in their list, and they are  *)
(* the blocks handed out and not taken back.                               *)
(***************************************************************************)
EXTENDS MyGC, GcHeapProofs

-----------------------------------------------------------------------------
(* The calls, as functions of the memory *)

\* The memory n holds the heap h, A lists its allocated blocks, and the client
\* holds them with the sizes in l.
Serves(n, h, A, l) == Collected(n, h, A) /\ H!Client(h, l)

\* Links that are as they were lead to the same list.
LEMMA CollectedKept ==
  ASSUME NEW n, NEW h, NEW A, Collected(n, h, A), NEW k, NEW g, H!Sound(g), H!Grid(g), Holds(k, g),
         H!Allocated(g) = H!Allocated(h),
         k.alloc_block_end = n.alloc_block_end, DOMAIN n.mem \subseteq DOMAIN k.mem,
         \A x \in H!Allocated(h) : At(k, x + 8).lo = At(n, x + 8).lo
  PROVE  Collected(k, g, A)
<1>1. Spells(n, n.alloc_block_end, A) /\ Elements(A) = H!Allocated(h)
  BY DEF Collected
<1>2. \A j \in DOMAIN A : At(k, A[j] + 8).lo = At(n, A[j] + 8).lo
  BY <1>1 DEF Elements
<1>3. Spells(k, k.alloc_block_end, A)
  BY <1>1, <1>2, SpellsKept
<1>4. QED
  BY <1>1, <1>3 DEF Collected

\* memset clears words of the payload of a block.
LEMMA ClearedHeld ==
  ASSUME NEW g, H!Sound(g), H!Grid(g), NEW n, Holds(n, g), NEW a \in H!Allocated(g),
         NEW size \in Nat, g.block[a].size >= size + 32
  PROVE  LET k == Cleared(n, a + kMetadataSize, size)
         IN  /\ Holds(k, g) /\ k.fault = n.fault /\ k.alloc_block_end = n.alloc_block_end
             /\ DOMAIN k.mem = DOMAIN n.mem
             /\ \A x \in H!Blocks(g) : At(k, x + 8) = At(n, x + 8)
<1>. DEFINE p == a + kMetadataSize
            F == [w \in DOMAIN n.mem |-> IF p <= w /\ w < p + size THEN Word(0) ELSE n.mem[w]]
            k == [n EXCEPT !.mem = F]
            W == {w \in DOMAIN n.mem : p <= w /\ w < p + size}
<1>1. Laid(g) /\ MemType(n)
  BY SoundLaid DEF H!Sound, Holds, Mapped
<1>2. Cleared(n, p, size) = k
  BY DEF Cleared
<1>3. a \in H!Blocks(g)
  BY DEF H!Allocated
<1>4. /\ a \in Nat /\ H!EndOf(g, a) = a + g.block[a].size /\ g.block[a].size \in Nat
  BY <1>1, <1>3, LaidBlock
<1>5. W \subseteq Payload(g)
  <2>1. ASSUME NEW w \in W PROVE w \in Payload(g)
    <3>1. w \in Nat /\ a + 16 <= w /\ w < a + 16 + size
      BY <1>1, Names DEF MemType
    <3>2. w < H!EndOf(g, a) - 16
      BY <1>4, <3>1
    <3>3. QED
      BY <3>1, <3>2 DEF Payload
  <2>2. QED
    BY <2>1
<1>6. /\ n.mem \in [DOMAIN n.mem -> Words] /\ DOMAIN n.mem \subseteq Nat
      /\ n = [index_last_chunk_from_OS |-> n.index_last_chunk_from_OS,
              ch_array        |-> n.ch_array,
              corr_size_arr   |-> n.corr_size_arr,
              free_lists      |-> n.free_lists,
              alloc_block_end |-> n.alloc_block_end,
              mem             |-> n.mem,
              fault           |-> n.fault]
  BY <1>1 DEF MemType
<1>7. F \in [DOMAIN n.mem -> Words]
  <2>1. Word(0) \in Words
    BY DEF Word, Words
  <2>2. QED
    BY <1>6, <2>1
<1>8. \A w : w \notin W /\ w \in DOMAIN n.mem => F[w] = n.mem[w]
  OBVIOUS
<1>. HIDE DEF F, W, p
<1>9. /\ k = [index_last_chunk_from_OS |-> n.index_last_chunk_from_OS,
              ch_array        |-> n.ch_array,
              corr_size_arr   |-> n.corr_size_arr,
              free_lists      |-> n.free_lists,
              alloc_block_end |-> n.alloc_block_end,
              mem             |-> F,
              fault           |-> n.fault]
  BY <1>6
<1>. HIDE DEF k
<1>10. /\ k.index_last_chunk_from_OS = n.index_last_chunk_from_OS
       /\ k.ch_array = n.ch_array /\ k.corr_size_arr = n.corr_size_arr
       /\ k.free_lists = n.free_lists /\ k.alloc_block_end = n.alloc_block_end
       /\ k.mem = F /\ k.fault = n.fault
  BY <1>9
<1>11. DOMAIN k.mem = DOMAIN n.mem /\ MemType(k)
  BY <1>6, <1>7, <1>9, <1>10 DEF MemType
<1>12. \A w : w \notin W => At(k, w) = At(n, w)
  BY <1>8, <1>10, <1>11 DEF At
<1>13. Stored(n, k, W)
  BY <1>10, <1>11, <1>12 DEF Stored
<1>14. /\ Holds(k, g)
       /\ \A x \in H!Blocks(g) : At(k, x) = At(n, x) /\ At(k, x + 8) = At(n, x + 8)
  BY <1>5, <1>10, <1>13, PayloadStored
<1>15. QED
  BY <1>2, <1>10, <1>11, <1>14 DEF p

\* The requests to the OS leave the client what it has.
LEMMA AskedServes ==
  ASSUME NEW n, NEW h, NEW A, NEW l, Serves(n, h, A, l), NEW total \in Nat,
         NEW n1 \in first_chunk(n, total), NEW n2 \in another_chunk(n1, total)
  PROVE  n2.fault \in {n.fault, "table"} /\ \E g : Serves(n2, g, A, l)
<1>1. /\ Collected(n, h, A) /\ H!Client(h, l)
      /\ H!Sound(h) /\ H!Grid(h) /\ Holds(n, h)
  BY DEF Serves, Collected
<1>2. Asked(n, n2, h)
  BY <1>1, RequestsAsked
<1>3. PICK g : H!Sound(g) /\ H!Grid(g) /\ H!SameAllocated(h, g) /\ Holds(n2, g)
  BY <1>2 DEF Asked
<1>4. /\ n2.alloc_block_end = n.alloc_block_end /\ n2.fault \in {n.fault, "table"}
      /\ DOMAIN n.mem \subseteq DOMAIN n2.mem
      /\ \A x \in H!Allocated(h) : At(n2, x + 8) = At(n, x + 8)
  BY <1>2 DEF Asked, Keeps
<1>5. H!Allocated(g) = H!Allocated(h)
  BY <1>3 DEF H!SameAllocated
<1>6. Collected(n2, g, A)
  BY <1>1, <1>3, <1>4, <1>5, CollectedKept
<1>7. H!Client(g, l)
  BY <1>1, <1>3, H!ClientSame, HeapAssumptions
<1>8. QED
  BY <1>4, <1>6, <1>7 DEF Serves

\* What my_malloc hands out, if the block's link happens to be empty.
HandsOut(n, k, h, A, l, a, size) ==
  LET p == a + kMetadataSize
  IN  /\ p \notin DOMAIN l /\ k.fault \in {n.fault, "table"}
      /\ get_next_through_off(k, a) = NULL =>
           \E g : Serves(k, g, Append(A, a),
                         [q \in DOMAIN l \cup {p} |-> IF q = p THEN size ELSE l[q]])

\* From the search on: allocate, append_to_alloc_list and memset.
LEMMA ServedAlike ==
  ASSUME NEW n, NEW h, NEW A, NEW l, Serves(n, h, A, l), NEW size \in Nat,
         NEW b \in FreeBlocks(h), h.block[b].size >= total_size(size),
         NEW r, r = allocate(n, b, total_size(size)),
         NEW k, k = Cleared(append_to_alloc_list(r.heap, r.block), r.block + kMetadataSize, size)
  PROVE  HandsOut(n, k, h, A, l, r.block, size)
<1>. DEFINE total == total_size(size)
            a     == r.block
            p     == a + kMetadataSize
            f     == append_to_alloc_list(r.heap, a)
            live  == [q \in DOMAIN l \cup {p} |-> IF q = p THEN size ELSE l[q]]
<1>1. /\ Collected(n, h, A) /\ H!Client(h, l) /\ H!Sound(h) /\ H!Grid(h) /\ Holds(n, h)
      /\ Spells(n, n.alloc_block_end, A) /\ Elements(A) = H!Allocated(h)
  BY DEF Serves, Collected
<1>2. total \in Nat /\ total >= size + 32 /\ total % 8 = 0 /\ total >= 32
  <2>1. H!total_size(size) \in Nat /\ H!total_size(size) >= size + 32
    BY H!TotalSize, HeapAssumptions
  <2>2. H!total_size(size) % H!kAlignment = 0
    BY H!TotalAligned, HeapAssumptions
  <2>3. H!total_size(size) = total /\ H!kAlignment = 8
    BY Names
  <2>. HIDE DEF total
  <2>4. QED
    BY <2>1, <2>2, <2>3
<1>3. PICK u : u = H!allocate(h, b, total)
  OBVIOUS
<1>4. Allots(n, r, h, u, total)
  <2>1. h.block[b].size >= total /\ r = allocate(n, b, total)
    OBVIOUS
  <2>. HIDE DEF total
  <2>2. QED
    BY <1>1, <1>2, <1>3, <2>1, AllocateAlike
<1>5. PICK g : g = u.heap
  OBVIOUS
<1>. HIDE DEF total
<1>6. /\ Holds(r.heap, g) /\ H!Grid(g) /\ H!Allocates(h, g, a, total) /\ Keeps(n, r.heap, H!Allocated(h))
  BY <1>4, <1>5 DEF Allots
<1>. HIDE DEF a
<1>7. /\ H!Sound(g) /\ a \notin H!Allocated(h) /\ H!Allocated(g) = H!Allocated(h) \cup {a}
      /\ g.block[a].size >= total
  BY <1>6 DEF H!Allocates
<1>8. Laid(g) /\ a \in H!Blocks(g) /\ a \in Nat /\ g.block[a].size \in Nat
  <2>1. Laid(g) /\ a \in H!Blocks(g)
    BY <1>6, <1>7, SoundLaid DEF H!Sound, H!Allocated
  <2>2. QED
    BY <2>1, LaidBlock
<1>9. p \notin DOMAIN l
  <2>1. p - H!kMetadataSize = a
    BY <1>8, Names
  <2>2. p \in DOMAIN l => p - H!kMetadataSize \in H!Allocated(h)
    BY <1>1, H!ClientBlock, HeapAssumptions
  <2>3. QED
    BY <1>7, <2>1, <2>2
<1>10. /\ r.heap.fault \in {n.fault, "table"} /\ r.heap.alloc_block_end = n.alloc_block_end
       /\ DOMAIN n.mem \subseteq DOMAIN r.heap.mem
       /\ \A x \in H!Allocated(h) : At(r.heap, x + 8) = At(n, x + 8)
  BY <1>6 DEF Keeps
<1>11. Spells(r.heap, r.heap.alloc_block_end, A)
  <2>1. \A j \in DOMAIN A : At(r.heap, A[j] + 8).lo = At(n, A[j] + 8).lo
    BY <1>1, <1>10 DEF Elements
  <2>2. QED
    BY <1>1, <1>10, <2>1, SpellsKept
<1>12. Appends(r.heap, f, g, A, a)
  <2>1. a \notin Elements(A) /\ H!Allocated(g) = Elements(A) \cup {a}
    BY <1>1, <1>7
  <2>2. QED
    BY <1>6, <1>7, <1>11, <2>1, AllocAppended
<1>. HIDE DEF f
<1>13. k = Cleared(f, a + kMetadataSize, size)
  BY DEF f, a
<1>14. /\ Holds(f, g) /\ f.fault = r.heap.fault
       /\ get_next_through_off(f, a) = NULL => Collected(f, g, Append(A, a))
  BY <1>12 DEF Appends
<1>15. a \in H!Allocated(g) /\ g.block[a].size >= size + 32
  BY <1>2, <1>7, <1>8
<1>16. /\ Holds(k, g) /\ k.fault = f.fault /\ k.alloc_block_end = f.alloc_block_end
       /\ DOMAIN k.mem = DOMAIN f.mem
       /\ \A x \in H!Blocks(g) : At(k, x + 8) = At(f, x + 8)
  <2>1. LET c == Cleared(f, a + kMetadataSize, size)
        IN  /\ Holds(c, g) /\ c.fault = f.fault /\ c.alloc_block_end = f.alloc_block_end
            /\ DOMAIN c.mem = DOMAIN f.mem
            /\ \A x \in H!Blocks(g) : At(c, x + 8) = At(f, x + 8)
    BY <1>6, <1>7, <1>14, <1>15, ClearedHeld
  <2>2. QED
    BY <1>13, <2>1
<1>17. H!Client(g, live)
  <2>1. p = a + H!kMetadataSize
    BY Names
  <2>. HIDE DEF p
  <2>2. QED
    BY <1>1, <1>2, <1>6, <2>1, H!ClientMalloc, HeapAssumptions
<1>18. ASSUME get_next_through_off(k, a) = NULL
       PROVE  Serves(k, g, Append(A, a), live)
  <2>1. get_next_through_off(f, a) = NULL
    BY <1>8, <1>16, <1>18 DEF get_next_through_off
  <2>2. Collected(f, g, Append(A, a))
    BY <1>14, <2>1
  <2>3. \A x \in H!Allocated(g) : At(k, x + 8).lo = At(f, x + 8).lo
    BY <1>16 DEF H!Allocated
  <2>4. Collected(k, g, Append(A, a))
    BY <1>6, <1>7, <1>16, <2>2, <2>3, CollectedKept
  <2>5. QED
    BY <1>17, <2>4 DEF Serves
<1>19. k.fault \in {n.fault, "table"}
  BY <1>10, <1>14, <1>16
<1>20. HandsOut(n, k, h, A, l, a, size)
  <2>. DEFINE P(v) == Serves(k, v, Append(A, a), live)
  <2>1. get_next_through_off(k, a) = NULL => \E v : P(v)
    <3>1. get_next_through_off(k, a) = NULL => P(g)
      BY <1>18
    <3>. HIDE DEF P
    <3>2. QED
      BY <3>1
  <2>2. QED
    BY <1>9, <1>19, <2>1 DEF HandsOut
<1>21. QED
  BY <1>20 DEF a

\* my_malloc: what is handed out comes out of the memory after the requests.
LEMMA MallocAlike ==
  ASSUME NEW n, NEW h, NEW A, NEW l, Serves(n, h, A, l), NEW size \in Nat,
         NEW n1 \in first_chunk(n, total_size(size)), NEW n2 \in another_chunk(n1, total_size(size)),
         NEW b \in chosen(n1, n2, total_size(size)),
         NEW r, r = allocate(n2, b, total_size(size)),
         NEW k, k = Cleared(append_to_alloc_list(r.heap, r.block), r.block + kMetadataSize, size)
  PROVE  \E g : HandsOut(n, k, g, A, l, r.block, size)
<1>1. total_size(size) \in Nat
  <2>1. H!total_size(size) \in Nat /\ H!total_size(size) >= size + 32
    BY H!TotalSize, HeapAssumptions
  <2>2. QED
    BY <2>1, Names
<1>2. n2.fault \in {n.fault, "table"} /\ \E g : Serves(n2, g, A, l)
  BY <1>1, AskedServes
<1>3. PICK g : Serves(n2, g, A, l)
  BY <1>2
<1>4. b \in FreeBlocks(g) /\ g.block[b].size >= total_size(size)
  <2>1. H!Sound(g) /\ H!Grid(g) /\ Holds(n2, g)
    BY <1>3 DEF Serves, Collected
  <2>2. QED
    BY <1>1, <2>1, ChosenAlike
<1>5. HandsOut(n2, k, g, A, l, r.block, size)
  BY <1>3, <1>4, ServedAlike
<1>6. HandsOut(n, k, g, A, l, r.block, size)
  BY <1>2, <1>5 DEF HandsOut
<1>7. QED
  BY <1>6

\* The blocks that the client holds.
LEMMA HeldBlock ==
  ASSUME NEW n, NEW h, NEW A, NEW l, Serves(n, h, A, l), NEW p \in DOMAIN l
  PROVE  LET b == ptr_to_block(p)
         IN  /\ b \in H!Allocated(h) /\ b \in H!Blocks(h) /\ b \in Elements(A)
             /\ b \in Nat \ {NULL} /\ p \in Nat /\ p = b + 16 /\ p = b + kMetadataSize /\ l[p] \in Nat
             /\ b + l[p] + 32 <= H!EndOf(h, b) /\ H!EndOf(h, b) <= MmapTop
             /\ H!EndOf(h, b) \in Nat /\ b % 8 = 0 /\ H!EndOf(h, b) % 8 = 0
<1>. DEFINE b == ptr_to_block(p)
<1>1. /\ H!Client(h, l) /\ H!Sound(h) /\ H!Grid(h) /\ Elements(A) = H!Allocated(h) /\ Laid(h)
  BY SoundLaid DEF Serves, Collected, H!Sound
<1>2. /\ p - H!kMetadataSize \in H!Allocated(h) /\ p \in Nat
      /\ p - H!kMetadataSize \in Nat
  BY <1>1, H!ClientBlock, HeapAssumptions
<1>3. b = p - 16 /\ p - H!kMetadataSize = b
  BY Names DEF ptr_to_block
<1>. HIDE DEF b
<1>4. b \in H!Allocated(h) /\ b \in H!Blocks(h) /\ b \in Nat /\ p = b + 16
  BY <1>2, <1>3 DEF H!Allocated
<1>5. /\ b \in Nat \ {0} /\ H!EndOf(h, b) <= MmapTop
      /\ H!EndOf(h, b) \in Nat /\ b % 8 = 0 /\ H!EndOf(h, b) % 8 = 0
  BY <1>1, <1>4, LaidBlock
<1>6. l[p] \in Nat /\ p + l[p] + H!SizeofFooter <= H!EndOf(h, p - H!kMetadataSize)
  BY <1>1 DEF H!Client
<1>7. b + l[p] + 32 <= H!EndOf(h, b)
  <2>1. p + l[p] + 16 <= H!EndOf(h, b)
    BY <1>3, <1>6, Names
  <2>2. QED
    BY <1>4, <1>5, <1>6, <2>1
<1>8. QED
  BY <1>1, <1>2, <1>4, <1>5, <1>6, <1>7, Names DEF b

\* A turn of sweep that frees an allocated block takes it back from the client.
LEMMA SweptServes ==
  ASSUME NEW n, NEW h, NEW A, NEW l, Serves(n, h, A, l), NEW j \in DOMAIN A
  PROVE  LET k == my_free(remove_from_alloc_list(n, A[j]), A[j] + kMetadataSize)
         IN  \E g : /\ SweepsOne(n, k, h, g, A, j)
                    /\ Serves(k, g, DropAt(A, j), [q \in DOMAIN l \ {A[j] + kMetadataSize} |-> l[q]])
<1>. DEFINE k == my_free(remove_from_alloc_list(n, A[j]), A[j] + kMetadataSize)
            p == A[j] + kMetadataSize
<1>1. Collected(n, h, A) /\ H!Client(h, l) /\ H!Sound(h) /\ Elements(A) = H!Allocated(h)
  BY DEF Serves, Collected
<1>2. \E g : SweepsOne(n, k, h, g, A, j)
  BY <1>1, SweptAlike
<1>. HIDE DEF k
<1>3. PICK g : SweepsOne(n, k, h, g, A, j)
  BY <1>2
<1>4. /\ Collected(k, g, DropAt(A, j)) /\ H!Allocated(g) = H!Allocated(h) \ {A[j]}
      /\ \A x \in H!Allocated(g) : g.block[x].size = h.block[x].size
  BY <1>3 DEF SweepsOne
<1>5. A[j] \in Nat
  BY <1>1 DEF Collected, Spells
<1>6. p \in DOMAIN l /\ p - H!kMetadataSize = A[j]
  <2>1. A[j] \in H!Allocated(h)
    BY <1>1 DEF Elements
  <2>2. A[j] + H!kMetadataSize \in DOMAIN l
    BY <1>1, <2>1 DEF H!Client
  <2>3. QED
    BY <1>5, <2>2, Names
<1>. HIDE DEF p
<1>7. H!Client(g, [q \in DOMAIN l \ {p} |-> l[q]])
  BY <1>1, <1>4, <1>6, H!ClientFree, HeapAssumptions
<1>8. Serves(k, g, DropAt(A, j), [q \in DOMAIN l \ {p} |-> l[q]])
  BY <1>4, <1>7 DEF Serves
<1>9. QED
  BY <1>3, <1>8 DEF k, p

\* my_free of the pointer that stands for no block: no chunk starts that low.
LEMMA SweptNone ==
  ASSUME NEW n, NEW h, NEW A, NEW l, Serves(n, h, A, l)
  PROVE  /\ my_free(remove_from_alloc_list(n, NULL), NULL + kMetadataSize) = n
         /\ NULL + kMetadataSize \notin DOMAIN l
<1>1. Laid(h) /\ Mapped(n, h)
  BY SoundLaid DEF Serves, Collected, H!Sound, Holds
<1>2. \A i \in ChunkIds(n) : StartOf(n, i) \in Nat /\ StartOf(n, i) >= 16
  <2>1. TAKE i \in ChunkIds(n)
  <2>2. i \in H!ChunkIds(h) /\ StartOf(n, i) = h.ch_array[i].start
    BY <1>1, ChunkReads
  <2>3. /\ h.ch_array[i].base \in Nat /\ h.ch_array[i].start \in Nat
        /\ h.ch_array[i].start = h.ch_array[i].base + 16
    BY <1>1, <2>2, LaidChunk
  <2>4. QED
    BY <2>2, <2>3
<1>3. NULL + kMetadataSize = 16
  BY Names
<1>4. ~is_valid(n, 16)
  BY <1>2 DEF is_valid
<1>5. remove_from_alloc_list(n, NULL) = n
  BY DEF remove_from_alloc_list
<1>6. my_free(n, 16) = n
  BY <1>4 DEF my_free
<1>7. 16 \notin DOMAIN l
  <2>1. ASSUME 16 \in DOMAIN l PROVE FALSE
    <3>1. ptr_to_block(16) \in Nat \ {NULL}
      BY <2>1, HeldBlock
    <3>2. QED
      BY <3>1, Names DEF ptr_to_block
  <2>2. QED
    BY <2>1
<1>8. QED
  BY <1>3, <1>5, <1>6, <1>7

\* What the client stores in its blocks changes nothing of the heap.
LEMMA WriteServes ==
  ASSUME NEW n, NEW h, NEW A, NEW l, Serves(n, h, A, l), NEW p \in DOMAIN l,
         NEW f \in Nat, f % 8 = 0, f < l[p], NEW q \in Nat
  PROVE  Serves(Store(n, p + f, Word(q)), h, A, l) /\ Store(n, p + f, Word(q)).fault = n.fault
<1>. DEFINE b == ptr_to_block(p)
            w == p + f
            k == Store(n, w, Word(q))
<1>1. /\ Collected(n, h, A) /\ H!Client(h, l) /\ H!Sound(h) /\ H!Grid(h) /\ Holds(n, h)
      /\ Laid(h) /\ Mapped(n, h) /\ MemType(n)
  BY SoundLaid DEF Serves, Collected, H!Sound, Holds, Mapped
<1>2. /\ b \in H!Allocated(h) /\ b \in H!Blocks(h) /\ b \in Nat /\ p = b + 16 /\ l[p] \in Nat
      /\ b + l[p] + 32 <= H!EndOf(h, b) /\ H!EndOf(h, b) \in Nat /\ b % 8 = 0
  BY HeldBlock
<1>. HIDE DEF b
<1>3. /\ w \in Nat /\ w % 8 = 0 /\ b <= w /\ b + 16 <= w
      /\ w < H!EndOf(h, b) - 16 /\ w < H!EndOf(h, b)
  BY <1>2
<1>. HIDE DEF w
<1>4. w \in DOMAIN n.mem
  BY <1>1, <1>2, <1>3, BlockWords
<1>5. Word(q) \in Words
  BY DEF Word, Words
<1>6. Stored(n, k, {w}) /\ k.free_lists = n.free_lists
  BY <1>1, <1>4, <1>5, StoreFields
<1>. HIDE DEF k
<1>7. {w} \subseteq Payload(h)
  BY <1>2, <1>3 DEF Payload
<1>8. /\ Holds(k, h)
      /\ \A x \in H!Blocks(h) : At(k, x) = At(n, x) /\ At(k, x + 8) = At(n, x + 8)
  BY <1>1, <1>6, <1>7, PayloadStored
<1>9. /\ k.alloc_block_end = n.alloc_block_end /\ k.fault = n.fault
      /\ DOMAIN k.mem = DOMAIN n.mem
  BY <1>6 DEF Stored
<1>10. \A x \in H!Allocated(h) : At(k, x + 8).lo = At(n, x + 8).lo
  BY <1>8 DEF H!Allocated
<1>11. Collected(k, h, A)
  BY <1>1, <1>8, <1>9, <1>10, CollectedKept
<1>12. QED
  BY <1>1, <1>9, <1>11 DEF Serves, k, w

\* The mark bit is read by nothing else.
LEMMA MarkServes ==
  ASSUME NEW n, NEW h, NEW A, NEW l, Serves(n, h, A, l), NEW S
  PROVE  LET k == mark_blocks(n, S)
         IN  /\ Serves(k, h, A, l) /\ k.fault = n.fault /\ k.alloc_block_end = n.alloc_block_end
             /\ \A b \in S : b \in H!Blocks(h) => is_marked(k, b)
<1>. DEFINE F == [a \in DOMAIN n.mem |-> IF a - 8 \in S THEN [n.mem[a] EXCEPT !.mark = 1] ELSE n.mem[a]]
            k == [n EXCEPT !.mem = F]
<1>1. /\ Collected(n, h, A) /\ H!Client(h, l) /\ H!Sound(h) /\ H!Grid(h) /\ Holds(n, h)
      /\ Laid(h) /\ Mapped(n, h) /\ MemType(n)
  BY SoundLaid DEF Serves, Collected, H!Sound, Holds, Mapped
<1>2. mark_blocks(n, S) = k
  BY DEF mark_blocks
<1>3. /\ n.mem \in [DOMAIN n.mem -> Words] /\ DOMAIN n.mem \subseteq Nat
      /\ n = [index_last_chunk_from_OS |-> n.index_last_chunk_from_OS,
              ch_array        |-> n.ch_array,
              corr_size_arr   |-> n.corr_size_arr,
              free_lists      |-> n.free_lists,
              alloc_block_end |-> n.alloc_block_end,
              mem             |-> n.mem,
              fault           |-> n.fault]
  BY <1>1 DEF MemType
<1>4. ASSUME NEW a \in DOMAIN n.mem
      PROVE  /\ F[a] \in Words /\ F[a].lo = n.mem[a].lo /\ F[a].hi = n.mem[a].hi
             /\ a - 8 \in S => F[a].mark = 1
  <2>1. n.mem[a] \in Words
    BY <1>3
  <2>2. F[a] = IF a - 8 \in S THEN [n.mem[a] EXCEPT !.mark = 1] ELSE n.mem[a]
    OBVIOUS
  <2>. HIDE DEF F
  <2>3. QED
    BY <2>1, <2>2 DEF Words
<1>5. DOMAIN F = DOMAIN n.mem
  OBVIOUS
<1>6. F \in [DOMAIN n.mem -> Words]
  <2>1. F = [a \in DOMAIN F |-> F[a]]
    OBVIOUS
  <2>. HIDE DEF F
  <2>2. QED
    BY <1>4, <1>5, <2>1
<1>. HIDE DEF F
<1>7. k = [index_last_chunk_from_OS |-> n.index_last_chunk_from_OS,
           ch_array        |-> n.ch_array,
           corr_size_arr   |-> n.corr_size_arr,
           free_lists      |-> n.free_lists,
           alloc_block_end |-> n.alloc_block_end,
           mem             |-> F,
           fault           |-> n.fault]
  BY <1>3
<1>. HIDE DEF k
<1>8. /\ k.index_last_chunk_from_OS = n.index_last_chunk_from_OS
      /\ k.ch_array = n.ch_array /\ k.corr_size_arr = n.corr_size_arr
      /\ k.free_lists = n.free_lists /\ k.alloc_block_end = n.alloc_block_end
      /\ k.mem = F /\ k.fault = n.fault
  BY <1>7
<1>9. DOMAIN k.mem = DOMAIN n.mem /\ MemType(k)
  BY <1>3, <1>5, <1>6, <1>7, <1>8 DEF MemType
<1>10. \A a : At(k, a).lo = At(n, a).lo /\ At(k, a).hi = At(n, a).hi
  BY <1>4, <1>8, <1>9 DEF At
<1>11. SameReads(n, k)
  BY <1>8, <1>9, <1>10 DEF SameReads
<1>12. Holds(k, h)
  BY <1>1, <1>11, HoldsReads
<1>13. Collected(k, h, A)
  BY <1>1, <1>8, <1>9, <1>10, <1>12, CollectedKept
<1>14. ASSUME NEW b \in S, b \in H!Blocks(h) PROVE is_marked(k, b)
  <2>1. /\ b \in Nat /\ b % 8 = 0 /\ h.block[b].size \in Nat /\ h.block[b].size >= 32
        /\ H!EndOf(h, b) = b + h.block[b].size
    BY <1>1, <1>14, LaidBlock
  <2>2. b + 8 \in Nat /\ (b + 8) % 8 = 0 /\ b <= b + 8 /\ b + 8 < H!EndOf(h, b) /\ (b + 8) - 8 = b
    BY <2>1
  <2>3. b + 8 \in DOMAIN n.mem
    BY <1>1, <1>14, <2>2, BlockWords
  <2>4. F[b + 8].mark = 1
    BY <1>4, <2>2, <2>3
  <2>5. QED
    BY <1>8, <1>9, <2>3, <2>4 DEF is_marked, At
<1>15. QED
  BY <1>1, <1>2, <1>8, <1>13, <1>14 DEF Serves

-----------------------------------------------------------------------------
(* The invariant *)

\* What sweep is left to do: the blocks before "b" in the list A are marked, all
\* of them if b is NULL, and so are those on the stack. What it freed last, f,
\* is free: there the code would free it again.
Sweeping(n, A, held, b, f) ==
  /\ \/ /\ b = NULL
        /\ \A j \in DOMAIN A : is_marked(n, A[j])
     \/ \E k \in DOMAIN A : /\ A[k] = b
                            /\ \A j \in DOMAIN A : j < k => is_marked(n, A[j])
  /\ f = NULL \/ ~is_allocated(n, f)
  /\ \A p \in held : is_marked(n, ptr_to_block(p))

\* Memory n with client l, stack "held", and sweep at b with its last block f.
Good(n, h, A, l, held, ph, b, f) ==
  /\ Serves(n, h, A, l)
  /\ n.fault # "wild"
  /\ held \subseteq DOMAIN l /\ \A p \in DOMAIN l : l[p] \in Requests \ {0}
  /\ ph \in {"client", "sweep"} /\ b \in Nat /\ f \in Nat
  /\ ph = "sweep" /\ n.fault = "none" => Sweeping(n, A, held, b, f)

\* Some heap is held, and some list of its allocated blocks.
GcInv == mishap = "none" => \E h, A : Good(m, h, A, handed, roots, pc, block, freed)

\* It holds at first.
LEMMA InitGood == Init => GcInv
<1>1. SUFFICES ASSUME Init PROVE Good(m, H!InitHeap, << >>, handed, roots, pc, block, freed)
  BY DEF GcInv
<1>2. /\ m = InitMemory /\ roots = {} /\ handed = [p \in {} |-> 0] /\ pc = "client"
      /\ block = NULL /\ freed = NULL
  BY <1>1 DEF Init
<1>3. Collected(m, H!InitHeap, << >>) /\ H!Allocated(H!InitHeap) = {} /\ m.fault = "none"
  BY <1>2, InitCollected
<1>4. DOMAIN handed = {} /\ handed \in [DOMAIN handed -> Nat]
  BY <1>2
<1>5. H!Client(H!InitHeap, handed)
  BY <1>3, <1>4 DEF H!Client
<1>6. Serves(m, H!InitHeap, << >>, handed)
  BY <1>3, <1>5 DEF Serves
<1>7. QED
  BY <1>2, <1>3, <1>4, <1>6 DEF Good, NULL

\* my_malloc.
LEMMA MallocGood ==
  ASSUME NEW h, NEW A, Good(m, h, A, handed, roots, pc, block, freed), mishap = "none",
         NEW size \in Requests, my_malloc(size), mishap' = "none"
  PROVE  GcInv'
<1>. DEFINE total == total_size(size)
            l     == handed
<1>1. /\ Serves(m, h, A, handed) /\ m.fault # "wild"
      /\ roots \subseteq DOMAIN handed /\ \A p \in DOMAIN handed : handed[p] \in Requests \ {0}
      /\ block \in Nat /\ freed \in Nat
  BY DEF Good
<1>2. m.fault = "none" /\ pc = "client" /\ pc' = "client" /\ block' = block /\ freed' = freed
  BY DEF my_malloc, Running
<1>3. size \in Nat
  BY RequestsAssumption
<1>4. total \in Nat
  <2>1. H!total_size(size) \in Nat /\ H!total_size(size) >= size + 32
    BY <1>3, H!TotalSize, HeapAssumptions
  <2>2. QED
    BY <2>1, Names
<1>5. SUFFICES \E g, B : Good(m', g, B, handed', roots', pc', block', freed')
  BY DEF GcInv
<1>6. CASE UNCHANGED <<m, roots, handed, mishap>>
  BY <1>2, <1>6
<1>7. ASSUME size > 0, NEW n1 \in first_chunk(m, total), NEW n2 \in another_chunk(n1, total),
             m' = Faulted(n2, "null"), UNCHANGED <<roots, handed, mishap>>
      PROVE  \E g, B : Good(m', g, B, handed', roots', pc', block', freed')
  <2>. HIDE DEF total
  <2>1. n2.fault \in {m.fault, "table"} /\ \E g : Serves(n2, g, A, handed)
    BY <1>1, <1>4, AskedServes
  <2>2. PICK g : Serves(n2, g, A, handed)
    BY <2>1
  <2>3. H!Sound(g) /\ H!Grid(g) /\ Holds(n2, g) /\ Collected(n2, g, A) /\ H!Client(g, handed)
    BY <2>2 DEF Serves, Collected
  <2>4. /\ Holds(m', g) /\ \A a : At(m', a) = At(n2, a)
        /\ DOMAIN m'.mem = DOMAIN n2.mem
        /\ m'.alloc_block_end = n2.alloc_block_end /\ m'.fault \in {n2.fault, "null"}
    BY <1>7, <2>3, FaultedHeld
  <2>5. Collected(m', g, A)
    BY <2>3, <2>4, CollectedKept
  <2>6. Serves(m', g, A, handed')
    BY <1>7, <2>3, <2>5 DEF Serves
  <2>7. m'.fault # "wild"
    BY <1>2, <2>1, <2>4
  <2>8. Good(m', g, A, handed', roots', pc', block', freed')
    BY <1>1, <1>2, <1>7, <2>6, <2>7 DEF Good
  <2>9. QED
    BY <2>8
<1>8. ASSUME size > 0, NEW n1 \in first_chunk(m, total), NEW n2 \in another_chunk(n1, total),
             NEW b \in chosen(n1, n2, total), NEW r, r = allocate(n2, b, total),
             m' = Cleared(append_to_alloc_list(r.heap, r.block), r.block + kMetadataSize, size),
             roots' = roots \cup {r.block + kMetadataSize},
             handed' = [q \in DOMAIN handed \cup {r.block + kMetadataSize} |->
                          IF q = r.block + kMetadataSize THEN size ELSE handed[q]],
             mishap' = IF get_next_through_off(m', r.block) # NULL THEN "stale_link" ELSE mishap
      PROVE  \E g, B : Good(m', g, B, handed', roots', pc', block', freed')
  <2>1. \E g : HandsOut(m, m', g, A, handed, r.block, size)
    BY <1>1, <1>3, <1>8, MallocAlike
  <2>2. PICK v : HandsOut(m, m', v, A, handed, r.block, size)
    BY <2>1
  <2>3. get_next_through_off(m', r.block) = NULL
    BY <1>8
  <2>. DEFINE p == r.block + kMetadataSize
  <2>4. /\ p \notin DOMAIN handed /\ m'.fault \in {m.fault, "table"}
        /\ \E g : Serves(m', g, Append(A, r.block),
                         [q \in DOMAIN handed \cup {p} |-> IF q = p THEN size ELSE handed[q]])
    BY <2>2, <2>3 DEF HandsOut
  <2>5. PICK g : Serves(m', g, Append(A, r.block), handed')
    BY <1>8, <2>4
  <2>6. roots' \subseteq DOMAIN handed' /\ \A q \in DOMAIN handed' : handed'[q] \in Requests \ {0}
    <3>. HIDE DEF p
    <3>1. handed' = [q \in DOMAIN handed \cup {p} |-> IF q = p THEN size ELSE handed[q]]
      BY <1>8 DEF p
    <3>2. roots' = roots \cup {p}
      BY <1>8 DEF p
    <3>3. size # 0
      BY <1>3, <1>8
    <3>4. QED
      BY <1>1, <3>1, <3>2, <3>3
  <2>7. Good(m', g, Append(A, r.block), handed', roots', pc', block', freed')
    BY <1>1, <1>2, <2>4, <2>5, <2>6 DEF Good
  <2>8. QED
    BY <2>7
<1>9. QED
  BY <1>6, <1>7, <1>8 DEF my_malloc

\* The client's own steps.
LEMMA ClientGood ==
  ASSUME NEW h, NEW A, Good(m, h, A, handed, roots, pc, block, freed), mishap = "none"
  PROVE  /\ \A p, q \in roots, f \in Fields : Write(p + f, q) => GcInv'
         /\ \A p \in roots : Drop(p) => GcInv'
<1>1. /\ Serves(m, h, A, handed) /\ m.fault # "wild"
      /\ roots \subseteq DOMAIN handed /\ \A p \in DOMAIN handed : handed[p] \in Requests \ {0}
      /\ block \in Nat /\ freed \in Nat
  BY DEF Good
<1>2. ASSUME NEW p \in roots, NEW q \in roots, NEW f \in Fields, Write(p + f, q) PROVE GcInv'
  <2>1. /\ pc = "client" /\ m' = Store(m, p + f, Word(q))
        /\ UNCHANGED <<roots, handed, pc, block, freed, mishap>>
    BY <1>2 DEF Write
  <2>2. p \in DOMAIN handed /\ q \in DOMAIN handed
    BY <1>1
  <2>3. q \in Nat
    BY <1>1, <2>2, HeldBlock
  <2>4. f \in Nat /\ f % 8 = 0 /\ f < handed[p]
    BY <1>1, <2>2, RequestsAssumption, Names
  <2>5. Serves(m', h, A, handed) /\ m'.fault = m.fault
    BY <1>1, <2>1, <2>2, <2>3, <2>4, WriteServes
  <2>6. Good(m', h, A, handed', roots', pc', block', freed')
    BY <1>1, <2>1, <2>5 DEF Good
  <2>7. QED
    BY <2>6 DEF GcInv
<1>3. ASSUME NEW p \in roots, Drop(p) PROVE GcInv'
  <2>1. /\ pc = "client" /\ roots' = roots \ {p}
        /\ UNCHANGED <<m, handed, pc, block, freed, mishap>>
    BY <1>3 DEF Drop
  <2>2. Good(m', h, A, handed', roots', pc', block', freed')
    BY <1>1, <2>1 DEF Good
  <2>3. QED
    BY <2>2 DEF GcInv
<1>4. QED
  BY <1>2, <1>3

\* scan_and_mark marks the blocks that the stack points to.
LEMMA MarkGood ==
  ASSUME NEW h, NEW A, Good(m, h, A, handed, roots, pc, block, freed), mishap = "none",
         scan_and_mark
  PROVE  GcInv'
<1>. DEFINE S == UNION {find_block(m, p) : p \in roots}
<1>1. /\ Serves(m, h, A, handed) /\ m.fault # "wild"
      /\ roots \subseteq DOMAIN handed /\ \A p \in DOMAIN handed : handed[p] \in Requests \ {0}
      /\ block \in Nat /\ freed \in Nat
      /\ H!Sound(h) /\ H!Grid(h) /\ Holds(m, h) /\ Collected(m, h, A) /\ H!Client(h, handed)
      /\ Spells(m, m.alloc_block_end, A)
  BY DEF Good, Serves, Collected
<1>2. /\ m.fault = "none" /\ pc' = "sweep" /\ block' = m.alloc_block_end /\ freed' = NULL
      /\ UNCHANGED <<roots, handed, mishap>>
      /\ m' = mark_blocks(m, S) \/ m' = Faulted(m, "past")
  BY DEF scan_and_mark, Running
<1>3. /\ A \in Seq(Nat \ {NULL}) /\ block' \in Nat
      /\ block' = NULL \/ (1 \in DOMAIN A /\ A[1] = block')
      /\ block' = NULL => A = << >>
      /\ \A j \in DOMAIN A : ~(j < 1)
  <2>1. /\ A \in Seq(Nat \ {NULL}) /\ block' = IF A = << >> THEN NULL ELSE A[1]
    BY <1>1, <1>2 DEF Spells
  <2>2. A # << >> => 1 \in DOMAIN A /\ A[1] \in Nat /\ A[1] # NULL
    BY <2>1
  <2>3. \A j \in DOMAIN A : ~(j < 1)
    BY <2>1
  <2>4. QED
    BY <2>1, <2>2, <2>3 DEF NULL
<1>4. CASE m' = mark_blocks(m, S)
  <2>1. \A p \in roots : ptr_to_block(p) \in S /\ ptr_to_block(p) \in H!Blocks(h)
    <3>1. TAKE p \in roots
    <3>2. LET b == ptr_to_block(p) IN b \in H!Blocks(h) /\ p = b + kMetadataSize
      BY <1>1, HeldBlock
    <3>3. find_block(m, ptr_to_block(p) + kMetadataSize) = {ptr_to_block(p)}
      BY <1>1, <3>2, BlockFound
    <3>4. find_block(m, p) = {ptr_to_block(p)}
      BY <3>2, <3>3
    <3>5. QED
      BY <3>2, <3>4
  <2>. HIDE DEF S
  <2>2. /\ Serves(m', h, A, handed) /\ m'.fault = m.fault /\ m'.alloc_block_end = m.alloc_block_end
        /\ \A b \in S : b \in H!Blocks(h) => is_marked(m', b)
    BY <1>1, <1>4, MarkServes
  <2>3. \A p \in roots' : is_marked(m', ptr_to_block(p))
    BY <1>2, <2>1, <2>2
  <2>4. Sweeping(m', A, roots', block', freed')
    BY <1>2, <1>3, <2>3 DEF Sweeping
  <2>5. Good(m', h, A, handed', roots', pc', block', freed')
    BY <1>1, <1>2, <1>3, <2>2, <2>4 DEF Good, NULL
  <2>6. QED
    BY <2>5 DEF GcInv
<1>5. CASE m' = Faulted(m, "past")
  <2>1. /\ Holds(m', h) /\ \A a : At(m', a) = At(m, a)
        /\ DOMAIN m'.mem = DOMAIN m.mem
        /\ m'.alloc_block_end = m.alloc_block_end
    BY <1>1, <1>5, FaultedHeld
  <2>2. m'.fault = "past"
    <3>1. MemType(m)
      BY <1>1 DEF Holds, Mapped
    <3>2. m' = [m EXCEPT !.fault = "past"]
      BY <1>2, <1>5 DEF Faulted
    <3>3. QED
      BY <3>1, <3>2 DEF MemType
  <2>3. Collected(m', h, A)
    BY <1>1, <2>1, CollectedKept
  <2>4. Serves(m', h, A, handed')
    BY <1>1, <1>2, <2>3 DEF Serves
  <2>5. Good(m', h, A, handed', roots', pc', block', freed')
    BY <1>1, <1>2, <1>3, <2>2, <2>4 DEF Good, NULL
  <2>6. QED
    BY <2>5 DEF GcInv
<1>6. QED
  BY <1>2, <1>4, <1>5

\* The list without A[k], seen from sweep at A[k] before the removal.
LEMMA TurnDone ==
  ASSUME NEW n, NEW h, NEW A, Collected(n, h, A), NEW k \in DOMAIN A,
         \A j \in DOMAIN A : j < k => is_marked(n, A[j])
  PROVE  LET next == get_next_through_off(n, A[k])
             T    == DropAt(A, k)
         IN  /\ next \in Nat
             /\ is_marked(n, A[k]) =>
                  \/ next = NULL /\ \A j \in DOMAIN A : is_marked(n, A[j])
                  \/ \E i \in DOMAIN A : /\ A[i] = next
                                         /\ \A j \in DOMAIN A : j < i => is_marked(n, A[j])
             /\ \/ next = NULL /\ \A j \in DOMAIN T : is_marked(n, T[j])
                \/ \E i \in DOMAIN T : /\ T[i] = next
                                       /\ \A j \in DOMAIN T : j < i => is_marked(n, T[j])
<1>. DEFINE next == get_next_through_off(n, A[k])
            T    == DropAt(A, k)
            L    == Len(A)
            LT   == Len(T)
<1>1. /\ A \in Seq(Nat \ {NULL}) /\ \A i, j \in DOMAIN A : A[i] = A[j] => i = j
      /\ next = IF k = L THEN NULL ELSE A[k + 1]
  BY DEF Collected, Spells
<1>2. /\ DOMAIN T = 1 .. L - 1
      /\ \A j \in DOMAIN T : T[j] = IF j < k THEN A[j] ELSE A[j + 1]
  <2>1. LET t == DropAt(A, k)
        IN  /\ DOMAIN t = 1 .. Len(A) - 1
            /\ \A j \in DOMAIN t : t[j] = IF j < k THEN A[j] ELSE A[j + 1]
    BY <1>1, DropAtElements
  <2>2. QED
    BY <2>1
<1>. HIDE DEF T
<1>3. /\ L \in Nat /\ \A j : j \in DOMAIN A <=> j \in Int /\ 1 <= j /\ j <= L
      /\ \A j : j \in DOMAIN T <=> j \in Int /\ 1 <= j /\ j <= L - 1
  BY <1>1, <1>2
<1>. HIDE DEF L
<1>4. next \in Nat
  <2>1. CASE k = L
    BY <1>1, <2>1 DEF NULL
  <2>2. CASE k # L
    <3>1. k + 1 \in DOMAIN A
      BY <1>3, <2>2
    <3>2. QED
      BY <1>1, <2>2, <3>1
  <2>3. QED
    BY <2>1, <2>2
<1>. HIDE DEF next
<1>5. ASSUME is_marked(n, A[k])
      PROVE  \/ next = NULL /\ \A j \in DOMAIN A : is_marked(n, A[j])
             \/ \E i \in DOMAIN A : /\ A[i] = next
                                    /\ \A j \in DOMAIN A : j < i => is_marked(n, A[j])
  <2>1. CASE k = L
    <3>1. \A j \in DOMAIN A : j < k \/ j = k
      BY <1>3, <2>1
    <3>2. QED
      BY <1>1, <1>5, <2>1, <3>1
  <2>2. CASE k # L
    <3>1. k + 1 \in DOMAIN A /\ \A j \in DOMAIN A : j < k + 1 => j < k \/ j = k
      BY <1>3, <2>2
    <3>2. QED
      BY <1>1, <1>5, <2>2, <3>1
  <2>3. QED
    BY <2>1, <2>2
<1>6. \A j \in DOMAIN T : j < k => j \in DOMAIN A /\ T[j] = A[j] /\ is_marked(n, T[j])
  BY <1>2, <1>3
<1>7. \/ next = NULL /\ \A j \in DOMAIN T : is_marked(n, T[j])
      \/ \E i \in DOMAIN T : /\ T[i] = next
                             /\ \A j \in DOMAIN T : j < i => is_marked(n, T[j])
  <2>1. CASE k = L
    <3>1. \A j \in DOMAIN T : j < k
      BY <1>3, <2>1
    <3>2. QED
      BY <1>1, <1>6, <2>1, <3>1
  <2>2. CASE k # L
    <3>1. k \in DOMAIN T /\ ~(k < k)
      BY <1>3, <2>2
    <3>2. T[k] = next
      BY <1>1, <1>2, <2>2, <3>1
    <3>3. QED
      BY <1>6, <3>1, <3>2
  <2>3. QED
    BY <2>1, <2>2
<1>8. QED
  BY <1>4, <1>5, <1>7 DEF T, next

\* A turn of sweep.
LEMMA SweepGood ==
  ASSUME NEW h, NEW A, Good(m, h, A, handed, roots, pc, block, freed), mishap = "none",
         sweep, mishap' = "none"
  PROVE  GcInv'
<1>. DEFINE next == get_next_through_off(m, block)
<1>1. /\ Serves(m, h, A, handed) /\ m.fault # "wild"
      /\ roots \subseteq DOMAIN handed /\ \A p \in DOMAIN handed : handed[p] \in Requests \ {0}
      /\ block \in Nat /\ freed \in Nat
      /\ H!Sound(h) /\ H!Grid(h) /\ Holds(m, h) /\ Collected(m, h, A) /\ H!Client(h, handed)
      /\ Spells(m, m.alloc_block_end, A) /\ Elements(A) = H!Allocated(h)
      /\ pc = "sweep" /\ m.fault = "none" => Sweeping(m, A, roots, block, freed)
  BY DEF Good, Serves, Collected
<1>2. /\ block # NULL /\ m.fault = "none" /\ pc = "sweep" /\ pc' = "sweep"
      /\ block' = next /\ freed' = swept /\ roots' = roots
      /\ m' = my_free(remove_from_alloc_list(m, swept), swept + kMetadataSize)
      /\ handed' = [q \in DOMAIN handed \ {swept + kMetadataSize} |-> handed[q]]
      /\ swept = NULL \/ is_allocated(m, swept)
  BY DEF sweep, next_turn, next_to_sweep, Running
<1>3. PICK k \in DOMAIN A : A[k] = block /\ \A j \in DOMAIN A : j < k => is_marked(m, A[j])
  BY <1>1, <1>2 DEF Sweeping
<1>4. /\ freed = NULL \/ ~is_allocated(m, freed)
      /\ \A p \in roots : is_marked(m, ptr_to_block(p))
  BY <1>1, <1>2 DEF Sweeping
<1>5. LET nx == get_next_through_off(m, A[k])
          T  == DropAt(A, k)
      IN  /\ nx \in Nat
          /\ is_marked(m, A[k]) =>
               \/ nx = NULL /\ \A j \in DOMAIN A : is_marked(m, A[j])
               \/ \E i \in DOMAIN A : /\ A[i] = nx
                                      /\ \A j \in DOMAIN A : j < i => is_marked(m, A[j])
          /\ \/ nx = NULL /\ \A j \in DOMAIN T : is_marked(m, T[j])
             \/ \E i \in DOMAIN T : /\ T[i] = nx
                                    /\ \A j \in DOMAIN T : j < i => is_marked(m, T[j])
  BY <1>1, <1>3, TurnDone
<1>6. next = get_next_through_off(m, A[k]) /\ next \in Nat
  BY <1>3, <1>5
<1>. HIDE DEF next
<1>7. CASE is_marked(m, block)
  <2>1. swept = freed
    BY <1>7 DEF swept
  <2>2. swept = NULL /\ freed = NULL
    BY <1>2, <1>4, <2>1
  <2>3. /\ my_free(remove_from_alloc_list(m, NULL), NULL + kMetadataSize) = m
        /\ NULL + kMetadataSize \notin DOMAIN handed
    BY <1>1, SweptNone
  <2>4. m' = m
    BY <1>2, <2>2, <2>3
  <2>5. handed' = handed
    <3>1. handed = [q \in DOMAIN handed |-> handed[q]]
      BY <1>1 DEF H!Client
    <3>2. DOMAIN handed \ {swept + kMetadataSize} = DOMAIN handed
      BY <2>2, <2>3
    <3>3. QED
      BY <1>2, <3>1, <3>2
  <2>6. \/ next = NULL /\ \A j \in DOMAIN A : is_marked(m, A[j])
        \/ \E i \in DOMAIN A : /\ A[i] = next
                               /\ \A j \in DOMAIN A : j < i => is_marked(m, A[j])
    BY <1>3, <1>5, <1>6, <1>7
  <2>7. Sweeping(m', A, roots', block', freed')
    BY <1>2, <1>4, <2>2, <2>4, <2>6 DEF Sweeping
  <2>8. Good(m', h, A, handed', roots', pc', block', freed')
    BY <1>1, <1>2, <1>6, <2>2, <2>4, <2>5, <2>7 DEF Good, NULL
  <2>9. QED
    BY <2>8 DEF GcInv
<1>8. CASE ~is_marked(m, block)
  <2>1. swept = A[k]
    BY <1>3, <1>8 DEF swept
  <2>. DEFINE T == DropAt(A, k)
  <2>2. PICK g : SweepsOne(m, m', h, g, A, k) /\ Serves(m', g, T, handed')
    <3>1. LET n == my_free(remove_from_alloc_list(m, A[k]), A[k] + kMetadataSize)
          IN  \E g : /\ SweepsOne(m, n, h, g, A, k)
                     /\ Serves(n, g, DropAt(A, k), [q \in DOMAIN handed \ {A[k] + kMetadataSize} |-> handed[q]])
      BY <1>1, SweptServes
    <3>2. QED
      BY <1>2, <2>1, <3>1
  <2>3. /\ H!Allocated(g) = H!Allocated(h) \ {A[k]}
        /\ \A x \in H!Allocated(g) : At(m', x + 8).mark = At(m, x + 8).mark
        /\ ~is_allocated(m', A[k])
        /\ m'.fault \in {m.fault, "table"}
    BY <2>2 DEF SweepsOne
  <2>4. Elements(T) = H!Allocated(g)
    BY <2>2 DEF Serves, Collected
  <2>5. \A x \in H!Allocated(g) : is_marked(m, x) <=> is_marked(m', x)
    BY <2>3 DEF is_marked
  <2>6. \A p \in roots : /\ ptr_to_block(p) \in H!Allocated(h) /\ ptr_to_block(p) # A[k]
                         /\ p = ptr_to_block(p) + kMetadataSize
    <3>1. TAKE p \in roots
    <3>2. LET b == ptr_to_block(p) IN b \in H!Allocated(h) /\ p = b + kMetadataSize
      BY <1>1, HeldBlock
    <3>3. QED
      BY <1>3, <1>4, <1>8, <3>2
  <2>7. A[k] \in Nat /\ kMetadataSize = 16
    BY <1>1, <1>3, Names
  <2>8. \A p \in roots : /\ ptr_to_block(p) \in H!Allocated(g)
                         /\ p # A[k] + kMetadataSize
    <3>1. TAKE p \in roots
    <3>2. ptr_to_block(A[k] + kMetadataSize) = A[k]
      BY <2>7 DEF ptr_to_block
    <3>3. QED
      BY <2>3, <2>6, <3>2
  <2>9. roots' \subseteq DOMAIN handed' /\ \A p \in DOMAIN handed' : handed'[p] \in Requests \ {0}
    BY <1>1, <1>2, <2>1, <2>8
  <2>10. \A p \in roots' : is_marked(m', ptr_to_block(p))
    BY <1>2, <1>4, <2>5, <2>8
  <2>11. \/ next = NULL /\ \A j \in DOMAIN T : is_marked(m, T[j])
         \/ \E i \in DOMAIN T : /\ T[i] = next
                                /\ \A j \in DOMAIN T : j < i => is_marked(m, T[j])
    BY <1>5, <1>6
  <2>. HIDE DEF T
  <2>12. \A j \in DOMAIN T : is_marked(m, T[j]) => is_marked(m', T[j])
    BY <2>4, <2>5 DEF Elements
  <2>13. Sweeping(m', T, roots', block', freed')
    BY <1>2, <2>1, <2>3, <2>10, <2>11, <2>12 DEF Sweeping
  <2>14. m'.fault # "wild"
    BY <1>2, <2>3
  <2>15. Good(m', g, T, handed', roots', pc', block', freed')
    BY <1>2, <1>6, <2>1, <2>2, <2>7, <2>9, <2>13, <2>14 DEF Good
  <2>16. QED
    BY <2>15 DEF GcInv
<1>9. QED
  BY <1>7, <1>8

\* The return from my_gc.
LEMMA ReturnGood ==
  ASSUME NEW h, NEW A, Good(m, h, A, handed, roots, pc, block, freed), my_gc_returns
  PROVE  GcInv'
<1>1. /\ pc' = "client" /\ block' = NULL /\ freed' = NULL
      /\ UNCHANGED <<m, roots, handed, mishap>>
  BY DEF my_gc_returns, next_turn
<1>2. Good(m', h, A, handed', roots', pc', block', freed')
  BY <1>1 DEF Good, NULL
<1>3. QED
  BY <1>2 DEF GcInv

\* A mishap that has happened stays recorded.
LEMMA MishapStays ==
  ASSUME [Next]_vars, mishap' = "none"
  PROVE  mishap = "none"
<1>1. ASSUME NEW size \in Requests, my_malloc(size) PROVE mishap = "none"
  BY <1>1 DEF my_malloc
<1>2. ASSUME NEW p \in roots, NEW q \in roots, NEW f \in Fields, Write(p + f, q) PROVE mishap = "none"
  BY <1>2 DEF Write
<1>3. ASSUME NEW p \in roots, Drop(p) PROVE mishap = "none"
  BY <1>3 DEF Drop
<1>4. CASE scan_and_mark
  BY <1>4 DEF scan_and_mark
<1>5. CASE sweep
  BY <1>5 DEF sweep
<1>6. CASE my_gc_returns
  BY <1>6 DEF my_gc_returns
<1>7. CASE UNCHANGED vars
  BY <1>7 DEF vars
<1>8. QED
  BY <1>1, <1>2, <1>3, <1>4, <1>5, <1>6, <1>7 DEF Next

\* Every step keeps the invariant.
LEMMA StepGood == GcInv /\ [Next]_vars => GcInv'
<1>1. SUFFICES ASSUME GcInv, [Next]_vars, mishap' = "none" PROVE GcInv'
  BY DEF GcInv
<1>2. mishap = "none"
  BY <1>1, MishapStays
<1>3. PICK h, A : Good(m, h, A, handed, roots, pc, block, freed)
  BY <1>1, <1>2 DEF GcInv
<1>4. ASSUME NEW size \in Requests, my_malloc(size) PROVE GcInv'
  BY <1>1, <1>2, <1>3, <1>4, MallocGood
<1>5. ASSUME NEW p \in roots, NEW q \in roots, NEW f \in Fields, Write(p + f, q) PROVE GcInv'
  BY <1>2, <1>3, <1>5, ClientGood
<1>6. ASSUME NEW p \in roots, Drop(p) PROVE GcInv'
  BY <1>2, <1>3, <1>6, ClientGood
<1>7. CASE scan_and_mark
  BY <1>2, <1>3, <1>7, MarkGood
<1>8. CASE sweep
  BY <1>1, <1>2, <1>3, <1>8, SweepGood
<1>9. CASE my_gc_returns
  BY <1>3, <1>9, ReturnGood
<1>10. CASE UNCHANGED vars
  BY <1>1, <1>10 DEF vars, GcInv
<1>11. QED
  BY <1>1, <1>4, <1>5, <1>6, <1>7, <1>8, <1>9, <1>10 DEF Next

-----------------------------------------------------------------------------
(* What the invariant says of the memory *)

\* The blocks met in the memory are those of the heap it holds.
LEMMA SeenBlocks ==
  ASSUME NEW h, NEW A, Serves(m, h, A, handed)
  PROVE  /\ AllBlocks = H!Blocks(h) /\ AllocatedBlocks = H!Allocated(h)
         /\ {b \in AllBlocks : ~is_allocated(m, b)} = FreeBlocks(h)
         /\ \A b \in H!Blocks(h) : Read(m, h, b)
         /\ Laid(h) /\ H!Sound(h) /\ H!Grid(h) /\ Holds(m, h)
<1>1. Laid(h) /\ H!Sound(h) /\ H!Grid(h) /\ Holds(m, h) /\ Headers(m, h)
  BY SoundLaid DEF Serves, Collected, H!Sound, Holds
<1>2. AllBlocks = H!Blocks(h)
  BY <1>1, BlocksMet DEF AllBlocks
<1>3. \A b \in H!Blocks(h) : Read(m, h, b)
  BY <1>1, Reads DEF Headers
<1>4. \A b \in H!Blocks(h) : /\ is_allocated(m, b) <=> ~H!IsFree(h, b)
                             /\ ~is_allocated(m, b) <=> H!IsFree(h, b)
  <2>1. TAKE b \in H!Blocks(h)
  <2>2. (is_allocated(m, b) <=> h.block[b].alloc = 1) /\ h.block[b].alloc \in {0, 1}
    BY <1>1, <1>3, LaidBlock DEF Read
  <2>3. QED
    BY <2>2 DEF H!IsFree
<1>5. QED
  BY <1>1, <1>2, <1>3, <1>4 DEF AllocatedBlocks, H!Allocated, FreeBlocks

\* The types.
LEMMA TypesSeen ==
  ASSUME NEW h, NEW A, Good(m, h, A, handed, roots, pc, block, freed)
  PROVE  GcTypeOK
<1>1. /\ Serves(m, h, A, handed) /\ roots \subseteq DOMAIN handed
      /\ pc \in {"client", "sweep"} /\ block \in Nat /\ freed \in Nat
      /\ Mapped(m, h) /\ MemType(m) /\ ListsHeld(m, h)
      /\ Spells(m, m.alloc_block_end, A) /\ H!Client(h, handed) /\ Laid(h) /\ H!HeapType(h)
  BY SoundLaid DEF Good, Serves, Collected, Holds, Mapped, Laid, H!Sound
<1>2. ChunkIds(m) = H!ChunkIds(h) /\ m.index_last_chunk_from_OS \in -1 .. MAX_REQ - 1
  BY <1>1, ChunkReads DEF Mapped, H!HeapType
<1>3. m.ch_array \in [ChunkIds(m) -> Nat] /\ m.corr_size_arr \in [ChunkIds(m) -> Nat]
  <2>1. \A i \in H!ChunkIds(h) : h.ch_array[i].base \in Nat
    BY <1>1, LaidChunk
  <2>2. m.ch_array = [i \in H!ChunkIds(h) |-> h.ch_array[i].base] /\ m.corr_size_arr = h.corr_size_arr
    BY <1>1 DEF Mapped
  <2>3. h.corr_size_arr \in [H!ChunkIds(h) -> Nat]
    BY <1>1 DEF H!HeapType
  <2>4. QED
    BY <1>2, <2>1, <2>2, <2>3
<1>4. m.free_lists \in [0 .. N_LISTS - 1 -> Nat]
  BY <1>1 DEF ListsHeld
<1>5. m.alloc_block_end \in Nat
  <2>1. /\ A \in Seq(Nat \ {NULL})
        /\ m.alloc_block_end = IF A = << >> THEN NULL ELSE A[1]
    BY <1>1 DEF Spells
  <2>2. A # << >> => A[1] \in Nat
    BY <2>1
  <2>3. QED
    BY <2>1, <2>2 DEF NULL
<1>6. m.mem \in [DOMAIN m.mem -> [lo : Int, hi : Nat, mark : {0, 1}]]
  BY <1>1 DEF MemType, Words
<1>7. roots \subseteq Nat
  BY <1>1, HeldBlock
<1>8. handed \in [DOMAIN handed -> Nat]
  BY <1>1 DEF H!Client
<1>9. QED
  BY <1>1, <1>2, <1>3, <1>4, <1>5, <1>6, <1>7, <1>8 DEF GcTypeOK

\* The walk by sizes.
LEMMA WalkSeen ==
  ASSUME NEW h, NEW A, Serves(m, h, A, handed), NEW i \in ChunkIds(m)
  PROVE  LET s == BlocksOf(m, i) IN
         /\ s[Len(s)] + get_size(m, s[Len(s)]) = EndOfChunk(m, i)
         /\ \A k \in DOMAIN s :
              /\ get_chunk_index(m, s[k]) = i
              /\ At(m, s[k] + get_size(m, s[k]) - SizeofFooter).lo = get_size(m, s[k])
         /\ \A k \in DOMAIN s \ {1} :
              /\ s[k] = s[k - 1] + get_size(m, s[k - 1])
              /\ is_prev_allocated(m, s[k]) <=> is_allocated(m, s[k - 1])
              /\ is_allocated(m, s[k]) \/ is_allocated(m, s[k - 1])
<1>. DEFINE s == BlocksOf(m, i)
<1>1. /\ Laid(h) /\ H!Sound(h) /\ H!Grid(h) /\ Holds(m, h) /\ Mapped(m, h) /\ Headers(m, h)
      /\ \A b \in H!Blocks(h) : Read(m, h, b)
      /\ H!PrevBits(h) /\ H!Coalesced(h, {})
  BY SeenBlocks DEF Holds, H!Sound, H!SoundBut
<1>2. i \in H!ChunkIds(h) /\ EndOfChunk(m, i) = h.ch_array[i].end
  BY <1>1, ChunkReads
<1>3. Walked(h, i, s)
  BY <1>1, <1>2, WalkAlike
<1>. HIDE DEF s
<1>4. /\ s \in Seq(BlocksIn(h, i)) /\ s # << >>
      /\ H!EndOf(h, s[Len(s)]) = h.ch_array[i].end
      /\ \A k \in DOMAIN s \ {1} : k - 1 \in DOMAIN s /\ H!EndOf(h, s[k - 1]) = s[k]
  BY <1>3 DEF Walked
<1>5. Len(s) \in DOMAIN s /\ \A k \in DOMAIN s : s[k] \in H!Blocks(h) /\ h.block[s[k]].index = i
  <2>1. Len(s) \in DOMAIN s /\ \A k \in DOMAIN s : s[k] \in BlocksIn(h, i)
    BY <1>4
  <2>2. QED
    BY <2>1 DEF BlocksIn
<1>6. \A k \in DOMAIN s : Read(m, h, s[k]) /\ HeaderHeld(m, h, s[k])
  BY <1>1, <1>5 DEF Headers
<1>7. s[Len(s)] + get_size(m, s[Len(s)]) = EndOfChunk(m, i)
  BY <1>2, <1>4, <1>5, <1>6 DEF Read
<1>8. ASSUME NEW k \in DOMAIN s
      PROVE  /\ get_chunk_index(m, s[k]) = i
             /\ At(m, s[k] + get_size(m, s[k]) - SizeofFooter).lo = get_size(m, s[k])
  <2>1. get_chunk_index(m, s[k]) = i
    BY <1>5, <1>6 DEF Read
  <2>2. s[k] + get_size(m, s[k]) - SizeofFooter = H!EndOf(h, s[k]) - 16
    <3>1. s[k] + get_size(m, s[k]) = H!EndOf(h, s[k])
      BY <1>6 DEF Read
    <3>2. SizeofFooter = 16
      BY Names
    <3>3. s[k] \in Nat /\ get_size(m, s[k]) \in Nat
      <4>1. PICK b : b = s[k]
        OBVIOUS
      <4>2. b \in H!Blocks(h) /\ Read(m, h, b)
        BY <1>5, <1>6, <4>1
      <4>3. b \in Nat \ {0} /\ h.block[b].size \in Nat
        BY <1>1, <4>2, LaidBlock
      <4>4. QED
        BY <4>1, <4>2, <4>3 DEF Read
    <3>. DEFINE size == get_size(m, s[k])
    <3>. HIDE DEF size
    <3>4. s[k] + size - 16 = (s[k] + size) - 16
      BY <3>3 DEF size
    <3>5. QED
      BY <3>1, <3>2, <3>4 DEF size
  <2>3. At(m, H!EndOf(h, s[k]) - 16).lo = get_size(m, s[k])
    BY <1>6 DEF Read, HeaderHeld
  <2>4. QED
    BY <2>1, <2>2, <2>3
<1>9. ASSUME NEW k \in DOMAIN s \ {1}
      PROVE  /\ s[k] = s[k - 1] + get_size(m, s[k - 1])
             /\ is_prev_allocated(m, s[k]) <=> is_allocated(m, s[k - 1])
             /\ is_allocated(m, s[k]) \/ is_allocated(m, s[k - 1])
  <2>. DEFINE p == s[k - 1]
              b == s[k]
  <2>1. /\ p \in H!Blocks(h) /\ b \in H!Blocks(h) /\ H!EndOf(h, p) = b
        /\ Read(m, h, p) /\ Read(m, h, b)
    BY <1>4, <1>5, <1>6
  <2>. HIDE DEF p, b
  <2>2. h.block[b].prev_alloc = h.block[p].alloc
    BY <1>1, <2>1 DEF H!PrevBits
  <2>3. ~(H!IsFree(h, p) /\ H!IsFree(h, b))
    BY <1>1, <2>1 DEF H!Coalesced
  <2>4. h.block[p].alloc \in {0, 1} /\ h.block[b].alloc \in {0, 1}
    BY <1>1, <2>1, LaidBlock
  <2>5. /\ b = p + get_size(m, p)
        /\ is_prev_allocated(m, b) <=> is_allocated(m, p)
        /\ is_allocated(m, b) \/ is_allocated(m, p)
    BY <2>1, <2>2, <2>3, <2>4 DEF Read, H!IsFree
  <2>6. QED
    BY <2>5 DEF p, b
<1>10. QED
  BY <1>7, <1>8, <1>9 DEF s

\* The two kinds of list.
LEMMA ListsSeen ==
  ASSUME NEW h, NEW A, Serves(m, h, A, handed)
  PROVE  LET free == {b \in AllBlocks : ~is_allocated(m, b)} IN
         /\ ~Lost(m, m.alloc_block_end)
         /\ Elements(Chain(m, m.alloc_block_end)) = AllocatedBlocks
         /\ \A i \in 0 .. N_LISTS - 1 :
              /\ ~Lost(m, m.free_lists[i])
              /\ Elements(Chain(m, m.free_lists[i])) = {b \in free : calculate_index(get_size(m, b)) = i}
<1>1. /\ AllocatedBlocks = H!Allocated(h)
      /\ {b \in AllBlocks : ~is_allocated(m, b)} = FreeBlocks(h)
      /\ \A b \in H!Blocks(h) : Read(m, h, b)
      /\ Laid(h) /\ Holds(m, h) /\ Mapped(m, h) /\ ListsHeld(m, h) /\ H!Listed(h, {})
  BY SeenBlocks DEF Holds, H!Sound, H!SoundBut
<1>2. IsFiniteSet(DOMAIN m.mem)
  BY <1>1, BlockWords
<1>3. Spells(m, m.alloc_block_end, A) /\ Elements(A) = H!Allocated(h)
  BY DEF Serves, Collected
<1>4. /\ ~Lost(m, m.alloc_block_end)
      /\ Elements(Chain(m, m.alloc_block_end)) = AllocatedBlocks
  BY <1>1, <1>2, <1>3, ChainSpelled
<1>5. ASSUME NEW i \in 0 .. N_LISTS - 1
      PROVE  /\ ~Lost(m, m.free_lists[i])
             /\ Elements(Chain(m, m.free_lists[i]))
                  = {b \in FreeBlocks(h) : calculate_index(get_size(m, b)) = i}
  <2>1. Spells(m, m.free_lists[i], h.free_lists[i])
    BY <1>1 DEF ListsHeld
  <2>2. Chain(m, m.free_lists[i]) = h.free_lists[i] /\ ~Lost(m, m.free_lists[i])
    BY <1>2, <2>1, ChainSpelled
  <2>3. \A b \in FreeBlocks(h) : get_size(m, b) = h.block[b].size
    BY <1>1 DEF FreeBlocks, Read
  <2>4. ASSUME NEW b \in Elements(h.free_lists[i])
        PROVE  b \in FreeBlocks(h) /\ calculate_index(get_size(m, b)) = i
    <3>1. PICK k \in DOMAIN h.free_lists[i] : b = h.free_lists[i][k]
      BY DEF Elements
    <3>2. b \in FreeBlocks(h) /\ calculate_index(h.block[b].size) = i
      BY <1>1, <3>1, ListedBlock
    <3>3. QED
      BY <2>3, <3>2
  <2>5. ASSUME NEW b \in FreeBlocks(h), calculate_index(get_size(m, b)) = i
        PROVE  b \in Elements(h.free_lists[i])
    <3>1. b \in H!Blocks(h) /\ H!IsFree(h, b)
      BY DEF FreeBlocks
    <3>2. b \in H!Elements(h.free_lists[H!calculate_index(h.block[b].size)])
      BY <1>1, <3>1 DEF H!Listed
    <3>3. H!calculate_index(h.block[b].size) = i
      BY <2>3, <2>5, Names
    <3>4. b \in H!Elements(h.free_lists[i])
      BY <3>2, <3>3
    <3>5. QED
      BY <3>4, Names
  <2>6. QED
    BY <2>2, <2>4, <2>5
<1>6. QED
  BY <1>1, <1>4, <1>5

\* What the client and the stack hold.
LEMMA HeldSeen ==
  ASSUME NEW h, NEW A, Good(m, h, A, handed, roots, pc, block, freed)
  PROVE  /\ \A p \in roots : ptr_to_block(p) \in AllocatedBlocks
         /\ pc = "sweep" /\ m.fault = "none" => \A p \in roots : is_marked(m, ptr_to_block(p))
         /\ {b + kMetadataSize : b \in AllocatedBlocks} = DOMAIN handed
         /\ \A p \in DOMAIN handed :
              handed[p] + kMetadataSize + SizeofFooter <= get_size(m, ptr_to_block(p))
         /\ pc = "sweep" /\ m.fault = "none" /\ block = NULL =>
              \A b \in AllocatedBlocks : is_marked(m, b)
<1>1. /\ Serves(m, h, A, handed) /\ roots \subseteq DOMAIN handed
      /\ pc = "sweep" /\ m.fault = "none" => Sweeping(m, A, roots, block, freed)
  BY DEF Good
<1>2. /\ AllocatedBlocks = H!Allocated(h) /\ \A b \in H!Blocks(h) : Read(m, h, b)
      /\ Laid(h) /\ Elements(A) = H!Allocated(h) /\ H!Client(h, handed)
      /\ A \in Seq(Nat \ {NULL})
  BY <1>1, SeenBlocks DEF Serves, Collected, Spells
<1>3. \A p \in roots : ptr_to_block(p) \in AllocatedBlocks
  BY <1>1, <1>2, HeldBlock
<1>4. {b + kMetadataSize : b \in AllocatedBlocks} = DOMAIN handed
  BY <1>2, Names DEF H!Client
<1>5. ASSUME NEW p \in DOMAIN handed
      PROVE  handed[p] + kMetadataSize + SizeofFooter <= get_size(m, ptr_to_block(p))
  <2>. DEFINE b == ptr_to_block(p)
  <2>1. /\ b \in H!Blocks(h) /\ b \in Nat /\ handed[p] \in Nat
        /\ b + handed[p] + 32 <= H!EndOf(h, b)
    BY <1>1, HeldBlock
  <2>. HIDE DEF b
  <2>2. /\ H!EndOf(h, b) = b + h.block[b].size /\ h.block[b].size \in Nat
        /\ get_size(m, b) = h.block[b].size
    BY <1>2, <2>1, LaidBlock DEF Read
  <2>3. handed[p] + 16 + 16 <= get_size(m, b)
    BY <2>1, <2>2
  <2>4. QED
    BY <2>3, Names DEF b
<1>6. ASSUME pc = "sweep", m.fault = "none", block = NULL
      PROVE  \A b \in AllocatedBlocks : is_marked(m, b)
  <2>1. \A k \in DOMAIN A : A[k] # NULL
    BY <1>2
  <2>2. \A j \in DOMAIN A : is_marked(m, A[j])
    BY <1>1, <1>6, <2>1 DEF Sweeping
  <2>3. QED
    BY <1>2, <2>2 DEF Elements
<1>7. QED
  BY <1>1, <1>3, <1>4, <1>5, <1>6 DEF Sweeping

\* Blocks on the free lists, and the list of allocated ones.
LEMMA FreeSeen ==
  ASSUME NEW h, NEW A, Good(m, h, A, handed, roots, pc, block, freed)
  PROVE  HeldNotFree /\ AllocatedListed
<1>1. Serves(m, h, A, handed) /\ roots \subseteq DOMAIN handed
  BY DEF Good
<1>2. /\ Laid(h) /\ \A b \in H!Blocks(h) : Read(m, h, b)
      /\ {b \in AllBlocks : ~is_allocated(m, b)} = FreeBlocks(h)
  BY <1>1, SeenBlocks
<1>3. /\ ~Lost(m, m.alloc_block_end)
      /\ Elements(Chain(m, m.alloc_block_end)) = AllocatedBlocks
      /\ \A i \in 0 .. N_LISTS - 1 :
           Elements(Chain(m, m.free_lists[i])) \subseteq FreeBlocks(h)
  BY <1>1, <1>2, ListsSeen
<1>4. ASSUME NEW p \in roots, NEW b \in FreeBlocks(h)
      PROVE  p < b \/ p >= b + get_size(m, b)
  <2>. DEFINE x == ptr_to_block(p)
  <2>1. /\ x \in H!Allocated(h) /\ x \in H!Blocks(h) /\ p = x + 16 /\ x \in Nat
        /\ handed[p] \in Nat /\ x + handed[p] + 32 <= H!EndOf(h, x)
    BY <1>1, HeldBlock
  <2>2. b \in H!Blocks(h) /\ H!IsFree(h, b)
    BY DEF FreeBlocks
  <2>3. x # b
    BY <2>1, <2>2 DEF H!Allocated
  <2>. HIDE DEF x
  <2>4. H!EndOf(h, x) <= b \/ H!EndOf(h, b) <= x
    BY <1>2, <2>1, <2>2, <2>3, Apart
  <2>5. /\ b \in Nat /\ h.block[b].size \in Nat /\ H!EndOf(h, b) = b + h.block[b].size
        /\ get_size(m, b) = h.block[b].size
    BY <1>2, <2>2, LaidBlock DEF Read
  <2>6. H!EndOf(h, x) \in Nat
    BY <1>2, <2>1, LaidBlock
  <2>7. QED
    BY <2>1, <2>4, <2>5, <2>6
<1>5. HeldNotFree
  BY <1>3, <1>4 DEF HeldNotFree
<1>6. QED
  BY <1>3, <1>5 DEF AllocatedListed

-----------------------------------------------------------------------------
(* The promise *)

\* What the client gets and loses, step by step.
LEMMA HandedSteps ==
  ASSUME GcInv, [Next]_vars, mishap' = "none"
  PROVE  \/ handed' = handed
         \/ \E size \in Requests : \E p :
              /\ p \notin DOMAIN handed
              /\ handed' = [q \in DOMAIN handed \cup {p} |-> IF q = p THEN size ELSE handed[q]]
         \/ \E p \in DOMAIN handed : handed' = [q \in DOMAIN handed \ {p} |-> handed[q]]
<1>1. mishap = "none"
  BY MishapStays
<1>2. PICK h, A : Good(m, h, A, handed, roots, pc, block, freed)
  BY <1>1 DEF GcInv
<1>3. Serves(m, h, A, handed) /\ handed = [q \in DOMAIN handed |-> handed[q]]
  BY <1>2 DEF Good, Serves, H!Client
<1>4. ASSUME NEW size \in Requests, my_malloc(size)
      PROVE  \/ handed' = handed
             \/ \E p : /\ p \notin DOMAIN handed
                       /\ handed' = [q \in DOMAIN handed \cup {p} |->
                                       IF q = p THEN size ELSE handed[q]]
  <2>. DEFINE total == total_size(size)
  <2>1. ASSUME NEW n1 \in first_chunk(m, total), NEW n2 \in another_chunk(n1, total),
               NEW b \in chosen(n1, n2, total), NEW r, r = allocate(n2, b, total),
               m' = Cleared(append_to_alloc_list(r.heap, r.block), r.block + kMetadataSize, size),
               handed' = [q \in DOMAIN handed \cup {r.block + kMetadataSize} |->
                            IF q = r.block + kMetadataSize THEN size ELSE handed[q]]
        PROVE  \E p : /\ p \notin DOMAIN handed
                      /\ handed' = [q \in DOMAIN handed \cup {p} |->
                                      IF q = p THEN size ELSE handed[q]]
    <3>1. size \in Nat
      BY RequestsAssumption
    <3>2. \E g : HandsOut(m, m', g, A, handed, r.block, size)
      BY <1>3, <2>1, <3>1, MallocAlike
    <3>3. r.block + kMetadataSize \notin DOMAIN handed
      BY <3>2 DEF HandsOut
    <3>4. QED
      BY <2>1, <3>3
  <2>2. QED
    BY <1>4, <2>1 DEF my_malloc
<1>5. ASSUME NEW p \in roots, NEW q \in roots, NEW f \in Fields, Write(p + f, q)
      PROVE  handed' = handed
  BY <1>5 DEF Write
<1>6. ASSUME NEW p \in roots, Drop(p) PROVE handed' = handed
  BY <1>6 DEF Drop
<1>7. CASE scan_and_mark
  BY <1>7 DEF scan_and_mark
<1>8. CASE sweep
  <2>. DEFINE p == swept + kMetadataSize
  <2>1. handed' = [q \in DOMAIN handed \ {p} |-> handed[q]]
    BY <1>8 DEF sweep
  <2>. HIDE DEF p
  <2>2. CASE p \in DOMAIN handed
    BY <2>1, <2>2
  <2>3. CASE p \notin DOMAIN handed
    <3>1. DOMAIN handed \ {p} = DOMAIN handed
      BY <2>3
    <3>2. QED
      BY <1>3, <2>1, <3>1
  <2>4. QED
    BY <2>2, <2>3
<1>9. CASE my_gc_returns
  BY <1>9 DEF my_gc_returns
<1>10. CASE UNCHANGED vars
  BY <1>10 DEF vars
<1>11. QED
  BY <1>4, <1>5, <1>6, <1>7, <1>8, <1>9, <1>10 DEF Next

\* A pointer the client holds is an aligned address.
LEMMA HandedAligned ==
  ASSUME NEW n, NEW h, NEW A, NEW l, Serves(n, h, A, l), NEW p \in DOMAIN l
  PROVE  p \in {kAlignment * k : k \in 0 .. MmapTop \div kAlignment} /\ p % kAlignment = 0
<1>. DEFINE b == ptr_to_block(p)
<1>1. /\ b \in Nat \ {NULL} /\ p \in Nat /\ p = b + 16 /\ l[p] \in Nat
      /\ b + l[p] + 32 <= H!EndOf(h, b) /\ H!EndOf(h, b) <= MmapTop
      /\ H!EndOf(h, b) \in Nat /\ b % 8 = 0
  BY HeldBlock
<1>. HIDE DEF b
<1>2. p % 8 = 0 /\ p <= MmapTop /\ MmapTop \in Nat
  BY <1>1, LimitsAssumption
<1>3. p \div 8 \in 0 .. MmapTop \div 8 /\ p = 8 * (p \div 8)
  BY <1>1, <1>2
<1>4. kAlignment = 8
  BY Names
<1>5. QED
  BY <1>2, <1>3, <1>4

\* Short of the mishaps, each step that changes what is handed out is a step of
\* Allocator.
LEMMA StepPromised ==
  ASSUME GcInv, GcInv', [Next]_vars, mishap' = "none", handed' # handed
  PROVE  Promise!Next
<1>1. PICK h, A : Good(m', h, A, handed', roots', pc', block', freed')
  BY DEF GcInv
<1>2. /\ Serves(m', h, A, handed') /\ H!Sound(h) /\ H!Client(h, handed')
  BY <1>1 DEF Good, Serves, Collected
<1>3. ASSUME NEW size \in Requests, NEW p, p \notin DOMAIN handed,
             handed' = [q \in DOMAIN handed \cup {p} |-> IF q = p THEN size ELSE handed[q]]
      PROVE  Promise!Malloc(size)
  <2>1. /\ DOMAIN handed' = DOMAIN handed \cup {p} /\ handed'[p] = size
        /\ \A q \in DOMAIN handed : handed'[q] = handed[q]
    BY <1>3
  <2>2. /\ p \in {kAlignment * k : k \in 0 .. MmapTop \div kAlignment} \ DOMAIN handed
        /\ p % kAlignment = 0
    BY <1>2, <1>3, <2>1, HandedAligned
  <2>3. ASSUME NEW q \in DOMAIN handed
        PROVE  \/ p + size + SizeofFooter <= q - kMetadataSize
               \/ q + handed[q] + SizeofFooter <= p - kMetadataSize
    <3>1. p \in DOMAIN handed' /\ q \in DOMAIN handed' /\ p # q
      BY <1>3, <2>1
    <3>2. \/ p + handed'[p] + H!SizeofFooter <= q - H!kMetadataSize
          \/ q + handed'[q] + H!SizeofFooter <= p - H!kMetadataSize
      BY <1>2, <3>1, H!HeldApart, HeapAssumptions
    <3>3. QED
      BY <2>1, <3>2, Names
  <2>4. QED
    BY <1>3, <2>2, <2>3 DEF Promise!Malloc, Promise!Apart
<1>4. ASSUME NEW p \in DOMAIN handed, handed' = [q \in DOMAIN handed \ {p} |-> handed[q]]
      PROVE  Promise!Free(p)
  BY <1>4 DEF Promise!Free
<1>5. QED
  BY <1>3, <1>4, HandedSteps DEF Promise!Next

-----------------------------------------------------------------------------
(* The theorems *)

\* Short of the mishaps, in every reachable state the memory holds a sound heap
\* of the allocator, whose allocated blocks are those in their list and those
\* handed out; within sweep, the blocks passed are marked.
THEOREM CollectorSound == Spec => []GcInv
<1>1. Init => GcInv
  BY InitGood
<1>2. GcInv /\ [Next]_vars => GcInv'
  BY StepGood
<1>3. QED
  BY <1>1, <1>2, PTL DEF Spec

\* Short of the mishaps the variables hold values of their types. A second free
\* or a link left over may make a link of any number.
THEOREM GcTypesRight == Spec => [](mishap = "none" => GcTypeOK)
<1>1. GcInv => (mishap = "none" => GcTypeOK)
  BY TypesSeen DEF GcInv
<1>2. QED
  BY CollectorSound, <1>1, PTL

\* The walk by sizes meets every block and the end of its chunk, with footers
\* and bits that agree, between any two turns of sweep.
THEOREM WalkRight == Spec => []WalkMeetsEveryBlock
<1>1. GcInv => WalkMeetsEveryBlock
  <2>1. ASSUME GcInv, mishap = "none" PROVE WalkMeetsEveryBlock
    <3>1. PICK h, A : Good(m, h, A, handed, roots, pc, block, freed)
      BY <2>1 DEF GcInv
    <3>2. m.fault # "wild" /\ Serves(m, h, A, handed)
      BY <3>1 DEF Good
    <3>3. QED
      BY <3>2, WalkSeen DEF WalkMeetsEveryBlock
  <2>2. ASSUME mishap # "none" PROVE WalkMeetsEveryBlock
    BY <2>2 DEF WalkMeetsEveryBlock, Sound
  <2>3. QED
    BY <2>1, <2>2
<1>2. QED
  BY CollectorSound, <1>1, PTL

\* The blocks are split between the list of the allocated ones and the free
\* lists of their sizes, though one link field serves both.
THEOREM ListsRight == Spec => []ListsPartitionBlocks
<1>1. GcInv => ListsPartitionBlocks
  <2>1. ASSUME GcInv, Sound PROVE ListsPartitionBlocks
    <3>1. PICK h, A : Good(m, h, A, handed, roots, pc, block, freed)
      BY <2>1 DEF GcInv, Sound
    <3>2. Serves(m, h, A, handed)
      BY <3>1 DEF Good
    <3>3. QED
      BY <3>2, ListsSeen DEF ListsPartitionBlocks
  <2>2. QED
    BY <2>1 DEF ListsPartitionBlocks
<1>2. QED
  BY CollectorSound, <1>1, PTL

\* What the stack points to stays allocated through any number of collections.
THEOREM StackKept == Spec => []StackRetained
<1>1. GcInv => StackRetained
  BY HeldSeen DEF GcInv, StackRetained, Sound
<1>2. QED
  BY CollectorSound, <1>1, PTL

\* The allocated blocks are those handed out and not taken back, with room for
\* what was asked for.
THEOREM HandedRight == Spec => []HandedFits
<1>1. GcInv => HandedFits
  BY HeldSeen DEF GcInv, HandedFits, Sound
<1>2. QED
  BY CollectorSound, <1>1, PTL

\* Once sweep has passed the last block, every allocated block is marked.
THEOREM Reclaimed == Spec => []SweepReclaims
<1>1. GcInv => SweepReclaims
  BY HeldSeen DEF GcInv, SweepReclaims, Sound
<1>2. QED
  BY CollectorSound, <1>1, PTL

\* What the collector hands out is aligned and disjoint, bookkeeping included,
\* from all that it has not taken back; it takes back one block at a time.
THEOREM CollectorPromise == Spec => CollectorImplementsAllocator
<1>1. Init => Promise!Init
  BY DEF Init, Promise!Init
<1>2. GcInv /\ GcInv' /\ [Next]_vars => [mishap' = "none" /\ handed' # handed => Promise!Next]_vars
  BY StepPromised
<1>3. QED
  BY CollectorSound, <1>1, <1>2, PTL DEF Spec, CollectorImplementsAllocator

\* The stack points into no free block, and the list of allocated blocks leads
\* to those and ends, unless one of the two mishaps came before: what the runs
\* gc_twice and gc_stale show takes a second free, or a link left over.
THEOREM MishapsFirst == Spec => [](mishap = "none" => HeldNotFree /\ AllocatedListed)
<1>1. GcInv => (mishap = "none" => HeldNotFree /\ AllocatedListed)
  BY FreeSeen DEF GcInv
<1>2. QED
  BY CollectorSound, <1>1, PTL
=============================================================================
