----------------------------- MODULE HeapProofs -----------------------------
(***************************************************************************)
(* What each function of Heap does to a sound heap (HeapInvariant), and    *)
(* what a client holds of it, for every value of the constants.            *)
(***************************************************************************)
EXTENDS HeapInvariant, WalkProofs

-----------------------------------------------------------------------------
(* Arithmetic and sequences *)

\* calculate_index is the index of a list.
LEMMA IndexInRange ==
  ASSUME NEW n \in Nat
  PROVE  calculate_index(n) \in FreeLists
BY ListsAssumption, SMT DEF calculate_index, kAlignment, FreeLists

\* Removing b leaves every other element, once if each occurred once.
LEMMA WithoutElements ==
  ASSUME NEW S, NEW s \in Seq(S), NEW b,
         \A j, k \in DOMAIN s : s[j] = s[k] => j = k
  PROVE  /\ Without(s, b) \in Seq(S)
         /\ Elements(Without(s, b)) = Elements(s) \ {b}
         /\ \A j, k \in DOMAIN Without(s, b) : Without(s, b)[j] = Without(s, b)[k] => j = k
<1>1. CASE \E k \in DOMAIN s : s[k] = b
  <2>1. PICK m \in DOMAIN s : s[m] = b
    BY <1>1
  <2>2. \A k \in DOMAIN s : s[k] = b => k = m
    BY <2>1
  <2>. DEFINE first == CHOOSE k \in DOMAIN s : s[k] = b /\ \A j \in 1 .. k - 1 : s[j] # b
  <2>3. first = m
    <3>1. \A j \in 1 .. m - 1 : s[j] # b
      BY <2>1, <2>2
    <3>2. QED
      BY <2>1, <2>2, <3>1
  <2>4. Without(s, b) = DropAt(s, m)
    BY <1>1, <2>3 DEF Without, DropAt
  <2>5. QED
    BY <2>1, <2>4, DropAtElements
<1>2. CASE ~ \E k \in DOMAIN s : s[k] = b
  BY <1>2 DEF Without, Elements
<1>3. QED
  BY <1>1, <1>2

-----------------------------------------------------------------------------
(* What the small functions change *)

\* What HeapType says of one block.
LEMMA BlockType ==
  ASSUME NEW h, HeapType(h), NEW b \in Blocks(h)
  PROVE  /\ b \in Nat \ {0}
         /\ h.block[b] \in Field
         /\ h.block[b].size \in Nat /\ h.block[b].index \in Nat
         /\ h.block[b].alloc \in {0, 1} /\ h.block[b].prev_alloc \in {0, 1}
         /\ EndOf(h, b) \in Nat
<1>1. h.block[b] \in Field /\ b \in Nat \ {0}
  BY DEF HeapType, Blocks, NULL
<1>2. QED
  BY <1>1 DEF Field, EndOf

\* set_footer writes one footer: the size of the block, at its end.
LEMMA SetFooterFields ==
  ASSUME NEW h, HeapType(h), NEW b \in Blocks(h)
  PROVE  LET g  == set_footer(h, b)
             at == EndOf(h, b) - SizeofFooter
         IN  /\ HeapType(g)
             /\ SameChunks(h, g)
             /\ g.free_lists = h.free_lists /\ g.block = h.block /\ g.fault = h.fault
             /\ DOMAIN g.footer = DOMAIN h.footer \cup {at}
             /\ g.footer[at].size = h.block[b].size
             /\ \A a \in DOMAIN h.footer \ {at} : g.footer[a] = h.footer[a]
<1>. DEFINE e == b + get_size(h, b) - SizeofFooter
            r == [size |-> get_size(h, b), allocated |-> h.block[b].alloc]
            F == [a \in DOMAIN h.footer \cup {e} |-> IF a = e THEN r ELSE h.footer[a]]
            g == set_footer(h, b)
<1>1. g = [h EXCEPT !.footer = F]
  BY DEF set_footer
<1>. HIDE DEF F
<1>2. /\ g = [index_last_chunk_from_OS |-> h.index_last_chunk_from_OS,
               ch_array |-> h.ch_array, corr_size_arr |-> h.corr_size_arr,
               free_lists |-> h.free_lists, block |-> h.block,
               footer |-> F, fault |-> h.fault]
  BY <1>1 DEF HeapType
<1>3. /\ b \in Nat /\ h.block[b].size \in Nat /\ h.block[b].alloc \in {0, 1}
  BY BlockType
<1>4. r \in [size : Nat, allocated : {0, 1}] /\ e \in Int
  BY <1>3 DEF get_size, SizeofFooter
<1>5. F \in [DOMAIN F -> [size : Nat, allocated : {0, 1}]] /\ DOMAIN F = DOMAIN h.footer \cup {e}
  BY <1>4 DEF HeapType, F
<1>6. HeapType(g)
  BY <1>2, <1>4, <1>5 DEF HeapType, Blocks, ChunkIds
<1>7. e = EndOf(h, b) - SizeofFooter /\ r.size = h.block[b].size
  BY <1>3 DEF EndOf, get_size, SizeofFooter
<1>8. F[e] = r /\ \A a \in DOMAIN h.footer \ {e} : F[a] = h.footer[a]
  BY DEF F
<1>9. QED
  BY <1>2, <1>5, <1>6, <1>7, <1>8 DEF SameChunks

\* What HeapType says of one chunk.
LEMMA ChunkType ==
  ASSUME NEW h, HeapType(h), NEW i \in ChunkIds(h)
  PROVE  /\ i \in Int
         /\ h.ch_array[i].base \in Nat /\ h.ch_array[i].start \in Nat
         /\ h.ch_array[i].end \in Nat /\ h.corr_size_arr[i] \in Nat
BY DEF HeapType, ChunkIds

\* Only blocks of one chunk are neighbours.
LEMMA NeighbourInChunk ==
  ASSUME NEW h, HeapType(h), ChunksApart(h), Tiled(h),
         NEW p \in Blocks(h), NEW b \in Blocks(h), EndOf(h, p) = b
  PROVE  /\ h.block[b].index = h.block[p].index
         /\ b < h.ch_array[h.block[p].index].end
<1>. DEFINE i == h.block[p].index
            j == h.block[b].index
<1>1. i \in ChunkIds(h) /\ j \in ChunkIds(h) /\ i \in Int /\ j \in Int
  BY ChunkType DEF Tiled, InChunk
<1>2. /\ h.ch_array[i].start <= p /\ b <= h.ch_array[i].end
      /\ h.ch_array[j].start <= b /\ EndOf(h, b) <= h.ch_array[j].end
  BY DEF Tiled, InChunk
<1>3. p < b /\ b < EndOf(h, b)
  <2>1. h.block[p].size >= 32 /\ h.block[b].size >= 32
    BY DEF Tiled, kMetadataSize, SizeofFooter
  <2>2. QED
    BY <2>1, BlockType DEF EndOf
<1>4. /\ h.ch_array[i].start = h.ch_array[i].base + 16
      /\ h.ch_array[j].start = h.ch_array[j].base + 16
      /\ i < j => h.ch_array[i].end <= h.ch_array[j].base
      /\ j < i => h.ch_array[j].end <= h.ch_array[i].base
  BY <1>1 DEF ChunksApart, SizeofChunk
<1>5. /\ h.ch_array[i].base \in Nat /\ h.ch_array[j].base \in Nat
      /\ h.ch_array[i].end \in Nat /\ h.ch_array[j].end \in Nat
      /\ p \in Nat /\ b \in Nat /\ EndOf(h, b) \in Nat
  BY <1>1, ChunkType, BlockType
<1>6. i = j
  BY <1>1, <1>2, <1>3, <1>4, <1>5
<1>7. QED
  BY <1>2, <1>3, <1>5, <1>6

\* get_next_block and the fence are right about a block of a sound heap: the
\* chunk requested next is mapped higher.
LEMMA NextBlock ==
  ASSUME NEW h, HeapType(h), ChunksApart(h), Tiled(h), NEW b \in Blocks(h)
  PROVE  LET end == h.ch_array[h.block[b].index].end
         IN  /\ EndOf(h, b) = end => is_next_outside_chunk(h, b)
             /\ EndOf(h, b) # end =>
                  /\ ~is_next_outside_chunk(h, b)
                  /\ EndOf(h, b) < end
                  /\ get_next_block(h, b) = EndOf(h, b)
                  /\ EndOf(h, b) \in Blocks(h)
                  /\ h.block[EndOf(h, b)].index = h.block[b].index
<1>. DEFINE i == h.block[b].index
            c == h.ch_array[i]
<1>1. i \in ChunkIds(h) /\ i \in Int
  BY ChunkType DEF Tiled, InChunk
<1>2. c.end = c.base + h.corr_size_arr[i]
  BY <1>1 DEF ChunksApart
<1>3. EndOf(h, b) \in Nat /\ c.end \in Nat /\ EndOf(h, b) <= c.end
  BY <1>1, ChunkType, BlockType DEF Tiled, InChunk
<1>4. ASSUME EndOf(h, b) = c.end PROVE is_next_outside_chunk(h, b)
  <2>1. ASSUME i + 1 <= h.index_last_chunk_from_OS
        PROVE  h.ch_array[i + 1].start >= c.end
    <3>1. i + 1 \in ChunkIds(h) /\ i < i + 1
      BY <1>1, <2>1 DEF ChunkIds, HeapType
    <3>2. c.end <= h.ch_array[i + 1].base /\ h.ch_array[i + 1].start = h.ch_array[i + 1].base + 16
      BY <1>1, <3>1 DEF ChunksApart, SizeofChunk
    <3>3. QED
      BY <1>3, <3>1, <3>2, ChunkType
  <2>2. QED
    BY <1>2, <1>3, <1>4, <2>1 DEF is_next_outside_chunk, get_next_block, get_size, get_chunk, EndOf, NULL
<1>5. ASSUME EndOf(h, b) # c.end
      PROVE  /\ EndOf(h, b) < c.end
             /\ EndOf(h, b) \in Blocks(h)
             /\ h.block[EndOf(h, b)].index = h.block[b].index
             /\ get_next_block(h, b) = EndOf(h, b)
             /\ ~is_next_outside_chunk(h, b)
  <2>1. /\ EndOf(h, b) < c.end
        /\ EndOf(h, b) \in Blocks(h)
        /\ h.block[EndOf(h, b)].index = h.block[b].index
    <3>1. InChunk(h, b)
      BY DEF Tiled
    <3>2. EndOf(h, b) \in Blocks(h) /\ h.block[EndOf(h, b)].index = i
      BY <1>5, <3>1 DEF InChunk
    <3>3. QED
      BY <1>3, <1>5, <3>2
  <2>2. get_next_block(h, b) = EndOf(h, b)
    BY <1>2, <2>1 DEF get_next_block, get_size, EndOf
  <2>3. EndOf(h, b) # NULL
    BY <2>1, BlockType DEF NULL
  <2>4. QED
    BY <1>3, <2>1, <2>2, <2>3 DEF is_next_outside_chunk, get_chunk
<1>6. QED
  BY <1>4, <1>5

\* remove_from_free_list unlists its block, and does nothing else.
LEMMA RemoveFields ==
  ASSUME NEW h, HeapType(h), NEW odd, Listed(h, odd), NEW b \in Blocks(h)
  PROVE  LET g == remove_from_free_list(h, b)
         IN  /\ HeapType(g)
             /\ SameChunks(h, g)
             /\ g.block = h.block /\ g.footer = h.footer /\ g.fault = h.fault
             /\ Listed(g, odd \cup {b})
<1>. DEFINE g == remove_from_free_list(h, b)
            n == calculate_index(h.block[b].size)
            L == [h.free_lists EXCEPT ![n] = Without(h.free_lists[n], b)]
<1>1. n \in FreeLists
  BY BlockType, IndexInRange
<1>0. g = [h EXCEPT !.free_lists = L]
  BY DEF remove_from_free_list, get_size
<1>. HIDE DEF n, L
<1>2. /\ g = [index_last_chunk_from_OS |-> h.index_last_chunk_from_OS,
               ch_array |-> h.ch_array, corr_size_arr |-> h.corr_size_arr,
               free_lists |-> L, block |-> h.block,
               footer |-> h.footer, fault |-> h.fault]
  BY <1>0 DEF HeapType
<1>3. h.free_lists[n] \in Seq(Nat) /\ h.free_lists \in [FreeLists -> Seq(Nat)]
  BY <1>1 DEF HeapType
<1>4. \A j, k \in DOMAIN h.free_lists[n] : h.free_lists[n][j] = h.free_lists[n][k] => j = k
  BY <1>1 DEF Listed
<1>5. /\ Without(h.free_lists[n], b) \in Seq(Nat)
      /\ Elements(Without(h.free_lists[n], b)) = Elements(h.free_lists[n]) \ {b}
      /\ \A j, k \in DOMAIN Without(h.free_lists[n], b) :
           Without(h.free_lists[n], b)[j] = Without(h.free_lists[n], b)[k] => j = k
  BY <1>3, <1>4, WithoutElements
<1>6. /\ L \in [FreeLists -> Seq(Nat)]
      /\ L[n] = Without(h.free_lists[n], b)
      /\ \A i \in FreeLists : i # n => L[i] = h.free_lists[i]
  BY <1>1, <1>3, <1>5 DEF L
<1>7. HeapType(g)
  BY <1>2, <1>6 DEF HeapType, Blocks, ChunkIds
<1>8. \A i \in FreeLists : Elements(L[i]) = Elements(h.free_lists[i]) \ {b}
  <2>1. ASSUME NEW i \in FreeLists, i # n PROVE b \notin Elements(h.free_lists[i])
    BY <2>1 DEF Listed, Elements, n
  <2>2. QED
    BY <1>5, <1>6, <2>1
<1>9. \A i \in FreeLists : \A j, k \in DOMAIN L[i] : L[i][j] = L[i][k] => j = k
  BY <1>5, <1>6 DEF Listed
<1>10. Listed(g, odd \cup {b})
  <2>1. /\ g.free_lists = L /\ g.block = h.block
        /\ Blocks(g) = Blocks(h) /\ \A x : IsFree(g, x) <=> IsFree(h, x)
    BY <1>2 DEF Blocks, IsFree
  <2>2. ASSUME NEW i \in FreeLists, NEW k \in DOMAIN L[i]
        PROVE  /\ L[i][k] \in Blocks(h) \ (odd \cup {b})
               /\ IsFree(h, L[i][k])
               /\ calculate_index(h.block[L[i][k]].size) = i
    <3>1. L[i][k] \in Elements(h.free_lists[i]) \ {b}
      BY <1>8 DEF Elements
    <3>2. QED
      BY <3>1 DEF Listed, Elements
  <2>3. ASSUME NEW x \in Blocks(h) \ (odd \cup {b}), IsFree(h, x)
        PROVE  x \in Elements(L[calculate_index(h.block[x].size)])
    <3>1. x \in Elements(h.free_lists[calculate_index(h.block[x].size)])
      BY <2>3 DEF Listed
    <3>2. calculate_index(h.block[x].size) \in FreeLists
      BY BlockType, IndexInRange
    <3>3. QED
      BY <1>8, <3>1, <3>2
  <2>4. QED
    BY <2>1, <2>2, <2>3, <1>9 DEF Listed
<1>11. QED
  BY <1>2, <1>7, <1>10 DEF SameChunks

-----------------------------------------------------------------------------
(* coalesce *)

\* The fields of the heap that coalesce leaves.
Coalesces(h, odd, p, b) ==
  LET g    == coalesce(h, p, b)
      size == h.block[p].size + h.block[b].size
      at   == p + size - SizeofFooter
      mid  == EndOf(h, p) - SizeofFooter
      l    == remove_from_free_list(remove_from_free_list(h, p), b)
  IN  /\ HeapType(g)
      /\ SameChunks(h, g) /\ g.fault = h.fault
      /\ Blocks(g) = Blocks(h) \ {b}
      /\ g.block[p] = [h.block[p] EXCEPT !.size = size]
      /\ \A x \in Blocks(h) \ {b, p} : g.block[x] = h.block[x]
      /\ DOMAIN g.footer = (DOMAIN h.footer \ {mid}) \cup {at}
      /\ g.footer[at].size = size
      /\ \A a \in DOMAIN h.footer \ {mid, at} : g.footer[a] = h.footer[a]
      /\ g.free_lists = l.free_lists /\ l.block = h.block
      /\ Listed(l, odd \cup {p, b})

\* What coalesce changes, field by field.
LEMMA CoalesceFields ==
  ASSUME NEW h, HeapType(h), NEW odd, Listed(h, odd),
         NEW p \in Blocks(h), NEW b \in Blocks(h), p # b
  PROVE  Coalesces(h, odd, p, b)
<1>. DEFINE l1   == remove_from_free_list(h, p)
            l2   == remove_from_free_list(l1, b)
            size == get_size(h, p) + get_size(h, b)
            mid  == p + get_size(h, p) - SizeofFooter
            at   == p + size - SizeofFooter
            rec  == [h.block[p] EXCEPT !.size = size]
            B    == [x \in DOMAIN h.block \ {b} |-> IF x = p THEN rec ELSE h.block[x]]
            F    == [a \in (DOMAIN h.footer \ {mid}) \cup {at} |->
                       IF a = at THEN [size |-> size, allocated |-> 0] ELSE h.footer[a]]
            g    == coalesce(h, p, b)
<1>1. /\ HeapType(l1) /\ SameChunks(h, l1) /\ Listed(l1, odd \cup {p})
      /\ l1.block = h.block /\ l1.footer = h.footer /\ l1.fault = h.fault
  BY RemoveFields
<1>2. b \in Blocks(l1)
  BY <1>1 DEF Blocks
<1>3. /\ HeapType(l2) /\ SameChunks(l1, l2) /\ Listed(l2, (odd \cup {p}) \cup {b})
      /\ l2.block = h.block /\ l2.footer = h.footer /\ l2.fault = h.fault
  BY <1>1, <1>2, RemoveFields
<1>4. (odd \cup {p}) \cup {b} = odd \cup {p, b}
  OBVIOUS
<1>5. g = [l2 EXCEPT !.block = B, !.footer = F]
  BY DEF coalesce
<1>6. /\ p \in Nat /\ b \in Nat
      /\ h.block[p] \in Field /\ get_size(h, p) \in Nat /\ get_size(h, b) \in Nat
  BY BlockType DEF get_size
<1>7. rec \in Field /\ size \in Nat /\ mid \in Int /\ at \in Int
  BY <1>6 DEF Field, SizeofFooter
<1>8. /\ DOMAIN B = Blocks(h) \ {b}
      /\ B \in [DOMAIN B -> Field] /\ B[p] = rec
      /\ \A x \in Blocks(h) \ {b, p} : B[x] = h.block[x]
  BY <1>7 DEF HeapType, Blocks
<1>9. /\ DOMAIN F = (DOMAIN h.footer \ {mid}) \cup {at}
      /\ F \in [DOMAIN F -> [size : Nat, allocated : {0, 1}]]
      /\ F[at].size = size
      /\ \A a \in DOMAIN h.footer \ {mid, at} : F[a] = h.footer[a]
  BY <1>7 DEF HeapType
<1>. HIDE DEF l1, l2, B, F, g
<1>10. g = [index_last_chunk_from_OS |-> l2.index_last_chunk_from_OS,
            ch_array |-> l2.ch_array, corr_size_arr |-> l2.corr_size_arr,
            free_lists |-> l2.free_lists, block |-> B,
            footer |-> F, fault |-> l2.fault]
  BY <1>3, <1>5 DEF HeapType
<1>11. HeapType(g)
  BY <1>3, <1>7, <1>8, <1>9, <1>10 DEF HeapType, Blocks, ChunkIds
<1>12. /\ SameChunks(h, g) /\ g.fault = h.fault /\ g.block = B /\ g.footer = F
       /\ g.free_lists = l2.free_lists
  BY <1>1, <1>3, <1>10 DEF SameChunks
<1>13. /\ size = h.block[p].size + h.block[b].size
       /\ mid = EndOf(h, p) - SizeofFooter
  BY <1>6 DEF get_size, EndOf, SizeofFooter
<1>14. QED
  BY <1>3, <1>4, <1>8, <1>9, <1>11, <1>12, <1>13 DEF Coalesces, Blocks, g, l1, l2

\* Merging two free neighbours leaves a sound heap but for the merged block,
\* which is listed nowhere yet; the seam between the two is gone.
Merged(h, g, seams, p, b) ==
  /\ SoundBut(g, {p}, seams \ {b})
  /\ SameChunks(h, g) /\ SameAllocated(h, g) /\ g.fault = h.fault
  /\ Blocks(g) = Blocks(h) \ {b}
  /\ IsFree(g, p) /\ EndOf(g, p) = EndOf(h, b)
  /\ g.block[p].index = h.block[p].index
  /\ \A x \in Blocks(g) \ {p} : g.block[x] = h.block[x]

\* coalesce makes one free block of two neighbours, and leaves a sound heap.
LEMMA CoalesceSound ==
  ASSUME NEW h, NEW odd, NEW seams, SoundBut(h, odd, seams),
         NEW p \in Blocks(h), NEW b \in Blocks(h), EndOf(h, p) = b,
         IsFree(h, p), IsFree(h, b), odd \subseteq {p, b}
  PROVE  Merged(h, coalesce(h, p, b), seams, p, b)
<1>. DEFINE g    == coalesce(h, p, b)
            size == h.block[p].size + h.block[b].size
            at   == p + size - SizeofFooter
            mid  == EndOf(h, p) - SizeofFooter
            l    == remove_from_free_list(remove_from_free_list(h, p), b)
<1>1. /\ HeapType(h) /\ ChunksApart(h) /\ Tiled(h) /\ PrevBits(h) /\ Footed(h)
      /\ Coalesced(h, seams) /\ Listed(h, odd)
  BY DEF SoundBut
<1>2. \A x \in Blocks(h) : /\ x \in Nat /\ h.block[x].size \in Nat /\ h.block[x].size >= 32
                           /\ h.block[x] \in Field /\ EndOf(h, x) \in Nat
                           /\ EndOf(h, x) = x + h.block[x].size
  BY <1>1, BlockType DEF Tiled, EndOf, kMetadataSize, SizeofFooter
<1>3. p # b
  BY <1>2
<1>4. /\ HeapType(g) /\ SameChunks(h, g) /\ g.fault = h.fault
      /\ Blocks(g) = Blocks(h) \ {b}
      /\ g.block[p] = [h.block[p] EXCEPT !.size = size]
      /\ \A x \in Blocks(h) \ {b, p} : g.block[x] = h.block[x]
      /\ DOMAIN g.footer = (DOMAIN h.footer \ {mid}) \cup {at}
      /\ g.footer[at].size = size
      /\ \A a \in DOMAIN h.footer \ {mid, at} : g.footer[a] = h.footer[a]
      /\ g.free_lists = l.free_lists /\ l.block = h.block
      /\ Listed(l, odd \cup {p, b})
  <2>1. Coalesces(h, odd, p, b)
    BY <1>1, <1>3, CoalesceFields
  <2>2. QED
    BY <2>1 DEF Coalesces
<1>. HIDE DEF g, l
<1>5. /\ g.block[p].size = size /\ g.block[p].alloc = h.block[p].alloc
      /\ g.block[p].prev_alloc = h.block[p].prev_alloc
      /\ g.block[p].index = h.block[p].index
  BY <1>2, <1>4 DEF Field
<1>6. /\ EndOf(g, p) = EndOf(h, b)
      /\ \A x \in Blocks(g) \ {p} : g.block[x] = h.block[x] /\ EndOf(g, x) = EndOf(h, x)
      /\ \A x \in Blocks(g) : IsFree(g, x) <=> IsFree(h, x)
      /\ IsFree(g, p)
      /\ \A x \in Blocks(g) : /\ g.block[x].index = h.block[x].index
                              /\ g.block[x].prev_alloc = h.block[x].prev_alloc
                              /\ g.block[x].alloc = h.block[x].alloc
  <2>1. EndOf(g, p) = EndOf(h, b)
    BY <1>2, <1>5 DEF EndOf
  <2>2. QED
    BY <1>4, <1>5, <2>1 DEF EndOf, IsFree
<1>7. h.block[b].index = h.block[p].index
  BY <1>1, NeighbourInChunk
<1>8. ChunksApart(g)
  BY <1>1, <1>4 DEF ChunksApart, SameChunks, ChunkIds
\* Apart from the pair, a block ends where b begins only if it is p.
<1>9. \A x \in Blocks(h) : EndOf(h, x) = b => x = p
  BY <1>1, <1>2 DEF Tiled
<1>10. Tiled(g)
  <2>1. ASSUME NEW i \in ChunkIds(g)
        PROVE  /\ g.ch_array[i].start \in Blocks(g)
               /\ g.block[g.ch_array[i].start].index = i
    <3>1. i \in ChunkIds(h) /\ g.ch_array[i] = h.ch_array[i]
      BY <1>4 DEF ChunkIds, SameChunks
    <3>2. h.ch_array[i].start \in Blocks(h) /\ h.block[h.ch_array[i].start].index = i
      BY <1>1, <3>1 DEF Tiled
    <3>3. h.ch_array[i].start # b
      <4>1. h.ch_array[h.block[p].index].start <= p
        BY <1>1 DEF Tiled, InChunk
      <4>2. QED
        BY <1>2, <1>7, <3>2, <4>1
    <3>4. QED
      BY <1>4, <1>6, <3>1, <3>2, <3>3
  <2>2. ASSUME NEW x \in Blocks(g)
        PROVE  InChunk(g, x) /\ g.block[x].size >= kMetadataSize + SizeofFooter
    <3>. DEFINE i == h.block[x].index
    <3>1. x \in Blocks(h) /\ x # b /\ InChunk(h, x)
      BY <1>1, <1>4 DEF Tiled
    <3>2. /\ i \in ChunkIds(g) /\ g.ch_array[i] = h.ch_array[i] /\ g.block[x].index = i
      BY <1>4, <1>6, <3>1 DEF ChunkIds, SameChunks, InChunk
    <3>3. g.block[x].size >= kMetadataSize + SizeofFooter
      BY <1>2, <1>5, <1>6, <3>1 DEF kMetadataSize, SizeofFooter
    <3>4. /\ EndOf(g, x) <= h.ch_array[i].end
          /\ \/ EndOf(g, x) = h.ch_array[i].end
             \/ EndOf(g, x) \in Blocks(g) /\ g.block[EndOf(g, x)].index = i
      <4>1. CASE x = p
        <5>1. InChunk(h, b)
          BY <1>1 DEF Tiled
        <5>2. EndOf(h, b) # b /\ EndOf(g, x) = EndOf(h, b)
          BY <1>2, <1>6, <4>1
        <5>3. i = h.block[b].index
          BY <1>7, <4>1
        <5>4. EndOf(h, b) \in Blocks(h) => EndOf(h, b) \in Blocks(g)
          BY <1>4, <5>2
        <5>5. \A y \in Blocks(g) : g.block[y].index = h.block[y].index
          BY <1>6
        <5>6. QED
          BY <5>1, <5>2, <5>3, <5>4, <5>5 DEF InChunk
      <4>2. CASE x # p
        <5>1. EndOf(g, x) = EndOf(h, x) /\ EndOf(h, x) # b
          BY <1>6, <1>9, <3>1, <4>2
        <5>2. EndOf(h, x) \in Blocks(h) => EndOf(h, x) \in Blocks(g)
          BY <1>4, <5>1
        <5>3. \A y \in Blocks(g) : g.block[y].index = h.block[y].index
          BY <1>6
        <5>4. QED
          BY <3>1, <5>1, <5>2, <5>3 DEF InChunk
      <4>3. QED
        BY <4>1, <4>2
    <3>5. x = h.ch_array[i].start \/ \E q \in Blocks(g) : EndOf(g, q) = x /\ g.block[q].index = i
      <4>1. ASSUME x # h.ch_array[i].start
            PROVE  \E q \in Blocks(g) : EndOf(g, q) = x /\ g.block[q].index = i
        <5>1. PICK q \in Blocks(h) : EndOf(h, q) = x /\ h.block[q].index = i
          BY <3>1, <4>1 DEF InChunk
        <5>2. CASE q = b
          BY <1>3, <1>4, <1>6, <1>7, <5>1, <5>2
        <5>3. CASE q # b
          BY <1>4, <1>6, <3>1, <5>1, <5>3
        <5>4. QED
          BY <5>2, <5>3
      <4>2. QED
        BY <4>1
    <3>6. h.ch_array[i].start <= x
      BY <3>1 DEF InChunk
    <3>7. QED
      BY <3>2, <3>3, <3>4, <3>5, <3>6 DEF InChunk
  <2>3. ASSUME NEW x \in Blocks(g), NEW y \in Blocks(g), x < y PROVE EndOf(g, x) <= y
    <3>1. x \in Blocks(h) /\ y \in Blocks(h) /\ y # b /\ EndOf(h, x) <= y
      BY <1>1, <1>4, <2>3 DEF Tiled
    <3>2. CASE x = p
      <4>1. b <= y
        BY <3>1, <3>2
      <4>2. b < y
        BY <1>2, <3>1, <4>1
      <4>3. EndOf(h, b) <= y
        BY <1>1, <3>1, <4>2 DEF Tiled
      <4>4. QED
        BY <1>6, <3>2, <4>3
    <3>3. CASE x # p
      BY <1>6, <3>1, <3>3
    <3>4. QED
      BY <3>2, <3>3
  <2>4. QED
    BY <2>1, <2>2, <2>3 DEF Tiled
\* A pair of neighbours of the merged heap is one of the heap before.
<1>11. ASSUME NEW x \in Blocks(g), NEW y \in Blocks(g), EndOf(g, x) = y
       PROVE  /\ y # b
              /\ \E q \in Blocks(h) : EndOf(h, q) = y /\ h.block[q].alloc = g.block[x].alloc
  BY <1>4, <1>6, <1>11 DEF IsFree
<1>12. PrevBits(g)
  <2>1. ASSUME NEW x \in Blocks(g), NEW y \in Blocks(g), EndOf(g, x) = y
        PROVE  g.block[y].prev_alloc = g.block[x].alloc
    <3>1. PICK q \in Blocks(h) : EndOf(h, q) = y /\ h.block[q].alloc = g.block[x].alloc
      BY <1>11, <2>1
    <3>2. h.block[y].prev_alloc = h.block[q].alloc
      BY <1>1, <1>4, <3>1 DEF PrevBits
    <3>3. QED
      BY <1>6, <3>1, <3>2
  <2>2. QED
    BY <2>1 DEF PrevBits
<1>13. Coalesced(g, seams \ {b})
  <2>1. ASSUME NEW x \in Blocks(g), NEW y \in Blocks(g), EndOf(g, x) = y,
               IsFree(g, x), IsFree(g, y)
        PROVE  y \in seams \ {b}
    <3>1. PICK q \in Blocks(h) : EndOf(h, q) = y /\ h.block[q].alloc = g.block[x].alloc
      BY <1>11, <2>1
    <3>2. IsFree(h, q) /\ IsFree(h, y) /\ y \in Blocks(h) /\ y # b
      BY <1>4, <1>6, <2>1, <3>1 DEF IsFree
    <3>3. QED
      BY <1>1, <3>1, <3>2 DEF Coalesced
  <2>2. QED
    BY <2>1 DEF Coalesced
<1>14. Footed(g)
  <2>1. at = EndOf(g, p) - SizeofFooter /\ at = EndOf(h, b) - SizeofFooter
    BY <1>2, <1>6 DEF SizeofFooter
  <2>2. ASSUME NEW x \in Blocks(g), x # p
        PROVE  /\ EndOf(g, x) - SizeofFooter \in DOMAIN g.footer
               /\ g.footer[EndOf(g, x) - SizeofFooter].size = g.block[x].size
    <3>1. x \in Blocks(h) /\ x # b /\ EndOf(g, x) = EndOf(h, x) /\ g.block[x] = h.block[x]
      BY <1>4, <1>6, <2>2
    <3>2. EndOf(h, x) # EndOf(h, p) /\ EndOf(h, x) # EndOf(h, b)
      BY <1>1, <1>2, <2>2, <3>1 DEF Tiled
    <3>3. EndOf(h, x) - SizeofFooter \in DOMAIN h.footer \ {mid, at}
      BY <1>1, <1>2, <2>1, <3>1, <3>2 DEF Footed, SizeofFooter
    <3>4. QED
      BY <1>1, <1>4, <3>1, <3>3 DEF Footed
  <2>3. QED
    BY <1>4, <1>5, <2>1, <2>2 DEF Footed
<1>15. Listed(g, {p})
  <2>1. Listed(l, {p, b})
    <3>1. odd \cup {p, b} = {p, b}
      OBVIOUS
    <3>2. QED
      BY <1>4, <3>1
  <2>2. /\ Blocks(l) = Blocks(h) /\ \A x : IsFree(l, x) <=> IsFree(h, x)
        /\ Blocks(g) \ {p} = Blocks(l) \ {p, b}
    BY <1>4 DEF Blocks, IsFree
  <2>3. \A x \in Blocks(l) \ {p, b} : /\ g.block[x].size = l.block[x].size
                                      /\ IsFree(g, x) <=> IsFree(l, x)
    BY <1>4, <1>6, <2>2
  <2>4. ASSUME NEW i \in FreeLists, NEW k \in DOMAIN l.free_lists[i]
        PROVE  LET x == l.free_lists[i][k]
               IN  /\ x \in Blocks(g) \ {p} /\ IsFree(g, x)
                   /\ calculate_index(g.block[x].size) = i
                   /\ \A j \in DOMAIN l.free_lists[i] : l.free_lists[i][j] = x => j = k
    BY <2>1, <2>2, <2>3 DEF Listed
  <2>5. ASSUME NEW x \in Blocks(g) \ {p}, IsFree(g, x)
        PROVE  x \in Elements(l.free_lists[calculate_index(g.block[x].size)])
    <3>1. x \in Blocks(l) \ {p, b}
      BY <2>2, <2>5
    <3>2. IsFree(l, x) /\ g.block[x].size = l.block[x].size
      BY <2>3, <2>5, <3>1
    <3>3. QED
      BY <2>1, <3>1, <3>2 DEF Listed
  <2>6. g.free_lists = l.free_lists
    BY <1>4
  <2>7. QED
    BY <2>4, <2>5, <2>6 DEF Listed
<1>16. SameAllocated(h, g)
  BY <1>4, <1>6 DEF SameAllocated, Allocated
<1>17. QED
  BY <1>4, <1>5, <1>6, <1>8, <1>10, <1>12, <1>13, <1>14, <1>15, <1>16 DEF Merged, SoundBut, g

-----------------------------------------------------------------------------
(* put_block_in_free_list and freeing_up *)

\* Listing the one free block that is in no list makes the heap sound.
LEMMA PutSound ==
  ASSUME NEW h, NEW b \in Blocks(h), SoundBut(h, {b}, {}), IsFree(h, b)
  PROVE  LET g == put_block_in_free_list(h, b, calculate_index(get_size(h, b)))
         IN  /\ Sound(g) /\ SameChunks(h, g) /\ SameAllocated(h, g) /\ g.fault = h.fault
             /\ Blocks(g) = Blocks(h)
<1>. DEFINE n == calculate_index(get_size(h, b))
            s == h.free_lists[n]
            L == [h.free_lists EXCEPT ![n] = <<b>> \o s]
            g == put_block_in_free_list(h, b, n)
<1>1. /\ HeapType(h) /\ ChunksApart(h) /\ Tiled(h) /\ PrevBits(h) /\ Footed(h)
      /\ Coalesced(h, {}) /\ Listed(h, {b})
  BY DEF SoundBut
<1>2. b \in Nat /\ n \in FreeLists /\ n = calculate_index(h.block[b].size)
  BY <1>1, BlockType, IndexInRange DEF get_size
<1>3. g = [h EXCEPT !.free_lists = L]
  BY DEF put_block_in_free_list
<1>. HIDE DEF n, L, g
<1>4. h.free_lists \in [FreeLists -> Seq(Nat)] /\ s \in Seq(Nat)
  BY <1>1, <1>2 DEF HeapType
<1>. HIDE DEF s
<1>5. /\ <<b>> \o s \in Seq(Nat)
      /\ DOMAIN (<<b>> \o s) = 1 .. Len(s) + 1
      /\ (<<b>> \o s)[1] = b
      /\ \A k \in DOMAIN s : (<<b>> \o s)[k + 1] = s[k]
      /\ Elements(<<b>> \o s) = Elements(s) \cup {b}
  <2>1. b \in Nat /\ s \in Seq(Nat)
    BY <1>2, <1>4
  <2>2. QED
    BY <2>1, Cons
<1>6. /\ L \in [FreeLists -> Seq(Nat)]
      /\ L[n] = <<b>> \o s
      /\ \A i \in FreeLists : i # n => L[i] = h.free_lists[i]
  BY <1>2, <1>4, <1>5 DEF L
<1>7. g = [index_last_chunk_from_OS |-> h.index_last_chunk_from_OS,
           ch_array |-> h.ch_array, corr_size_arr |-> h.corr_size_arr,
           free_lists |-> L, block |-> h.block,
           footer |-> h.footer, fault |-> h.fault]
  BY <1>1, <1>3 DEF HeapType
<1>8. HeapType(g)
  BY <1>1, <1>6, <1>7 DEF HeapType, Blocks, ChunkIds
<1>9. /\ g.block = h.block /\ g.footer = h.footer /\ g.fault = h.fault
      /\ g.free_lists = L /\ SameChunks(h, g)
      /\ Blocks(g) = Blocks(h) /\ ChunkIds(g) = ChunkIds(h)
      /\ \A x : IsFree(g, x) <=> IsFree(h, x)
      /\ \A x : EndOf(g, x) = EndOf(h, x)
  BY <1>7 DEF SameChunks, Blocks, ChunkIds, IsFree, EndOf
<1>10. ChunksApart(g) /\ Tiled(g) /\ PrevBits(g) /\ Footed(g) /\ Coalesced(g, {})
  <2>1. ChunksApart(g)
    BY <1>1, <1>9 DEF ChunksApart, SameChunks
  <2>2. Tiled(g)
    BY <1>1, <1>9 DEF Tiled, InChunk, SameChunks
  <2>3. PrevBits(g) /\ Footed(g) /\ Coalesced(g, {})
    BY <1>1, <1>9 DEF PrevBits, Footed, Coalesced
  <2>4. QED
    BY <2>1, <2>2, <2>3
<1>11. Listed(g, {})
  <2>1. ASSUME NEW i \in FreeLists, NEW k \in DOMAIN L[i]
        PROVE  LET x == L[i][k]
               IN  /\ x \in Blocks(h)
                   /\ IsFree(h, x)
                   /\ calculate_index(h.block[x].size) = i
                   /\ \A j \in DOMAIN L[i] : L[i][j] = x => j = k
    <3>1. CASE i # n
      BY <1>1, <1>6, <3>1 DEF Listed
    <3>2. CASE i = n
      <4>1. DOMAIN L[i] = 1 .. Len(s) + 1 /\ Len(s) \in Nat /\ DOMAIN s = 1 .. Len(s)
        BY <1>4, <1>5, <1>6, <3>2
      <4>2. \A j \in DOMAIN s : /\ s[j] # b /\ s[j] \in Blocks(h) /\ IsFree(h, s[j])
                                /\ calculate_index(h.block[s[j]].size) = n
                                /\ \A m \in DOMAIN s : s[m] = s[j] => m = j
        BY <1>1, <1>2 DEF Listed, s
      <4>3. \A j \in DOMAIN L[i] : \/ j = 1 /\ L[i][j] = b
                                   \/ j # 1 /\ j - 1 \in DOMAIN s /\ L[i][j] = s[j - 1]
        <5>1. L[i] = <<b>> \o s
          BY <1>6, <3>2
        <5>2. L[i][1] = b /\ \A j \in DOMAIN s : L[i][j + 1] = s[j]
          BY <1>5, <5>1
        <5>3. \A j \in DOMAIN L[i] : j # 1 => j - 1 \in DOMAIN s /\ (j - 1) + 1 = j
          BY <4>1
        <5>4. QED
          BY <5>2, <5>3
      <4>4. CASE k = 1
        BY <1>2, <3>2, <4>2, <4>3, <4>4
      <4>5. CASE k # 1
        <5>1. k - 1 \in DOMAIN s /\ L[i][k] = s[k - 1]
          BY <4>3, <4>5
        <5>2. ASSUME NEW j \in DOMAIN L[i], L[i][j] = L[i][k] PROVE j = k
          BY <4>1, <4>2, <4>3, <5>1, <5>2
        <5>3. QED
          BY <3>2, <4>2, <5>1, <5>2
      <4>6. QED
        BY <4>4, <4>5
    <3>3. QED
      BY <3>1, <3>2
  <2>2. ASSUME NEW x \in Blocks(h), IsFree(h, x)
        PROVE  x \in Elements(L[calculate_index(h.block[x].size)])
    <3>1. calculate_index(h.block[x].size) \in FreeLists
      BY <1>1, BlockType, IndexInRange
    <3>2. CASE x = b
      BY <1>2, <1>5, <1>6, <3>2
    <3>3. CASE x # b
      <4>1. x \in Elements(h.free_lists[calculate_index(h.block[x].size)])
        BY <1>1, <2>2, <3>3 DEF Listed
      <4>2. QED
        BY <1>5, <1>6, <3>1, <4>1 DEF s
    <3>4. QED
      BY <3>2, <3>3
  <2>3. QED
    BY <1>9, <2>1, <2>2 DEF Listed
<1>12. SameAllocated(h, g)
  BY <1>9 DEF SameAllocated, Allocated
<1>13. QED
  BY <1>8, <1>9, <1>10, <1>11, <1>12 DEF Sound, SoundBut, g, n

\* What freeing_up joins b with.
JoinsPrev(h, b) == h.block[b].prev_alloc = 0 /\ ~is_prev_outside_chunk(h, b)
JoinsNext(h, b) == ~is_next_outside_chunk(h, b) /\ h.block[get_next_block(h, b)].alloc = 0

\* The heaps freeing_up goes through: h1 when b is merged with its left
\* neighbour, h2 when the result is merged with the right one; "left" is then
\* put in a list.
Frees(h, b, left, h1, h2) ==
  /\ IF JoinsPrev(h, b)
     THEN /\ left \in Blocks(h) /\ EndOf(h, left) = b /\ IsFree(h, left)
          /\ h1 = coalesce(h, left, b)
     ELSE left = b /\ h1 = h
  /\ SoundBut(h1, {left}, {EndOf(h, b)})
  /\ SameChunks(h, h1) /\ SameAllocated(h, h1) /\ h1.fault = h.fault
  /\ left \in Blocks(h1) /\ IsFree(h1, left) /\ EndOf(h1, left) = EndOf(h, b)
  /\ Blocks(h1) \subseteq Blocks(h)
  /\ IF JoinsNext(h, b)
     THEN /\ EndOf(h, b) \in Blocks(h1) /\ IsFree(h1, EndOf(h, b))
          /\ get_next_block(h, b) = EndOf(h, b)
          /\ h2 = coalesce(h1, left, EndOf(h, b))
     ELSE h2 = h1
  /\ SoundBut(h2, {left}, {})
  /\ SameChunks(h, h2) /\ SameAllocated(h, h2) /\ h2.fault = h.fault
  /\ left \in Blocks(h2) /\ IsFree(h2, left)
  /\ Blocks(h2) \subseteq Blocks(h)
  /\ freeing_up(h, b) = put_block_in_free_list(h2, left, calculate_index(get_size(h2, left)))

\* It neither reads nor writes where no block is: the left neighbour is found
\* through its footer, the right one behind the block.
LEMMA FreeingUpParts ==
  ASSUME NEW h, NEW b \in Blocks(h), SoundBut(h, {b}, {b, EndOf(h, b)}), IsFree(h, b)
  PROVE  \E left, h1, h2 : Frees(h, b, left, h1, h2)
<1>. DEFINE join_prev == JoinsPrev(h, b)
            join_next == JoinsNext(h, b)
            below     == b - SizeofFooter
            prev      == b - h.footer[below].size
            next      == b + get_size(h, b)
            left      == IF join_prev THEN prev ELSE b
            h1        == IF join_prev THEN coalesce(h, prev, b) ELSE h
            h2        == IF join_next THEN coalesce(h1, left, next) ELSE h1
            g         == put_block_in_free_list(h2, left, calculate_index(get_size(h2, left)))
<1>1. /\ HeapType(h) /\ ChunksApart(h) /\ Tiled(h) /\ PrevBits(h) /\ Footed(h)
      /\ Coalesced(h, {b, EndOf(h, b)}) /\ Listed(h, {b})
  BY DEF SoundBut
<1>2. /\ b \in Nat /\ EndOf(h, b) \in Nat /\ next = EndOf(h, b)
      /\ h.block[b].prev_alloc \in {0, 1} /\ h.block[b].size \in Nat
  BY <1>1, BlockType DEF EndOf, get_size
<1>3. InChunk(h, b) /\ h.block[b].size >= 32
  BY <1>1 DEF Tiled, kMetadataSize, SizeofFooter
<1>4. join_next => /\ next \in Blocks(h) /\ IsFree(h, next) /\ next > b
                   /\ get_next_block(h, b) = EndOf(h, b)
  BY <1>1, <1>2, <1>3, NextBlock DEF IsFree, EndOf, JoinsNext
\* When the right neighbour is not merged, none is free.
<1>5. ~join_next /\ EndOf(h, b) \in Blocks(h) => ~IsFree(h, EndOf(h, b))
  <2>1. EndOf(h, b) \in Blocks(h) => EndOf(h, b) # h.ch_array[h.block[b].index].end
    BY <1>1, <1>2, NeighbourInChunk
  <2>2. QED
    BY <1>1, <2>1, NextBlock DEF IsFree, JoinsNext
\* The left neighbour, found through its footer.
<1>6. ASSUME join_prev
      PROVE  /\ prev \in Blocks(h) /\ below \in DOMAIN h.footer
             /\ EndOf(h, prev) = b /\ IsFree(h, prev) /\ prev < b
  <2>1. PICK p \in Blocks(h) : EndOf(h, p) = b
    BY <1>3, <1>6 DEF InChunk, is_prev_outside_chunk, get_chunk, JoinsPrev
  <2>2. h.block[p].alloc = 0
    BY <1>1, <1>6, <2>1 DEF PrevBits, JoinsPrev
  <2>3. below \in DOMAIN h.footer /\ h.footer[below].size = h.block[p].size
    BY <1>1, <2>1 DEF Footed
  <2>4. p \in Nat /\ h.block[p].size \in Nat /\ h.block[p].size >= 32 /\ b = p + h.block[p].size
    BY <1>1, <2>1, BlockType DEF EndOf, Tiled, kMetadataSize, SizeofFooter
  <2>5. prev = p
    BY <2>3, <2>4
  <2>6. QED
    BY <2>1, <2>2, <2>3, <2>4, <2>5 DEF IsFree
\* When the left neighbour is not merged, none is free.
<1>7. ASSUME ~join_prev, NEW p \in Blocks(h), EndOf(h, p) = b PROVE ~IsFree(h, p)
  <2>1. CASE h.block[b].prev_alloc = 1
    BY <1>1, <1>7, <2>1 DEF PrevBits, IsFree
  <2>2. CASE is_prev_outside_chunk(h, b)
    <3>1. b = h.ch_array[h.block[b].index].start
      BY <2>2 DEF is_prev_outside_chunk, get_chunk
    <3>2. h.block[b].index = h.block[p].index
      BY <1>1, <1>7, NeighbourInChunk
    <3>3. InChunk(h, p) /\ h.block[p].size >= 32
      BY <1>1 DEF Tiled, kMetadataSize, SizeofFooter
    <3>4. h.ch_array[h.block[p].index].start <= p
      BY <3>3 DEF InChunk
    <3>5. p \in Nat /\ h.block[p].size \in Nat /\ b = p + h.block[p].size
      BY <1>1, <1>7, BlockType DEF EndOf
    <3>6. QED
      BY <1>2, <3>1, <3>2, <3>3, <3>4, <3>5
  <2>3. QED
    BY <1>2, <1>7, <2>1, <2>2 DEF JoinsPrev
<1>. HIDE DEF prev, next, below, join_prev, join_next
<1>8. freeing_up(h, b) = g
  <2>1. ~(join_prev /\ (below \notin DOMAIN h.footer \/ prev \notin DOMAIN h.block))
    BY <1>6 DEF Blocks
  <2>2. ~(join_next /\ next \notin DOMAIN h.block)
    BY <1>4 DEF Blocks
  <2>3. QED
    BY <2>1, <2>2 DEF freeing_up, prev, next, below, join_prev, join_next, JoinsPrev, JoinsNext
<1>9. /\ SoundBut(h1, {left}, {EndOf(h, b)})
      /\ SameChunks(h, h1) /\ SameAllocated(h, h1) /\ h1.fault = h.fault
      /\ left \in Blocks(h1) /\ IsFree(h1, left) /\ EndOf(h1, left) = EndOf(h, b)
      /\ next \in Blocks(h) /\ next > b => next \in Blocks(h1) /\ h1.block[next] = h.block[next]
      /\ Blocks(h1) \subseteq Blocks(h)
  <2>1. CASE join_prev
    <3>1. /\ SoundBut(h1, {prev}, {b, EndOf(h, b)} \ {b})
          /\ SameChunks(h, h1) /\ SameAllocated(h, h1) /\ h1.fault = h.fault
          /\ Blocks(h1) = Blocks(h) \ {b}
          /\ IsFree(h1, prev) /\ EndOf(h1, prev) = EndOf(h, b)
          /\ \A x \in Blocks(h1) \ {prev} : h1.block[x] = h.block[x]
      <4>1. h1 = coalesce(h, prev, b) /\ {b} \subseteq {prev, b}
        BY <2>1
      <4>2. Merged(h, coalesce(h, prev, b), {b, EndOf(h, b)}, prev, b)
        BY <1>6, <2>1, <4>1, CoalesceSound
      <4>3. QED
        BY <4>1, <4>2 DEF Merged
    <3>2. {b, EndOf(h, b)} \ {b} = {EndOf(h, b)}
      BY <1>2, <1>3 DEF EndOf
    <3>3. prev \in Nat
      BY <1>1, <1>6, <2>1, BlockType
    <3>4. QED
      BY <1>2, <1>6, <2>1, <3>1, <3>2, <3>3, BlockType
  <2>2. CASE ~join_prev
    <3>1. Coalesced(h, {EndOf(h, b)})
      BY <1>1, <1>7, <2>2 DEF Coalesced
    <3>2. SoundBut(h, {b}, {EndOf(h, b)})
      BY <1>1, <3>1 DEF SoundBut
    <3>3. QED
      BY <2>2, <3>2 DEF SameChunks, SameAllocated
  <2>3. QED
    BY <2>1, <2>2
<1>. HIDE DEF h1, left
<1>10. /\ SoundBut(h2, {left}, {})
       /\ SameChunks(h, h2) /\ SameAllocated(h, h2) /\ h2.fault = h.fault
       /\ left \in Blocks(h2) /\ IsFree(h2, left)
       /\ Blocks(h2) \subseteq Blocks(h)
  <2>1. CASE join_next
    <3>1. /\ next \in Blocks(h1) /\ IsFree(h1, next) /\ EndOf(h1, left) = next
      BY <1>2, <1>4, <1>9, <2>1 DEF IsFree
    <3>2. /\ SoundBut(h2, {left}, {EndOf(h, b)} \ {next})
          /\ SameChunks(h1, h2) /\ SameAllocated(h1, h2) /\ h2.fault = h1.fault
          /\ Blocks(h2) = Blocks(h1) \ {next} /\ IsFree(h2, left)
      <4>1. h2 = coalesce(h1, left, next) /\ {left} \subseteq {left, next}
        BY <2>1
      <4>. HIDE DEF h2
      <4>2. SoundBut(h1, {left}, {EndOf(h, b)}) /\ left \in Blocks(h1) /\ IsFree(h1, left)
        BY <1>9
      <4>3. Merged(h1, coalesce(h1, left, next), {EndOf(h, b)}, left, next)
        BY <3>1, <4>1, <4>2, CoalesceSound
      <4>4. QED
        BY <4>1, <4>3 DEF Merged
    <3>3. {EndOf(h, b)} \ {next} = {} /\ left # next
      <4>1. left \in Nat /\ h1.block[left].size >= 32 /\ h1.block[left].size \in Nat
        BY <1>9, BlockType DEF SoundBut, Tiled, kMetadataSize, SizeofFooter
      <4>2. left # next
        BY <3>1, <4>1 DEF EndOf
      <4>3. QED
        BY <1>2, <4>2
    <3>4. QED
      BY <1>9, <3>2, <3>3 DEF SameChunks, SameAllocated
  <2>2. CASE ~join_next
    <3>1. ASSUME NEW p \in Blocks(h1), NEW q \in Blocks(h1), EndOf(h1, p) = q,
                 IsFree(h1, p), IsFree(h1, q)
          PROVE  FALSE
      <4>1. q = EndOf(h, b)
        BY <1>9, <3>1 DEF SoundBut, Coalesced
      <4>2. q = next /\ next > b
        BY <1>2, <1>3, <4>1 DEF EndOf
      <4>3. q \in Blocks(h) /\ h1.block[q] = h.block[q]
        BY <1>9, <3>1, <4>2
      <4>4. QED
        BY <1>5, <2>2, <3>1, <4>1, <4>3 DEF IsFree
    <3>2. Coalesced(h1, {})
      BY <3>1 DEF Coalesced
    <3>3. SoundBut(h1, {left}, {})
      BY <1>9, <3>2 DEF SoundBut
    <3>4. QED
      BY <1>9, <2>2, <3>3
  <2>3. QED
    BY <2>1, <2>2
<1>. HIDE DEF h2
<1>11. IF join_prev
       THEN /\ left \in Blocks(h) /\ EndOf(h, left) = b /\ IsFree(h, left)
            /\ h1 = coalesce(h, left, b)
       ELSE left = b /\ h1 = h
  BY <1>6 DEF left, h1
<1>12. IF join_next
       THEN /\ EndOf(h, b) \in Blocks(h1) /\ IsFree(h1, EndOf(h, b))
            /\ get_next_block(h, b) = EndOf(h, b)
            /\ h2 = coalesce(h1, left, EndOf(h, b))
       ELSE h2 = h1
  BY <1>2, <1>4, <1>9 DEF h2, IsFree
<1>13. Frees(h, b, left, h1, h2)
  BY <1>8, <1>9, <1>10, <1>11, <1>12 DEF Frees, join_prev, join_next
<1>14. QED
  BY <1>13

\* freeing_up makes sound a heap in which one free block is in no list and may
\* have free neighbours.
LEMMA FreeingUpSound ==
  ASSUME NEW h, NEW b \in Blocks(h), SoundBut(h, {b}, {b, EndOf(h, b)}), IsFree(h, b)
  PROVE  LET g == freeing_up(h, b)
         IN  /\ Sound(g) /\ SameChunks(h, g) /\ SameAllocated(h, g) /\ g.fault = h.fault
             /\ Blocks(g) \subseteq Blocks(h)
<1>1. PICK left, h1, h2 : Frees(h, b, left, h1, h2)
  BY FreeingUpParts
<1>2. /\ SoundBut(h2, {left}, {})
      /\ SameChunks(h, h2) /\ SameAllocated(h, h2) /\ h2.fault = h.fault
      /\ left \in Blocks(h2) /\ IsFree(h2, left)
      /\ Blocks(h2) \subseteq Blocks(h)
      /\ freeing_up(h, b) = put_block_in_free_list(h2, left, calculate_index(get_size(h2, left)))
  BY <1>1 DEF Frees
<1>. DEFINE g == put_block_in_free_list(h2, left, calculate_index(get_size(h2, left)))
<1>3. /\ Sound(g) /\ SameChunks(h2, g) /\ SameAllocated(h2, g) /\ g.fault = h2.fault
      /\ Blocks(g) = Blocks(h2)
  BY <1>2, PutSound
<1>4. QED
  BY <1>2, <1>3 DEF SameChunks, SameAllocated

-----------------------------------------------------------------------------
(* Status bits, and my_free *)

\* Two heaps cut up in the same way.
SameLayout(h, g) ==
  /\ SameChunks(h, g)
  /\ Blocks(g) = Blocks(h)
  /\ \A x \in Blocks(h) :
       g.block[x].size = h.block[x].size /\ g.block[x].index = h.block[x].index

\* Blocks that keep their places and sizes tile their chunks as before.
LEMMA LayoutKept ==
  ASSUME NEW h, ChunksApart(h), Tiled(h), NEW g, SameLayout(h, g)
  PROVE  /\ ChunksApart(g) /\ Tiled(g)
         /\ \A x \in Blocks(h) : EndOf(g, x) = EndOf(h, x)
<1>1. /\ ChunkIds(g) = ChunkIds(h) /\ g.ch_array = h.ch_array
      /\ g.corr_size_arr = h.corr_size_arr /\ Blocks(g) = Blocks(h)
      /\ \A x \in Blocks(h) : EndOf(g, x) = EndOf(h, x)
  BY DEF SameLayout, SameChunks, ChunkIds, EndOf
<1>2. ChunksApart(g)
  BY <1>1 DEF ChunksApart
<1>3. \A x \in Blocks(h) : InChunk(g, x)
  BY <1>1 DEF Tiled, InChunk, SameLayout
<1>4. Tiled(g)
  BY <1>1, <1>3 DEF Tiled, SameLayout
<1>5. QED
  BY <1>1, <1>2, <1>4

\* g is h with v for the status of b.
AllocSet(h, g, b, v) ==
  /\ HeapType(g) /\ SameLayout(h, g)
  /\ g.free_lists = h.free_lists /\ g.footer = h.footer /\ g.fault = h.fault
  /\ g.block[b].alloc = v
  /\ \A x \in Blocks(h) \ {b} : g.block[x].alloc = h.block[x].alloc
  /\ \A x \in Blocks(h) : g.block[x].prev_alloc = h.block[x].prev_alloc

\* An assignment to the alloc bit of one block.
LEMMA SetAlloc ==
  ASSUME NEW h, HeapType(h), NEW b \in Blocks(h), NEW v \in {0, 1}
  PROVE  AllocSet(h, [h EXCEPT !.block[b].alloc = v], b, v)
<1>. DEFINE B == [h.block EXCEPT ![b] = [h.block[b] EXCEPT !.alloc = v]]
            g == [h EXCEPT !.block[b].alloc = v]
<1>1. g = [h EXCEPT !.block = B]
  OBVIOUS
<1>. HIDE DEF g
<1>2. \A x \in Blocks(h) : h.block[x] \in Field
  BY BlockType
<1>3. /\ B \in [Blocks(h) -> Field]
      /\ B[b].alloc = v
      /\ \A x \in Blocks(h) \ {b} : B[x] = h.block[x]
      /\ \A x \in Blocks(h) : /\ B[x].size = h.block[x].size /\ B[x].index = h.block[x].index
                              /\ B[x].prev_alloc = h.block[x].prev_alloc
  <2>1. /\ B[b].alloc = v /\ B[b] \in Field
        /\ B[b].size = h.block[b].size /\ B[b].index = h.block[b].index
        /\ B[b].prev_alloc = h.block[b].prev_alloc
    BY <1>2 DEF HeapType, Blocks, Field
  <2>2. DOMAIN B = Blocks(h) /\ \A x \in Blocks(h) \ {b} : B[x] = h.block[x]
    BY DEF Blocks
  <2>3. QED
    BY <1>2, <2>1, <2>2 DEF HeapType, Blocks
<1>. HIDE DEF B
<1>4. g = [index_last_chunk_from_OS |-> h.index_last_chunk_from_OS,
           ch_array |-> h.ch_array, corr_size_arr |-> h.corr_size_arr,
           free_lists |-> h.free_lists, block |-> B,
           footer |-> h.footer, fault |-> h.fault]
  BY <1>1 DEF HeapType
<1>5. Blocks(g) = Blocks(h)
  BY <1>3, <1>4 DEF Blocks
<1>6. HeapType(g)
  BY <1>3, <1>4, <1>5 DEF HeapType, ChunkIds
<1>7. QED
  BY <1>3, <1>4, <1>5, <1>6 DEF AllocSet, SameLayout, SameChunks, g

\* tell_next changes one bit at most: that of the right neighbour of b.
LEMMA TellNextFields ==
  ASSUME NEW h, HeapType(h), ChunksApart(h), Tiled(h), NEW b \in Blocks(h), NEW v \in {0, 1}
  PROVE  LET g == tell_next(h, b, v)
         IN  /\ HeapType(g) /\ SameLayout(h, g)
             /\ g.free_lists = h.free_lists /\ g.footer = h.footer /\ g.fault = h.fault
             /\ \A x \in Blocks(h) : g.block[x].alloc = h.block[x].alloc
             /\ \A x \in Blocks(h) :
                  g.block[x].prev_alloc = IF x = EndOf(h, b) THEN v ELSE h.block[x].prev_alloc
<1>. DEFINE n == EndOf(h, b)
            g == tell_next(h, b, v)
            end == h.ch_array[h.block[b].index].end
<1>1. CASE n = end
  <2>1. g = h
    BY <1>1, NextBlock DEF tell_next
  <2>2. \A x \in Blocks(h) : x # n
    BY <1>1, NeighbourInChunk, ChunkType, BlockType DEF Tiled, InChunk
  <2>3. QED
    BY <2>1, <2>2 DEF SameLayout, SameChunks
<1>2. CASE n # end
  <2>. DEFINE B == [h.block EXCEPT ![n] = [h.block[n] EXCEPT !.prev_alloc = v]]
  <2>1. n \in Blocks(h) /\ ~is_next_outside_chunk(h, b) /\ get_next_block(h, b) = n
    BY <1>2, NextBlock
  <2>2. g = [h EXCEPT !.block = B]
    BY <2>1 DEF tell_next
  <2>. HIDE DEF g, n
  <2>3. \A x \in Blocks(h) : h.block[x] \in Field
    BY BlockType
  <2>4. /\ B[n].prev_alloc = v /\ B[n] \in Field
        /\ B[n].size = h.block[n].size /\ B[n].index = h.block[n].index
        /\ B[n].alloc = h.block[n].alloc
    BY <2>1, <2>3 DEF HeapType, Blocks, Field
  <2>5. DOMAIN B = Blocks(h) /\ \A x \in Blocks(h) \ {n} : B[x] = h.block[x]
    BY DEF Blocks
  <2>6. B \in [Blocks(h) -> Field]
    BY <2>3, <2>4, <2>5 DEF HeapType, Blocks
  <2>. HIDE DEF B
  <2>7. g = [index_last_chunk_from_OS |-> h.index_last_chunk_from_OS,
             ch_array |-> h.ch_array, corr_size_arr |-> h.corr_size_arr,
             free_lists |-> h.free_lists, block |-> B,
             footer |-> h.footer, fault |-> h.fault]
    BY <2>2 DEF HeapType
  <2>8. Blocks(g) = Blocks(h)
    BY <2>6, <2>7 DEF Blocks
  <2>9. HeapType(g)
    BY <2>6, <2>7, <2>8 DEF HeapType, ChunkIds
  <2>10. QED
    BY <2>4, <2>5, <2>7, <2>8, <2>9 DEF SameLayout, SameChunks, g, n
<1>3. QED
  BY <1>1, <1>2

\* Different blocks end at different addresses.
LEMMA EndsDiffer ==
  ASSUME NEW h, HeapType(h), Tiled(h), NEW x \in Blocks(h), NEW y \in Blocks(h), x # y
  PROVE  EndOf(h, x) # EndOf(h, y)
<1>1. /\ x \in Nat /\ y \in Nat /\ x < EndOf(h, x) /\ y < EndOf(h, y)
      /\ EndOf(h, x) \in Nat /\ EndOf(h, y) \in Nat
  BY BlockType DEF EndOf, Tiled, kMetadataSize, SizeofFooter
<1>2. x < y => EndOf(h, x) <= y
  BY DEF Tiled
<1>3. y < x => EndOf(h, y) <= x
  BY DEF Tiled
<1>4. QED
  BY <1>1, <1>2, <1>3

\* g is h with the block b free, in no list, its right neighbour told so.
Released(h, g, b) ==
  /\ SoundBut(g, {b}, {b, EndOf(g, b)}) /\ b \in Blocks(g) /\ IsFree(g, b)
  /\ SameLayout(h, g) /\ g.free_lists = h.free_lists /\ g.fault = h.fault
  /\ \A x \in Blocks(h) \ {b} : g.block[x].alloc = h.block[x].alloc
  /\ \A x \in Blocks(h) :
       g.block[x].prev_alloc = IF x = EndOf(h, b) THEN 0 ELSE h.block[x].prev_alloc

\* my_free of a live block frees it, tells the neighbour, and merges.
LEMMA ReleaseParts ==
  ASSUME NEW h, Sound(h), NEW p, p - kMetadataSize \in Allocated(h), p \in Int
  PROVE  \E g : /\ Released(h, g, p - kMetadataSize)
                /\ release(h, p) = freeing_up(g, p - kMetadataSize)
<1>. DEFINE b  == p - kMetadataSize
            i  == h.block[b].index
            h0 == [h EXCEPT !.block[b].alloc = 0]
            h1 == set_footer(h0, b)
            h2 == tell_next(h1, b, 0)
            g  == freeing_up(h2, b)
<1>1. /\ HeapType(h) /\ ChunksApart(h) /\ Tiled(h) /\ PrevBits(h) /\ Footed(h)
      /\ Coalesced(h, {}) /\ Listed(h, {})
      /\ b \in Blocks(h) /\ ~IsFree(h, b)
  BY DEF Sound, SoundBut, Allocated
<1>. HIDE DEF b
<1>2. /\ HeapType(h0) /\ SameLayout(h, h0)
      /\ h0.free_lists = h.free_lists /\ h0.footer = h.footer /\ h0.fault = h.fault
      /\ h0.block[b].alloc = 0
      /\ \A x \in Blocks(h) \ {b} : h0.block[x].alloc = h.block[x].alloc
      /\ \A x \in Blocks(h) : h0.block[x].prev_alloc = h.block[x].prev_alloc
  <2>1. AllocSet(h, h0, b, 0)
    BY <1>1, SetAlloc
  <2>2. QED
    BY <2>1 DEF AllocSet
<1>3. /\ ChunksApart(h0) /\ Tiled(h0) /\ Blocks(h0) = Blocks(h)
      /\ \A x \in Blocks(h) : EndOf(h0, x) = EndOf(h, x)
  BY <1>1, <1>2, LayoutKept DEF SameLayout
<1>. HIDE DEF h0
<1>4. /\ HeapType(h1) /\ SameChunks(h0, h1)
      /\ h1.free_lists = h.free_lists /\ h1.block = h0.block /\ h1.fault = h.fault
      /\ DOMAIN h1.footer = DOMAIN h.footer \cup {EndOf(h, b) - SizeofFooter}
      /\ h1.footer[EndOf(h, b) - SizeofFooter].size = h.block[b].size
      /\ \A a \in DOMAIN h.footer \ {EndOf(h, b) - SizeofFooter} : h1.footer[a] = h.footer[a]
  BY <1>1, <1>2, <1>3, SetFooterFields DEF SameLayout
<1>5. /\ SameLayout(h, h1) /\ Blocks(h1) = Blocks(h)
      /\ ChunksApart(h1) /\ Tiled(h1)
      /\ \A x \in Blocks(h) : EndOf(h1, x) = EndOf(h, x)
  <2>1. SameLayout(h, h1)
    BY <1>2, <1>4 DEF SameLayout, SameChunks, Blocks
  <2>2. QED
    BY <1>1, <2>1, LayoutKept DEF SameLayout
<1>. HIDE DEF h1
<1>6. /\ HeapType(h2) /\ SameLayout(h1, h2)
      /\ h2.free_lists = h.free_lists /\ h2.footer = h1.footer /\ h2.fault = h.fault
      /\ \A x \in Blocks(h) : h2.block[x].alloc = h1.block[x].alloc
      /\ \A x \in Blocks(h) :
           h2.block[x].prev_alloc = IF x = EndOf(h, b) THEN 0 ELSE h1.block[x].prev_alloc
  BY <1>1, <1>4, <1>5, TellNextFields
<1>7. /\ SameLayout(h, h2) /\ Blocks(h2) = Blocks(h)
      /\ ChunksApart(h2) /\ Tiled(h2)
      /\ \A x \in Blocks(h) : EndOf(h2, x) = EndOf(h, x) /\ h2.block[x].size = h.block[x].size
  <2>1. SameLayout(h, h2)
    BY <1>5, <1>6 DEF SameLayout, SameChunks
  <2>2. QED
    BY <1>1, <2>1, LayoutKept DEF SameLayout
<1>8. /\ h2.block[b].alloc = 0
      /\ \A x \in Blocks(h) \ {b} : h2.block[x].alloc = h.block[x].alloc
      /\ \A x \in Blocks(h) :
           h2.block[x].prev_alloc = IF x = EndOf(h, b) THEN 0 ELSE h.block[x].prev_alloc
  BY <1>1, <1>2, <1>4, <1>6
\* The guard around the write to the right neighbour changes nothing: where it
\* is false the fence is closed.
<1>9. release(h, p) = g
  <2>1. i \in ChunkIds(h) /\ h.ch_array[i].end = h.ch_array[i].base + h.corr_size_arr[i]
    BY <1>1 DEF Tiled, InChunk, ChunksApart
  <2>2. h1.block[b].index = i /\ h1.ch_array = h.ch_array
    BY <1>1, <1>5 DEF SameLayout, SameChunks
  <2>6. HeapType(h1) /\ ChunksApart(h1) /\ Tiled(h1) /\ b \in Blocks(h1)
    BY <1>1, <1>4, <1>5
  <2>3. CASE EndOf(h, b) = h.ch_array[i].end
    <3>1. EndOf(h1, b) = h1.ch_array[h1.block[b].index].end
      BY <1>1, <1>5, <2>2, <2>3
    <3>2. is_next_outside_chunk(h1, b)
      BY <2>6, <3>1, NextBlock
    <3>3. tell_next(h1, b, 0) = h1
      BY <3>2 DEF tell_next
    <3>4. b \in DOMAIN h.block
      BY <1>1 DEF Blocks
    <3>5. QED
      BY <3>3, <3>4 DEF release, ptr_to_block, b, h1, h0
  <2>4. CASE EndOf(h, b) # h.ch_array[i].end
    <3>1. EndOf(h1, b) = EndOf(h, b) /\ h1.ch_array[h1.block[b].index].end = h.ch_array[i].end
      BY <1>1, <1>5, <2>2
    <3>2. EndOf(h1, b) # h1.ch_array[h1.block[b].index].end
      BY <2>4, <3>1
    <3>3. /\ get_next_block(h1, b) = EndOf(h1, b)
          /\ EndOf(h1, b) < h1.ch_array[h1.block[b].index].end
      BY <2>6, <3>2, NextBlock
    <3>4. get_next_block(h1, b) < h.ch_array[i].base + h.corr_size_arr[i]
      BY <2>1, <3>1, <3>3
    <3>5. b \in DOMAIN h.block
      BY <1>1 DEF Blocks
    <3>6. QED
      BY <3>4, <3>5 DEF release, ptr_to_block, b, h1, h0
  <2>5. QED
    BY <2>3, <2>4
<1>. HIDE DEF h2
<1>10. PrevBits(h2)
  <2>1. ASSUME NEW x \in Blocks(h), NEW y \in Blocks(h), EndOf(h, x) = y
        PROVE  h2.block[y].prev_alloc = h2.block[x].alloc
    <3>1. CASE x = b
      BY <1>8, <2>1, <3>1
    <3>2. CASE x # b
      <4>1. y # EndOf(h, b)
        BY <1>1, <2>1, <3>2, EndsDiffer
      <4>2. QED
        BY <1>1, <1>8, <2>1, <3>2, <4>1 DEF PrevBits
    <3>3. QED
      BY <3>1, <3>2
  <2>2. QED
    BY <1>7, <2>1 DEF PrevBits
<1>11. Footed(h2)
  <2>1. ASSUME NEW x \in Blocks(h)
        PROVE  /\ EndOf(h, x) - SizeofFooter \in DOMAIN h2.footer
               /\ h2.footer[EndOf(h, x) - SizeofFooter].size = h.block[x].size
    <3>1. CASE x = b
      BY <1>4, <1>6, <3>1
    <3>2. CASE x # b
      <4>1. EndOf(h, x) # EndOf(h, b) /\ EndOf(h, x) \in Nat /\ EndOf(h, b) \in Nat
        BY <1>1, <3>2, EndsDiffer, BlockType
      <4>2. EndOf(h, x) - SizeofFooter \in DOMAIN h.footer \ {EndOf(h, b) - SizeofFooter}
        BY <1>1, <4>1 DEF Footed, SizeofFooter
      <4>3. QED
        BY <1>1, <1>4, <1>6, <4>2 DEF Footed
    <3>3. QED
      BY <3>1, <3>2
  <2>2. QED
    BY <1>7, <2>1 DEF Footed
<1>12. Coalesced(h2, {b, EndOf(h2, b)})
  <2>1. ASSUME NEW x \in Blocks(h), NEW y \in Blocks(h), EndOf(h, x) = y,
               IsFree(h2, x), IsFree(h2, y), y # b, y # EndOf(h, b)
        PROVE  FALSE
    <3>1. x # b
      BY <2>1
    <3>2. IsFree(h, x) /\ IsFree(h, y)
      BY <1>8, <2>1, <3>1 DEF IsFree
    <3>3. QED
      BY <1>1, <2>1, <3>2 DEF Coalesced
  <2>2. QED
    BY <1>1, <1>7, <2>1 DEF Coalesced
<1>13. Listed(h2, {b})
  <2>1. \A x \in Blocks(h) \ {b} : /\ IsFree(h2, x) <=> IsFree(h, x)
                                   /\ h2.block[x].size = h.block[x].size
    BY <1>7, <1>8 DEF IsFree
  <2>2. ASSUME NEW j \in FreeLists, NEW k \in DOMAIN h.free_lists[j]
        PROVE  LET x == h.free_lists[j][k]
               IN  /\ x \in Blocks(h2) \ {b} /\ IsFree(h2, x)
                   /\ calculate_index(h2.block[x].size) = j
                   /\ \A m \in DOMAIN h.free_lists[j] : h.free_lists[j][m] = x => m = k
    BY <1>1, <1>7, <2>1 DEF Listed
  <2>3. ASSUME NEW x \in Blocks(h2) \ {b}, IsFree(h2, x)
        PROVE  x \in Elements(h.free_lists[calculate_index(h2.block[x].size)])
    BY <1>1, <1>7, <2>1, <2>3 DEF Listed
  <2>4. QED
    BY <1>6, <2>2, <2>3 DEF Listed
<1>14. SoundBut(h2, {b}, {b, EndOf(h2, b)}) /\ b \in Blocks(h2) /\ IsFree(h2, b)
  BY <1>1, <1>6, <1>7, <1>8, <1>10, <1>11, <1>12, <1>13 DEF SoundBut, IsFree
<1>15. Released(h, h2, b)
  BY <1>6, <1>7, <1>8, <1>14 DEF Released
<1>16. QED
  BY <1>9, <1>15 DEF b

\* my_free of a live block leaves a sound heap, in which that block is no
\* longer allocated and all others are as they were.
LEMMA ReleaseSound ==
  ASSUME NEW h, Sound(h), NEW p, p - kMetadataSize \in Allocated(h), p \in Int
  PROVE  LET g == release(h, p)
         IN  /\ Sound(g) /\ SameChunks(h, g) /\ g.fault = h.fault
             /\ Allocated(g) = Allocated(h) \ {p - kMetadataSize}
             /\ \A x \in Allocated(g) : g.block[x].size = h.block[x].size
             /\ Blocks(g) \subseteq Blocks(h)
<1>. DEFINE b == p - kMetadataSize
            g == release(h, p)
<1>1. PICK h2 : Released(h, h2, b) /\ g = freeing_up(h2, b)
  BY ReleaseParts
<1>2. b \in Blocks(h) /\ ~IsFree(h, b)
  BY DEF Allocated
<1>. HIDE DEF b, g
<1>3. /\ SoundBut(h2, {b}, {b, EndOf(h2, b)}) /\ b \in Blocks(h2) /\ IsFree(h2, b)
      /\ SameLayout(h, h2) /\ h2.fault = h.fault
      /\ \A x \in Blocks(h) \ {b} : h2.block[x].alloc = h.block[x].alloc
  BY <1>1 DEF Released
<1>4. /\ Sound(g) /\ SameChunks(h2, g) /\ SameAllocated(h2, g) /\ g.fault = h2.fault
      /\ Blocks(g) \subseteq Blocks(h2)
  BY <1>1, <1>3, FreeingUpSound
<1>5. /\ Allocated(h2) = Allocated(h) \ {b}
      /\ \A x \in Allocated(h2) : h2.block[x].size = h.block[x].size
  BY <1>3 DEF Allocated, IsFree, SameLayout
<1>6. QED
  BY <1>3, <1>4, <1>5 DEF b, g, SameLayout, SameChunks, SameAllocated

-----------------------------------------------------------------------------
(* split_block *)

\* g is h with the upper n bytes of the free block b cut off.
Splits(h, g, b, n) ==
  LET right == EndOf(h, b) - n
  IN  /\ HeapType(g) /\ SameChunks(h, g)
      /\ g.free_lists = h.free_lists /\ g.fault = h.fault
      /\ right \notin Blocks(h) /\ Blocks(g) = Blocks(h) \cup {right}
      /\ g.block[right] = [size |-> n, alloc |-> 0, prev_alloc |-> 0, index |-> h.block[b].index]
      /\ g.block[b].size = h.block[b].size - n
      /\ g.block[b].index = h.block[b].index
      /\ g.block[b].alloc = 0 /\ g.block[b].prev_alloc = h.block[b].prev_alloc
      /\ \A x \in Blocks(h) \ {b} : g.block[x] = h.block[x]
      /\ DOMAIN h.footer \subseteq DOMAIN g.footer
      /\ right - SizeofFooter \in DOMAIN g.footer
      /\ g.footer[right - SizeofFooter].size = h.block[b].size - n
      /\ EndOf(h, b) - SizeofFooter \in DOMAIN g.footer
      /\ g.footer[EndOf(h, b) - SizeofFooter].size = n
      /\ \A a \in DOMAIN h.footer \ {right - SizeofFooter, EndOf(h, b) - SizeofFooter} :
           g.footer[a] = h.footer[a]

\* What split_block writes in the header of the part it gives back.
LEMMA FreeWithSize ==
  ASSUME NEW f \in Field, NEW s \in Nat
  PROVE  LET g == [f EXCEPT !.size = s, !.alloc = 0]
         IN  /\ g \in Field /\ g.size = s /\ g.alloc = 0
             /\ g.index = f.index /\ g.prev_alloc = f.prev_alloc
BY DEF Field

\* split_block changes the two halves and the block after them alone.
LEMMA SplitFields ==
  ASSUME NEW h, HeapType(h), ChunksApart(h), Tiled(h), NEW b \in Blocks(h),
         NEW n \in Nat, n >= 32, h.block[b].size - n >= 32
  PROVE  /\ split_block(h, b, n).right = EndOf(h, b) - n
         /\ Splits(h, split_block(h, b, n).heap, b, n)
<1>. DEFINE i     == h.block[b].index
            left  == [h.block[b] EXCEPT !.size = h.block[b].size - n, !.alloc = 0]
            h1    == [h EXCEPT !.block[b].size = @ - n, !.block[b].alloc = 0]
            right == get_next_block(h1, b)
            hdr   == [size |-> n, alloc |-> 0, prev_alloc |-> 0, index |-> h.block[b].index]
            B     == [x \in DOMAIN h.block \cup {right} |-> IF x = right THEN hdr ELSE h1.block[x]]
            h2    == [h1 EXCEPT !.block = B]
            h3    == set_footer(h2, b)
            h4    == set_footer(h3, right)
<1>1. /\ b \in Nat /\ h.block[b] \in Field /\ h.block[b].size \in Nat /\ i \in Nat
      /\ EndOf(h, b) \in Nat /\ EndOf(h, b) = b + h.block[b].size
      /\ h.block[b].prev_alloc \in {0, 1}
  BY BlockType DEF EndOf
<1>2. split_block(h, b, n) = [heap |-> h4, right |-> right]
  BY DEF split_block
<1>3. /\ left \in Field /\ left.size = h.block[b].size - n /\ left.alloc = 0
      /\ left.index = i /\ left.prev_alloc = h.block[b].prev_alloc
  <2>1. h.block[b].size - n \in Nat
    BY <1>1
  <2>2. QED
    BY <1>1, <2>1, FreeWithSize
<1>4. h1 = [h EXCEPT !.block = [h.block EXCEPT ![b] = left]]
  BY DEF HeapType, Blocks
<1>. HIDE DEF left, h1
<1>5. /\ h1.block[b] = left /\ \A x \in Blocks(h) \ {b} : h1.block[x] = h.block[x]
      /\ DOMAIN h1.block = Blocks(h)
      /\ h1 = [index_last_chunk_from_OS |-> h.index_last_chunk_from_OS,
               ch_array |-> h.ch_array, corr_size_arr |-> h.corr_size_arr,
               free_lists |-> h.free_lists, block |-> h1.block,
               footer |-> h.footer, fault |-> h.fault]
  BY <1>4 DEF HeapType, Blocks
<1>6. right = EndOf(h, b) - n
  <2>1. /\ i \in ChunkIds(h) /\ EndOf(h, b) <= h.ch_array[i].end
        /\ h.ch_array[i].end = h.ch_array[i].base + h.corr_size_arr[i]
    BY DEF Tiled, InChunk, ChunksApart
  <2>2. h.ch_array[i].end \in Nat
    BY <2>1, ChunkType
  <2>3. /\ h1.block[b].index = i /\ h1.block[b].size = h.block[b].size - n
        /\ h1.ch_array = h.ch_array /\ h1.corr_size_arr = h.corr_size_arr
    BY <1>3, <1>5
  <2>4. b + (h.block[b].size - n) < h.ch_array[i].base + h.corr_size_arr[i]
    BY <1>1, <2>1, <2>2
  <2>5. right = b + (h.block[b].size - n)
    BY <2>3, <2>4 DEF get_next_block, get_size
  <2>6. QED
    BY <1>1, <2>5
<1>. HIDE DEF right
<1>7. right \in Nat \ {0} /\ b < right /\ right < EndOf(h, b)
  BY <1>1, <1>6
<1>8. right \notin Blocks(h)
  BY <1>1, <1>7 DEF Tiled
<1>9. /\ DOMAIN B = Blocks(h) \cup {right} /\ B[right] = hdr /\ B[b] = left
      /\ \A x \in Blocks(h) \ {b} : B[x] = h.block[x]
  BY <1>5, <1>7, <1>8 DEF Blocks
<1>10. hdr \in Field
  BY <1>1 DEF Field
<1>11. B \in [Blocks(h) \cup {right} -> Field]
  <2>1. ASSUME NEW x \in Blocks(h) \cup {right} PROVE B[x] \in Field
    <3>1. CASE x = right
      BY <1>9, <1>10, <3>1
    <3>2. CASE x = b
      BY <1>3, <1>9, <3>2
    <3>3. CASE x \in Blocks(h) \ {b}
      BY <1>9, <3>3, BlockType
    <3>4. QED
      BY <3>1, <3>2, <3>3
  <2>2. QED
    BY <1>9, <2>1
<1>. HIDE DEF B
<1>12. h2 = [index_last_chunk_from_OS |-> h.index_last_chunk_from_OS,
             ch_array |-> h.ch_array, corr_size_arr |-> h.corr_size_arr,
             free_lists |-> h.free_lists, block |-> B,
             footer |-> h.footer, fault |-> h.fault]
  BY <1>5
<1>. HIDE DEF h2
<1>13. HeapType(h2) /\ Blocks(h2) = Blocks(h) \cup {right}
  <2>1. Blocks(h2) = Blocks(h) \cup {right}
    BY <1>9, <1>12 DEF Blocks
  <2>2. QED
    BY <1>7, <1>11, <1>12, <2>1 DEF HeapType, ChunkIds, NULL
<1>14. /\ EndOf(h2, b) = right /\ EndOf(h2, right) = EndOf(h, b)
       /\ h2.block = B /\ B[b].size = h.block[b].size - n /\ B[right].size = n
  BY <1>1, <1>3, <1>6, <1>9, <1>12 DEF EndOf
<1>15. /\ HeapType(h3) /\ SameChunks(h2, h3)
       /\ h3.free_lists = h2.free_lists /\ h3.block = h2.block /\ h3.fault = h2.fault
       /\ DOMAIN h3.footer = DOMAIN h2.footer \cup {right - SizeofFooter}
       /\ h3.footer[right - SizeofFooter].size = h.block[b].size - n
       /\ \A a \in DOMAIN h2.footer \ {right - SizeofFooter} : h3.footer[a] = h2.footer[a]
  BY <1>13, <1>14, SetFooterFields
<1>16. right \in Blocks(h3) /\ EndOf(h3, right) = EndOf(h, b) /\ h3.block[right].size = n
  BY <1>13, <1>14, <1>15 DEF Blocks, EndOf
<1>. HIDE DEF h3
<1>17. /\ HeapType(h4) /\ SameChunks(h3, h4)
       /\ h4.free_lists = h3.free_lists /\ h4.block = h3.block /\ h4.fault = h3.fault
       /\ DOMAIN h4.footer = DOMAIN h3.footer \cup {EndOf(h, b) - SizeofFooter}
       /\ h4.footer[EndOf(h, b) - SizeofFooter].size = n
       /\ \A a \in DOMAIN h3.footer \ {EndOf(h, b) - SizeofFooter} : h4.footer[a] = h3.footer[a]
  BY <1>15, <1>16, SetFooterFields
<1>. HIDE DEF h4
<1>18. SameChunks(h, h4) /\ h4.free_lists = h.free_lists /\ h4.fault = h.fault /\ h4.block = B
  BY <1>12, <1>15, <1>17 DEF SameChunks
<1>19. right - SizeofFooter # EndOf(h, b) - SizeofFooter
  BY <1>1, <1>7 DEF SizeofFooter
<1>20. /\ DOMAIN h4.footer = (DOMAIN h.footer \cup {right - SizeofFooter}) \cup {EndOf(h, b) - SizeofFooter}
       /\ h4.footer[right - SizeofFooter].size = h.block[b].size - n
       /\ \A a \in DOMAIN h.footer \ {right - SizeofFooter, EndOf(h, b) - SizeofFooter} :
            h4.footer[a] = h.footer[a]
  BY <1>12, <1>15, <1>17, <1>19
<1>21. Splits(h, h4, b, n)
  BY <1>3, <1>6, <1>8, <1>9, <1>17, <1>18, <1>20 DEF Splits, Blocks
<1>22. QED
  BY <1>2, <1>6, <1>21

\* The two parts of a split block tile what it covered.
LEMMA SplitTiled ==
  ASSUME NEW h, HeapType(h), ChunksApart(h), Tiled(h), Footed(h), NEW b \in Blocks(h),
         NEW n \in Nat, n >= 32, h.block[b].size - n >= 32, NEW g, Splits(h, g, b, n)
  PROVE  /\ ChunksApart(g) /\ Tiled(g) /\ Footed(g)
         /\ EndOf(g, b) = EndOf(h, b) - n /\ EndOf(g, EndOf(h, b) - n) = EndOf(h, b)
         /\ \A x \in Blocks(h) \ {b} : EndOf(g, x) = EndOf(h, x)
<1>. DEFINE r == EndOf(h, b) - n
<1>1. \A x \in Blocks(h) : /\ x \in Nat /\ h.block[x].size \in Nat /\ h.block[x].size >= 32
                           /\ EndOf(h, x) \in Nat /\ EndOf(h, x) = x + h.block[x].size
  BY BlockType DEF Tiled, EndOf, kMetadataSize, SizeofFooter
<1>2. r \in Nat /\ b < r /\ r < EndOf(h, b)
  BY <1>1
<1>3. /\ SameChunks(h, g) /\ r \notin Blocks(h) /\ Blocks(g) = Blocks(h) \cup {r}
      /\ g.block[r].size = n /\ g.block[r].index = h.block[b].index
      /\ g.block[b].size = h.block[b].size - n /\ g.block[b].index = h.block[b].index
      /\ \A x \in Blocks(h) \ {b} : g.block[x] = h.block[x]
  BY DEF Splits
<1>4. /\ ChunkIds(g) = ChunkIds(h) /\ g.ch_array = h.ch_array /\ g.corr_size_arr = h.corr_size_arr
  BY <1>3 DEF SameChunks, ChunkIds
<1>5. /\ EndOf(g, b) = r /\ EndOf(g, r) = EndOf(h, b)
      /\ \A x \in Blocks(h) \ {b} : EndOf(g, x) = EndOf(h, x)
      /\ \A x \in Blocks(h) : g.block[x].index = h.block[x].index
  BY <1>1, <1>2, <1>3 DEF EndOf
<1>. HIDE DEF r
<1>6. ChunksApart(g)
  BY <1>4 DEF ChunksApart
<1>7. Tiled(g)
  <2>1. ASSUME NEW i \in ChunkIds(g)
        PROVE  g.ch_array[i].start \in Blocks(g) /\ g.block[g.ch_array[i].start].index = i
    BY <1>3, <1>4, <1>5 DEF Tiled
  <2>2. ASSUME NEW x \in Blocks(h)
        PROVE  InChunk(g, x)
    <3>. DEFINE i == h.block[x].index
                c == h.ch_array[i]
    <3>1. InChunk(h, x) /\ c.end \in Nat
      BY ChunkType DEF Tiled, InChunk
    <3>2. /\ EndOf(g, x) <= c.end
          /\ EndOf(g, x) = c.end \/ (EndOf(g, x) \in Blocks(g) /\ g.block[EndOf(g, x)].index = i)
      <4>1. CASE x = b
        BY <1>1, <1>2, <1>3, <1>5, <3>1, <4>1 DEF InChunk
      <4>2. CASE x # b
        BY <1>3, <1>5, <3>1, <4>2 DEF InChunk
      <4>3. QED
        BY <4>1, <4>2
    <3>3. x = c.start \/ \E q \in Blocks(g) : EndOf(g, q) = x /\ g.block[q].index = i
      <4>1. ASSUME x # c.start
            PROVE  \E q \in Blocks(g) : EndOf(g, q) = x /\ g.block[q].index = i
        <5>1. PICK q \in Blocks(h) : EndOf(h, q) = x /\ h.block[q].index = i
          BY <3>1, <4>1 DEF InChunk
        <5>2. CASE q = b
          BY <1>3, <1>5, <5>1, <5>2
        <5>3. CASE q # b
          BY <1>3, <1>5, <5>1, <5>3
        <5>4. QED
          BY <5>2, <5>3
      <4>2. QED
        BY <4>1
    <3>4. QED
      BY <1>4, <1>5, <3>1, <3>2, <3>3 DEF InChunk
  <2>3. InChunk(g, r)
    <3>1. InChunk(h, b)
      BY DEF Tiled
    <3>2. EndOf(h, b) # b
      BY <1>1
    <3>3. h.ch_array[h.block[b].index].start <= r
      BY <1>1, <1>2, <3>1, ChunkType DEF InChunk
    <3>4. QED
      BY <1>3, <1>4, <1>5, <3>1, <3>2, <3>3 DEF InChunk
  <2>4. \A x \in Blocks(g) : g.block[x].size >= kMetadataSize + SizeofFooter
    BY <1>1, <1>3 DEF kMetadataSize, SizeofFooter
  <2>5. ASSUME NEW x \in Blocks(g), NEW y \in Blocks(g), x < y PROVE EndOf(g, x) <= y
    <3>1. CASE x \in Blocks(h) \ {b} /\ y \in Blocks(h)
      BY <1>5, <2>5, <3>1 DEF Tiled
    <3>2. CASE x \in Blocks(h) \ {b} /\ y = r
      <4>1. x < b \/ b < x
        BY <1>1, <3>2
      <4>2. CASE x < b
        <5>1. EndOf(h, x) <= b /\ EndOf(h, x) \in Nat /\ b \in Nat
          BY <1>1, <3>2, <4>2 DEF Tiled
        <5>2. EndOf(g, x) = EndOf(h, x)
          BY <1>5, <3>2
        <5>3. QED
          BY <1>2, <3>2, <5>1, <5>2
      <4>3. CASE b < x
        <5>1. EndOf(h, b) <= x /\ x \in Nat /\ EndOf(h, b) \in Nat
          BY <1>1, <3>2, <4>3 DEF Tiled
        <5>2. QED
          BY <1>2, <2>5, <3>2, <5>1
      <4>4. QED
        BY <4>1, <4>2, <4>3
    <3>3. CASE x = b /\ y \in Blocks(h)
      <4>1. EndOf(h, b) <= y
        BY <2>5, <3>3 DEF Tiled
      <4>2. QED
        BY <1>1, <1>2, <1>5, <3>3, <4>1
    <3>4. CASE x = b /\ y = r
      BY <1>2, <1>5, <3>4
    <3>5. CASE x = r /\ y \in Blocks(h)
      <4>1. b < y
        <5>1. y \in Nat /\ b \in Nat
          BY <1>1, <3>5
        <5>2. QED
          BY <1>2, <2>5, <3>5, <5>1
      <4>2. QED
        BY <1>5, <3>5, <4>1 DEF Tiled
    <3>6. CASE x = r /\ y = r
      BY <1>2, <2>5, <3>6
    <3>7. QED
      BY <1>3, <3>1, <3>2, <3>3, <3>4, <3>5, <3>6
  <2>6. QED
    BY <1>3, <2>1, <2>2, <2>3, <2>4, <2>5 DEF Tiled
<1>8. Footed(g)
  <2>1. /\ r - SizeofFooter \in DOMAIN g.footer
        /\ g.footer[r - SizeofFooter].size = h.block[b].size - n
        /\ EndOf(h, b) - SizeofFooter \in DOMAIN g.footer
        /\ g.footer[EndOf(h, b) - SizeofFooter].size = n
        /\ DOMAIN h.footer \subseteq DOMAIN g.footer
        /\ \A a \in DOMAIN h.footer \ {r - SizeofFooter, EndOf(h, b) - SizeofFooter} :
             g.footer[a] = h.footer[a]
    BY DEF Splits, r
  <2>2. ASSUME NEW x \in Blocks(h), x # b
        PROVE  /\ EndOf(g, x) - SizeofFooter \in DOMAIN g.footer
               /\ g.footer[EndOf(g, x) - SizeofFooter].size = g.block[x].size
    <3>1. EndOf(h, x) # EndOf(h, b)
      BY <2>2, EndsDiffer
    <3>2. EndOf(h, x) # r
      <4>1. x < b \/ b < x
        BY <1>1, <2>2
      <4>2. CASE x < b
        <5>1. EndOf(h, x) <= b
          BY <4>2 DEF Tiled
        <5>2. QED
          BY <1>1, <1>2, <5>1
      <4>3. CASE b < x
        <5>1. EndOf(h, b) <= x
          BY <4>3 DEF Tiled
        <5>2. QED
          BY <1>1, <1>2, <5>1
      <4>4. QED
        BY <4>1, <4>2, <4>3
    <3>3. EndOf(h, x) - SizeofFooter \in DOMAIN h.footer \ {r - SizeofFooter, EndOf(h, b) - SizeofFooter}
      BY <1>1, <1>2, <3>1, <3>2 DEF Footed, SizeofFooter
    <3>4. QED
      BY <1>3, <1>5, <2>1, <2>2, <3>3 DEF Footed
  <2>3. QED
    BY <1>3, <1>5, <2>1, <2>2 DEF Footed
<1>9. QED
  BY <1>5, <1>6, <1>7, <1>8 DEF r
-----------------------------------------------------------------------------
(* The block my_malloc hands out *)

\* g is h with the free block b out of its list and its right neighbour told
\* that b is allocated.
Taken(h, g, b) ==
  /\ HeapType(g) /\ SameLayout(h, g) /\ g.footer = h.footer /\ g.fault = h.fault
  /\ \A x \in Blocks(h) : g.block[x].alloc = h.block[x].alloc
  /\ \A x \in Blocks(h) :
       g.block[x].prev_alloc = IF x = EndOf(h, b) THEN 1 ELSE h.block[x].prev_alloc
  /\ Listed(g, {b})

\* What my_malloc changes to take a block from its list.
LEMMA TakenFields ==
  ASSUME NEW h, Sound(h), NEW b \in Blocks(h), IsFree(h, b)
  PROVE  Taken(h, remove_from_free_list(tell_next(h, b, 1), b), b)
<1>. DEFINE t == tell_next(h, b, 1)
            g == remove_from_free_list(t, b)
<1>1. HeapType(h) /\ ChunksApart(h) /\ Tiled(h) /\ Listed(h, {})
  BY DEF Sound, SoundBut
<1>2. /\ HeapType(t) /\ SameLayout(h, t)
      /\ t.free_lists = h.free_lists /\ t.footer = h.footer /\ t.fault = h.fault
      /\ \A x \in Blocks(h) : t.block[x].alloc = h.block[x].alloc
      /\ \A x \in Blocks(h) :
           t.block[x].prev_alloc = IF x = EndOf(h, b) THEN 1 ELSE h.block[x].prev_alloc
  BY <1>1, TellNextFields
<1>. HIDE DEF t
<1>3. /\ Blocks(t) = Blocks(h)
      /\ \A x \in Blocks(h) : /\ t.block[x].size = h.block[x].size
                              /\ IsFree(t, x) <=> IsFree(h, x)
  BY <1>2 DEF SameLayout, IsFree
<1>4. Listed(t, {})
  BY <1>1, <1>2, <1>3 DEF Listed
<1>5. /\ HeapType(g) /\ SameChunks(t, g)
      /\ g.block = t.block /\ g.footer = t.footer /\ g.fault = t.fault
      /\ Listed(g, {} \cup {b})
  BY <1>2, <1>3, <1>4, RemoveFields
<1>6. Listed(g, {b})
  <2>1. {} \cup {b} = {b}
    OBVIOUS
  <2>2. QED
    BY <1>5, <2>1
<1>7. SameLayout(h, g)
  BY <1>2, <1>5 DEF SameLayout, SameChunks, Blocks
<1>8. QED
  BY <1>2, <1>5, <1>6, <1>7 DEF Taken, t

\* g is h with one more allocated block, a, of n bytes or more.
Allocates(h, g, a, n) ==
  /\ Sound(g) /\ SameChunks(h, g) /\ g.fault = h.fault
  /\ a \notin Allocated(h) /\ Allocated(g) = Allocated(h) \cup {a}
  /\ g.block[a].size >= n
  /\ \A x \in Allocated(h) : g.block[x].size = h.block[x].size
  /\ Blocks(g) \subseteq Blocks(h) \cup {a}

\* Without a split: the rest of the block would hold no block.
LEMMA AllocateWhole ==
  ASSUME NEW h, Sound(h), NEW b \in Blocks(h), IsFree(h, b), NEW t, Taken(h, t, b),
         NEW n \in Nat, h.block[b].size >= n
  PROVE  Allocates(h, [t EXCEPT !.block[b].alloc = 1], b, n)
<1>. DEFINE g == [t EXCEPT !.block[b].alloc = 1]
<1>1. /\ HeapType(h) /\ ChunksApart(h) /\ Tiled(h) /\ PrevBits(h) /\ Footed(h)
      /\ Coalesced(h, {})
  BY DEF Sound, SoundBut
<1>2. /\ HeapType(t) /\ SameLayout(h, t) /\ t.footer = h.footer /\ t.fault = h.fault
      /\ \A x \in Blocks(h) : t.block[x].alloc = h.block[x].alloc
      /\ \A x \in Blocks(h) :
           t.block[x].prev_alloc = IF x = EndOf(h, b) THEN 1 ELSE h.block[x].prev_alloc
      /\ Listed(t, {b}) /\ Blocks(t) = Blocks(h)
  BY DEF Taken, SameLayout
<1>3. /\ HeapType(g) /\ SameLayout(t, g)
      /\ g.free_lists = t.free_lists /\ g.footer = t.footer /\ g.fault = t.fault
      /\ g.block[b].alloc = 1
      /\ \A x \in Blocks(t) \ {b} : g.block[x].alloc = t.block[x].alloc
      /\ \A x \in Blocks(t) : g.block[x].prev_alloc = t.block[x].prev_alloc
  <2>1. AllocSet(t, g, b, 1)
    BY <1>2, SetAlloc
  <2>2. QED
    BY <2>1 DEF AllocSet
<1>. HIDE DEF g
<1>4. /\ SameLayout(h, g) /\ Blocks(g) = Blocks(h)
      /\ \A x \in Blocks(h) : g.block[x].size = h.block[x].size
  BY <1>2, <1>3 DEF SameLayout, SameChunks
<1>5. /\ ChunksApart(g) /\ Tiled(g)
      /\ \A x \in Blocks(h) : EndOf(g, x) = EndOf(h, x)
  BY <1>1, <1>4, LayoutKept
<1>6. PrevBits(g)
  <2>1. ASSUME NEW x \in Blocks(h), NEW y \in Blocks(h), EndOf(h, x) = y
        PROVE  g.block[y].prev_alloc = g.block[x].alloc
    <3>1. CASE x = b
      BY <1>2, <1>3, <2>1, <3>1
    <3>2. CASE x # b
      <4>1. y # EndOf(h, b)
        BY <1>1, <2>1, <3>2, EndsDiffer
      <4>2. QED
        BY <1>1, <1>2, <1>3, <2>1, <3>2, <4>1 DEF PrevBits
    <3>3. QED
      BY <3>1, <3>2
  <2>2. QED
    BY <1>4, <1>5, <2>1 DEF PrevBits
<1>7. Footed(g)
  BY <1>1, <1>2, <1>3, <1>4, <1>5 DEF Footed
<1>8. \A x \in Blocks(h) : IsFree(g, x) <=> (x # b /\ IsFree(h, x))
  BY <1>2, <1>3 DEF IsFree
<1>9. Coalesced(g, {})
  BY <1>1, <1>4, <1>5, <1>8 DEF Coalesced
<1>10. Listed(g, {})
  <2>1. \A x \in Blocks(h) \ {b} : /\ IsFree(g, x) <=> IsFree(t, x)
                                   /\ g.block[x].size = t.block[x].size
    BY <1>2, <1>3 DEF IsFree, SameLayout
  <2>2. ASSUME NEW i \in FreeLists, NEW k \in DOMAIN t.free_lists[i]
        PROVE  LET x == t.free_lists[i][k]
               IN  /\ x \in Blocks(g) \ {} /\ IsFree(g, x)
                   /\ calculate_index(g.block[x].size) = i
                   /\ \A j \in DOMAIN t.free_lists[i] : t.free_lists[i][j] = x => j = k
    BY <1>2, <1>4, <2>1 DEF Listed
  <2>3. ASSUME NEW x \in Blocks(g) \ {}, IsFree(g, x)
        PROVE  x \in Elements(t.free_lists[calculate_index(g.block[x].size)])
    <3>1. x \in Blocks(t) \ {b} /\ x \in Blocks(h) \ {b}
      BY <1>2, <1>4, <1>8, <2>3
    <3>2. IsFree(t, x) /\ g.block[x].size = t.block[x].size
      BY <2>1, <2>3, <3>1
    <3>3. QED
      BY <1>2, <3>1, <3>2 DEF Listed
  <2>4. QED
    BY <1>3, <2>2, <2>3 DEF Listed
<1>11. b \notin Allocated(h) /\ Allocated(g) = Allocated(h) \cup {b}
  BY <1>4, <1>8 DEF Allocated
<1>12. QED
  BY <1>2, <1>3, <1>4, <1>5, <1>6, <1>7, <1>9, <1>10, <1>11
     DEF Allocates, Sound, SoundBut, SameLayout, Allocated, g

\* The heap in which my_malloc has split b, and marked its upper n bytes.
Cut(t, b, n) ==
  LET cut == split_block(t, b, n)
  IN  set_footer([cut.heap EXCEPT !.block[cut.right].alloc = 1], cut.right)

\* g is h with the lists of t, and the upper n bytes of b an allocated block.
CutsOff(h, t, g, b, n) ==
  LET r == EndOf(h, b) - n
  IN  /\ SoundBut(g, {b}, {b, EndOf(g, b)}) /\ b \in Blocks(g) /\ IsFree(g, b)
      /\ SameChunks(h, g) /\ g.free_lists = t.free_lists /\ g.fault = h.fault
      /\ r \notin Blocks(h) /\ Blocks(g) = Blocks(h) \cup {r}
      /\ g.block[r].size = n /\ g.block[r].index = h.block[b].index
      /\ g.block[r].alloc = 1 /\ g.block[r].prev_alloc = 0
      /\ g.block[b].size = h.block[b].size - n
      /\ \A x \in Blocks(h) \ {b} : g.block[x].size = h.block[x].size
      /\ \A x \in Blocks(h) : g.block[x].index = h.block[x].index
      /\ \A x \in Blocks(h) : g.block[x].alloc = h.block[x].alloc
      /\ \A x \in Blocks(h) :
           g.block[x].prev_alloc = IF x = EndOf(h, b) THEN 1 ELSE h.block[x].prev_alloc
      /\ EndOf(g, b) = r

\* With a split: the lower part, found through the footer below the block
\* handed out, is in no list yet.
LEMMA CutFields ==
  ASSUME NEW h, Sound(h), NEW b \in Blocks(h), IsFree(h, b), NEW t, Taken(h, t, b),
         NEW n \in Nat, n >= 32, h.block[b].size - n >= 32
  PROVE  LET r == EndOf(h, b) - n
         IN  /\ split_block(t, b, n).right = r
             /\ r - Cut(t, b, n).footer[r - SizeofFooter].size = b
             /\ CutsOff(h, t, Cut(t, b, n), b, n)
<1>. DEFINE r  == EndOf(h, b) - n
            k  == split_block(t, b, n).heap
            k1 == [k EXCEPT !.block[r].alloc = 1]
            h3 == set_footer(k1, r)
<1>1. /\ HeapType(h) /\ ChunksApart(h) /\ Tiled(h) /\ PrevBits(h) /\ Footed(h)
      /\ Coalesced(h, {})
  BY DEF Sound, SoundBut
<1>2. /\ HeapType(t) /\ SameLayout(h, t) /\ t.footer = h.footer /\ t.fault = h.fault
      /\ \A x \in Blocks(h) : t.block[x].alloc = h.block[x].alloc
      /\ \A x \in Blocks(h) :
           t.block[x].prev_alloc = IF x = EndOf(h, b) THEN 1 ELSE h.block[x].prev_alloc
      /\ Listed(t, {b}) /\ Blocks(t) = Blocks(h)
      /\ \A x \in Blocks(h) : t.block[x].size = h.block[x].size
  BY DEF Taken, SameLayout
<1>3. /\ ChunksApart(t) /\ Tiled(t) /\ Footed(t)
      /\ \A x \in Blocks(h) : EndOf(t, x) = EndOf(h, x)
  <2>1. /\ ChunksApart(t) /\ Tiled(t)
        /\ \A x \in Blocks(h) : EndOf(t, x) = EndOf(h, x)
    BY <1>1, <1>2, LayoutKept
  <2>2. Footed(t)
    BY <1>1, <1>2, <2>1 DEF Footed
  <2>3. QED
    BY <2>1, <2>2
<1>4. split_block(t, b, n).right = r /\ Splits(t, k, b, n)
  <2>1. b \in Blocks(t) /\ t.block[b].size - n >= 32 /\ EndOf(t, b) - n = r
    BY <1>2, <1>3
  <2>2. QED
    BY <1>2, <1>3, <2>1, SplitFields
<1>. HIDE DEF k
<1>5. /\ HeapType(k) /\ SameChunks(t, k)
      /\ k.free_lists = t.free_lists /\ k.fault = t.fault
      /\ r \notin Blocks(h) /\ Blocks(k) = Blocks(h) \cup {r}
      /\ k.block[r] = [size |-> n, alloc |-> 0, prev_alloc |-> 0, index |-> t.block[b].index]
      /\ k.block[b].size = h.block[b].size - n
      /\ k.block[b].alloc = 0 /\ k.block[b].prev_alloc = t.block[b].prev_alloc
      /\ \A x \in Blocks(h) \ {b} : k.block[x] = t.block[x]
  BY <1>2, <1>3, <1>4 DEF Splits
<1>25. k.block[r].size = n /\ k.block[r].prev_alloc = 0
  <2>1. k.block[r] = [size |-> n, alloc |-> 0, prev_alloc |-> 0, index |-> t.block[b].index]
    BY <1>5
  <2>2. QED
    BY <2>1
<1>26. \A x \in Blocks(h) \ {b} : k.block[x] = t.block[x]
  BY <1>5
<1>6. /\ ChunksApart(k) /\ Tiled(k) /\ Footed(k)
      /\ EndOf(k, b) = r /\ EndOf(k, r) = EndOf(h, b)
      /\ \A x \in Blocks(h) \ {b} : EndOf(k, x) = EndOf(h, x)
  BY <1>2, <1>3, <1>4, SplitTiled
<1>. HIDE DEF r
<1>7. /\ r \in Blocks(k) /\ r \notin Blocks(h) /\ Blocks(k) = Blocks(h) \cup {r}
      /\ b \in Blocks(k) /\ b # r
  BY <1>5
<1>8. /\ HeapType(k1) /\ SameLayout(k, k1)
      /\ k1.free_lists = k.free_lists /\ k1.footer = k.footer /\ k1.fault = k.fault
      /\ k1.block[r].alloc = 1
      /\ \A x \in Blocks(k) \ {r} : k1.block[x].alloc = k.block[x].alloc
      /\ \A x \in Blocks(k) : k1.block[x].prev_alloc = k.block[x].prev_alloc
      /\ Blocks(k1) = Blocks(k)
  <2>1. AllocSet(k, k1, r, 1)
    BY <1>5, <1>7, SetAlloc
  <2>2. QED
    BY <2>1 DEF AllocSet, SameLayout
<1>. HIDE DEF k1
<1>9. /\ ChunksApart(k1) /\ Tiled(k1)
      /\ \A x \in Blocks(k) : EndOf(k1, x) = EndOf(k, x)
  BY <1>6, <1>8, LayoutKept
<1>10. /\ HeapType(h3) /\ SameChunks(k1, h3)
       /\ h3.free_lists = k1.free_lists /\ h3.block = k1.block /\ h3.fault = k1.fault
       /\ DOMAIN h3.footer = DOMAIN k.footer \cup {EndOf(h, b) - SizeofFooter}
       /\ h3.footer[EndOf(h, b) - SizeofFooter].size = k1.block[r].size
       /\ \A a \in DOMAIN k.footer \ {EndOf(h, b) - SizeofFooter} : h3.footer[a] = k.footer[a]
  <2>1. r \in Blocks(k1) /\ EndOf(k1, r) = EndOf(h, b)
    BY <1>6, <1>7, <1>8, <1>9
  <2>2. QED
    BY <1>8, <2>1, SetFooterFields
<1>. HIDE DEF h3
<1>11. /\ SameLayout(k, h3) /\ Blocks(h3) = Blocks(k)
       /\ ChunksApart(h3) /\ Tiled(h3)
       /\ \A x \in Blocks(k) : EndOf(h3, x) = EndOf(k, x) /\ h3.block[x].size = k.block[x].size
  <2>1. SameLayout(k, h3)
    BY <1>8, <1>10 DEF SameLayout, SameChunks, Blocks
  <2>2. QED
    BY <1>6, <2>1, LayoutKept DEF SameLayout
<1>12. Footed(h3)
  <2>1. ASSUME NEW x \in Blocks(k)
        PROVE  /\ EndOf(k, x) - SizeofFooter \in DOMAIN h3.footer
               /\ h3.footer[EndOf(k, x) - SizeofFooter].size = k.block[x].size
    <3>1. CASE x = r
      BY <1>6, <1>7, <1>8, <1>10, <3>1 DEF SameLayout
    <3>2. CASE x # r
      <4>0. HeapType(k) /\ Tiled(k) /\ r \in Blocks(k) /\ EndOf(k, r) = EndOf(h, b)
        BY <1>5, <1>6, <1>7
      <4>1. EndOf(k, x) # EndOf(h, b) /\ EndOf(k, x) \in Nat /\ EndOf(h, b) \in Nat
        BY <3>2, <4>0, EndsDiffer, BlockType
      <4>2. EndOf(k, x) - SizeofFooter \in DOMAIN k.footer \ {EndOf(h, b) - SizeofFooter}
        BY <1>6, <4>1 DEF Footed, SizeofFooter
      <4>3. QED
        BY <1>6, <1>10, <4>2 DEF Footed
    <3>3. QED
      BY <3>1, <3>2
  <2>2. QED
    BY <1>11, <2>1 DEF Footed
\* The status bits of the heap that is merged, all told.
<1>13. /\ h3.block[r].alloc = 1 /\ h3.block[r].prev_alloc = 0
       /\ \A x \in Blocks(h) : h3.block[x].alloc = h.block[x].alloc
       /\ \A x \in Blocks(h) :
            h3.block[x].prev_alloc = IF x = EndOf(h, b) THEN 1 ELSE h.block[x].prev_alloc
  <2>1. h3.block[r].alloc = 1 /\ h3.block[r].prev_alloc = 0
    <3>1. h3.block = k1.block
      BY <1>10
    <3>2. QED
      BY <1>7, <1>8, <1>25, <3>1
  <2>2. ASSUME NEW x \in Blocks(h)
        PROVE  /\ h3.block[x].alloc = h.block[x].alloc
               /\ h3.block[x].prev_alloc = IF x = EndOf(h, b) THEN 1 ELSE h.block[x].prev_alloc
    <3>1. x \in Blocks(k) \ {r}
      BY <1>5
    <3>2. k.block[x].alloc = t.block[x].alloc /\ k.block[x].prev_alloc = t.block[x].prev_alloc
      BY <1>2, <1>5 DEF IsFree
    <3>3. QED
      BY <1>2, <1>8, <1>10, <3>1, <3>2
  <2>3. QED
    BY <2>1, <2>2
<1>14. /\ b \in Blocks(h3) /\ IsFree(h3, b) /\ b # r
       /\ ~IsFree(h3, r)
       /\ \A x \in Blocks(h) : IsFree(h3, x) <=> IsFree(h, x)
  <2>1. b \in Blocks(h3) /\ b # r
    BY <1>7, <1>11
  <2>2. ~IsFree(h3, r)
    BY <1>13 DEF IsFree
  <2>3. \A x \in Blocks(h) : IsFree(h3, x) <=> IsFree(h, x)
    BY <1>13 DEF IsFree
  <2>4. QED
    BY <2>1, <2>2, <2>3
<1>15. PrevBits(h3)
  <2>1. ASSUME NEW x \in Blocks(k), NEW y \in Blocks(k), EndOf(k, x) = y
        PROVE  h3.block[y].prev_alloc = h3.block[x].alloc
    <3>1. CASE x = b
      BY <1>6, <1>13, <1>14, <2>1, <3>1 DEF IsFree
    <3>2. CASE x = r
      <4>1. y # r
        BY <1>5, <1>6, <1>7, <2>1, <3>2, EndsDiffer, <1>14
      <4>2. y \in Blocks(h) /\ y = EndOf(h, b)
        BY <1>5, <1>6, <2>1, <3>2, <4>1
      <4>3. QED
        BY <1>13, <3>2, <4>2
    <3>3. CASE x # b /\ x # r
      <4>1. x \in Blocks(h) /\ EndOf(h, x) = y
        BY <1>5, <1>6, <2>1, <3>3
      <4>2. y # r
        BY <1>5, <1>6, <1>14, <1>11, <2>1, <3>3, EndsDiffer
      <4>3. y # EndOf(h, b) /\ y \in Blocks(h)
        BY <1>1, <1>5, <3>3, <4>1, <4>2, EndsDiffer
      <4>4. h.block[y].prev_alloc = h.block[x].alloc
        BY <1>1, <4>1, <4>3 DEF PrevBits
      <4>5. QED
        BY <1>13, <4>1, <4>3, <4>4
    <3>4. QED
      BY <3>1, <3>2, <3>3
  <2>2. QED
    BY <1>11, <2>1 DEF PrevBits
<1>16. Coalesced(h3, {b, EndOf(h3, b)})
  <2>1. ASSUME NEW x \in Blocks(k), NEW y \in Blocks(k), EndOf(k, x) = y,
               IsFree(h3, x), IsFree(h3, y)
        PROVE  y \in {b, EndOf(h3, b)}
    <3>1. x # r /\ y # r
      BY <1>14, <2>1
    <3>2. CASE x = b
      BY <1>11, <2>1, <3>2
    <3>3. CASE x # b
      <4>1. x \in Blocks(h) /\ y \in Blocks(h) /\ EndOf(h, x) = y
        BY <1>5, <1>6, <2>1, <3>1, <3>3
      <4>2. IsFree(h, x) /\ IsFree(h, y)
        BY <1>14, <2>1, <4>1
      <4>3. QED
        BY <1>1, <4>1, <4>2 DEF Coalesced
    <3>4. QED
      BY <3>2, <3>3
  <2>2. QED
    BY <1>11, <2>1 DEF Coalesced
<1>17. Listed(h3, {b})
  <2>1. ASSUME NEW x \in Blocks(h) \ {b}
        PROVE  (IsFree(h3, x) <=> IsFree(t, x)) /\ h3.block[x].size = t.block[x].size
    <3>1. IsFree(t, x) <=> IsFree(h, x)
      BY <1>2 DEF IsFree
    <3>2. k.block[x] = t.block[x]
      BY <1>26
    <3>3. QED
      BY <1>7, <1>11, <1>14, <3>1, <3>2
  <2>2. h3.free_lists = t.free_lists
    BY <1>5, <1>8, <1>10
  <2>3. ASSUME NEW i \in FreeLists, NEW m \in DOMAIN t.free_lists[i]
        PROVE  LET x == t.free_lists[i][m]
               IN  /\ x \in Blocks(h3) \ {b} /\ IsFree(h3, x)
                   /\ calculate_index(h3.block[x].size) = i
                   /\ \A j \in DOMAIN t.free_lists[i] : t.free_lists[i][j] = x => j = m
    <3>. DEFINE x == t.free_lists[i][m]
    <3>1. Listed(t, {b}) /\ Blocks(t) = Blocks(h)
      BY <1>2
    <3>2. /\ x \in Blocks(h) \ {b} /\ IsFree(t, x)
          /\ calculate_index(t.block[x].size) = i
          /\ \A j \in DOMAIN t.free_lists[i] : t.free_lists[i][j] = x => j = m
      BY <3>1 DEF Listed
    <3>. HIDE DEF x
    <3>3. x \in Blocks(h3) /\ IsFree(h3, x) /\ h3.block[x].size = t.block[x].size
      BY <1>5, <1>11, <2>1, <3>2
    <3>4. QED
      BY <3>2, <3>3 DEF x
  <2>4. ASSUME NEW x \in Blocks(h3) \ {b}, IsFree(h3, x)
        PROVE  x \in Elements(t.free_lists[calculate_index(h3.block[x].size)])
    <3>1. x # r
      BY <1>14, <2>4
    <3>2. x \in Blocks(h) \ {b} /\ x \in Blocks(t) \ {b}
      <4>1. Blocks(t) = Blocks(h) /\ Blocks(h3) = Blocks(h) \cup {r}
        BY <1>2, <1>7, <1>11
      <4>2. QED
        BY <2>4, <3>1, <4>1
    <3>3. IsFree(t, x) /\ h3.block[x].size = t.block[x].size
      BY <2>1, <2>4, <3>2
    <3>4. QED
      BY <1>2, <3>2, <3>3 DEF Listed
  <2>5. QED
    BY <2>2, <2>3, <2>4 DEF Listed
<1>18. SoundBut(h3, {b}, {b, EndOf(h3, b)})
  BY <1>10, <1>11, <1>12, <1>15, <1>16, <1>17 DEF SoundBut
\* The block to merge is found through the footer below the block handed out.
<1>20. r - h3.footer[r - SizeofFooter].size = b
  <2>1. h3.footer[r - SizeofFooter].size = h3.block[b].size /\ EndOf(h3, b) = r
    BY <1>6, <1>7, <1>11, <1>12 DEF Footed
  <2>2. /\ r = b + h3.block[b].size /\ b \in Nat /\ h3.block[b].size \in Nat
    <3>1. HeapType(h3)
      BY <1>10
    <3>2. QED
      BY <1>14, <2>1, <3>1, BlockType DEF EndOf
  <2>. DEFINE f == h3.footer[r - SizeofFooter].size
              z == h3.block[b].size
  <2>3. f = z /\ r = b + z /\ b \in Nat /\ z \in Nat
    BY <2>1, <2>2
  <2>. HIDE DEF f, z
  <2>4. r - f = b
    BY <2>3
  <2>5. QED
    BY <2>4 DEF f
<1>21. /\ h3.block[r].size = n /\ h3.block[r].index = h.block[b].index
       /\ h3.block[b].size = h.block[b].size - n
  <2>1. /\ k.block[b].size = h.block[b].size - n
        /\ k.block[r].index = t.block[b].index
    BY <1>5
  <2>2. h3.block[r].size = k.block[r].size /\ h3.block[r].index = k.block[r].index
    BY <1>7, <1>11 DEF SameLayout
  <2>3. h3.block[b].size = k.block[b].size /\ t.block[b].index = h.block[b].index
    BY <1>2, <1>7, <1>11 DEF SameLayout
  <2>4. QED
    BY <1>25, <2>1, <2>2, <2>3
<1>22. \A x \in Blocks(h) \ {b} : h3.block[x].size = h.block[x].size
  <2>1. \A x \in Blocks(h) \ {b} : x \in Blocks(k) /\ k.block[x].size = t.block[x].size
    BY <1>7, <1>26
  <2>2. QED
    BY <1>2, <1>11, <2>1
<1>23. \A x \in Blocks(h) : h3.block[x].index = h.block[x].index
  <2>1. k.block[b].index = t.block[b].index
    BY <1>4 DEF Splits
  <2>2. \A x \in Blocks(h) : x \in Blocks(k) /\ k.block[x].index = t.block[x].index
    BY <1>7, <1>26, <2>1
  <2>3. \A x \in Blocks(h) : t.block[x].index = h.block[x].index
    BY <1>2 DEF SameLayout
  <2>4. QED
    BY <1>11, <2>2, <2>3 DEF SameLayout
<1>27. SameChunks(h, h3) /\ h3.fault = h.fault /\ h3.free_lists = t.free_lists
  BY <1>2, <1>5, <1>8, <1>10 DEF SameChunks, SameLayout
<1>28. EndOf(h3, b) = r
  BY <1>6, <1>7, <1>11
<1>29. Blocks(h3) = Blocks(h) \cup {r} /\ r \notin Blocks(h)
  BY <1>7, <1>11
<1>30. CutsOff(h, t, h3, b, n)
  BY <1>13, <1>14, <1>18, <1>21, <1>22, <1>23, <1>27, <1>28, <1>29 DEF CutsOff, r
<1>24. Cut(t, b, n) = h3
  BY <1>4 DEF Cut, k, k1, h3
<1>31. QED
  BY <1>4, <1>20, <1>24, <1>30 DEF r

\* The lower part goes back to the lists.
LEMMA AllocateUpper ==
  ASSUME NEW h, Sound(h), NEW b \in Blocks(h), IsFree(h, b), NEW t, Taken(h, t, b),
         NEW n \in Nat, n >= 32, h.block[b].size - n >= 32
  PROVE  LET r == EndOf(h, b) - n
         IN  /\ split_block(t, b, n).right = r
             /\ r - Cut(t, b, n).footer[r - SizeofFooter].size = b
             /\ Allocates(h, freeing_up(Cut(t, b, n), b), r, n)
<1>. DEFINE r  == EndOf(h, b) - n
            h3 == Cut(t, b, n)
            g  == freeing_up(h3, b)
<1>1. /\ split_block(t, b, n).right = r
      /\ r - h3.footer[r - SizeofFooter].size = b
      /\ CutsOff(h, t, h3, b, n)
  BY CutFields
<1>. HIDE DEF h3
<1>2. /\ SoundBut(h3, {b}, {b, EndOf(h3, b)}) /\ b \in Blocks(h3) /\ IsFree(h3, b)
      /\ SameChunks(h, h3) /\ h3.fault = h.fault
      /\ r \notin Blocks(h) /\ Blocks(h3) = Blocks(h) \cup {r}
      /\ h3.block[r].size = n /\ h3.block[r].alloc = 1
      /\ \A x \in Blocks(h) \ {b} : h3.block[x].size = h.block[x].size
      /\ \A x \in Blocks(h) : h3.block[x].alloc = h.block[x].alloc
  BY <1>1 DEF CutsOff
<1>. HIDE DEF r
<1>3. /\ Sound(g) /\ SameChunks(h3, g) /\ SameAllocated(h3, g) /\ g.fault = h3.fault
      /\ Blocks(g) \subseteq Blocks(h3)
  BY <1>2, FreeingUpSound
<1>4. /\ Allocated(h3) = Allocated(h) \cup {r} /\ r \notin Allocated(h)
      /\ \A x \in Allocated(h) : h3.block[x].size = h.block[x].size
  <2>1. ASSUME NEW x \in Blocks(h3)
        PROVE  IsFree(h3, x) <=> x # r /\ IsFree(h, x)
    BY <1>2 DEF IsFree
  <2>2. Allocated(h3) = Allocated(h) \cup {r} /\ r \notin Allocated(h)
    BY <1>2, <2>1 DEF Allocated
  <2>3. \A x \in Allocated(h) : x \in Blocks(h) \ {b}
    BY DEF Allocated
  <2>4. QED
    BY <1>2, <2>2, <2>3
<1>5. SameChunks(h, g) /\ g.fault = h.fault
  BY <1>2, <1>3 DEF SameChunks
<1>6. /\ Allocated(g) = Allocated(h3)
      /\ \A x \in Allocated(h3) : g.block[x].size = h3.block[x].size
  BY <1>3 DEF SameAllocated
<1>7. Blocks(g) \subseteq Blocks(h) \cup {r}
  BY <1>2, <1>3
<1>. HIDE DEF g
<1>8. /\ Allocated(g) = Allocated(h) \cup {r}
      /\ \A x \in Allocated(h) : g.block[x].size = h.block[x].size
      /\ g.block[r].size = n
  BY <1>2, <1>4, <1>6
<1>9. g.block[r].size >= n
  BY <1>8
<1>10. Sound(g)
  BY <1>3 DEF g
<1>11. Allocates(h, g, r, n)
  BY <1>4, <1>5, <1>7, <1>8, <1>9, <1>10 DEF Allocates
<1>12. QED
  BY <1>1, <1>11 DEF r, h3, g

\* allocate turns a free block of n bytes or more into an allocated one.
LEMMA AllocateSound ==
  ASSUME NEW h, Sound(h), NEW b \in Blocks(h), IsFree(h, b),
         NEW n \in Nat, n >= 32, h.block[b].size >= n
  PROVE  LET a == allocate(h, b, n).block
         IN  /\ Allocates(h, allocate(h, b, n).heap, a, n)
             /\ a \in {b, EndOf(h, b) - n} /\ b <= a /\ a < EndOf(h, b)
<1>. DEFINE t    == remove_from_free_list(tell_next(h, b, 1), b)
            cut  == split_block(t, b, n)
            h3   == set_footer([cut.heap EXCEPT !.block[cut.right].alloc = 1], cut.right)
            left == cut.right - h3.footer[cut.right - SizeofFooter].size
            rest == get_size(h, b) - n
            most == kMinAllocationSize + kMetadataSize + SizeofFooter
<1>1. Taken(h, t, b)
  BY TakenFields
<1>2. /\ h.block[b].size \in Nat /\ b \in Nat /\ h.block[b].size >= 32
      /\ EndOf(h, b) = b + h.block[b].size
  BY BlockType DEF Sound, SoundBut, Tiled, EndOf, kMetadataSize, SizeofFooter
<1>3. CASE rest < most
  <2>1. allocate(h, b, n) = [heap |-> [t EXCEPT !.block[b].alloc = 1], block |-> b]
    BY <1>3 DEF allocate
  <2>. HIDE DEF t
  <2>2. Allocates(h, [t EXCEPT !.block[b].alloc = 1], b, n)
    BY <1>1, AllocateWhole
  <2>4. b <= b /\ b < EndOf(h, b)
    BY <1>2
  <2>3. QED
    BY <2>1, <2>2, <2>4
<1>4. CASE ~(rest < most)
  <2>1. allocate(h, b, n) = [heap |-> freeing_up(h3, left), block |-> cut.right]
    BY <1>4 DEF allocate
  <2>2. h.block[b].size - n >= 32
    BY <1>2, <1>4 DEF get_size, kMinAllocationSize, kAlignment, kMetadataSize, SizeofFooter
  <2>. HIDE DEF t
  <2>. DEFINE r == EndOf(h, b) - n
  <2>3. /\ cut.right = r
        /\ r - Cut(t, b, n).footer[r - SizeofFooter].size = b
        /\ Allocates(h, freeing_up(Cut(t, b, n), b), r, n)
    BY <1>1, <2>2, AllocateUpper
  <2>4. h3 = Cut(t, b, n)
    BY DEF Cut
  <2>. HIDE DEF cut, h3
  <2>5. left = b
    BY <2>3, <2>4
  <2>7. b <= r /\ r < EndOf(h, b)
    BY <1>2, <2>2
  <2>. HIDE DEF r
  <2>6. QED
    BY <2>1, <2>3, <2>4, <2>5, <2>7 DEF r
<1>5. QED
  BY <1>3, <1>4

-----------------------------------------------------------------------------
(* The block my_malloc chooses *)

\* A block of n bytes serves a request of size bytes.
LEMMA TotalSize ==
  ASSUME NEW size \in Nat
  PROVE  total_size(size) \in Nat /\ total_size(size) >= size + 32
<1>. DEFINE n == size + kMetadataSize + SizeofFooter
<1>1. n \in Nat /\ n = size + 32
  BY DEF kMetadataSize, SizeofFooter
<1>. HIDE DEF n
<1>2. round_up(n, kAlignment) \in Nat /\ round_up(n, kAlignment) >= n
  BY <1>1 DEF round_up, kAlignment
<1>3. QED
  BY <1>1, <1>2 DEF total_size, n

\* What a list or all of them offer is free, and large enough.
LEMMA ListFits ==
  ASSUME NEW h, Sound(h), NEW i \in FreeLists, NEW n, NEW b \in list_fit(h, h.free_lists[i], n)
  PROVE  b \in Blocks(h) /\ IsFree(h, b) /\ h.block[b].size >= n
<1>1. PICK k \in DOMAIN h.free_lists[i] : b = h.free_lists[i][k] /\ get_size(h, b) >= n
  BY DEF list_fit
<1>2. QED
  BY <1>1 DEF Sound, SoundBut, Listed, get_size

\* best_fit yields a free block of the heap, no smaller than the size.
LEMMA BestFits ==
  ASSUME NEW h, Sound(h), NEW n \in Nat, NEW b \in best_fit(h, n)
  PROVE  b \in Blocks(h) /\ IsFree(h, b) /\ h.block[b].size >= n
<1>1. PICK i \in calculate_index(n) .. N_LISTS - 1 : b \in list_fit(h, h.free_lists[i], n)
  BY DEF best_fit
<1>2. i \in FreeLists
  BY <1>1, IndexInRange, ListsAssumption DEF FreeLists
<1>3. QED
  BY <1>1, <1>2, ListFits

\* So does the search of my_malloc, with a new chunk or without.
LEMMA ChosenFits ==
  ASSUME NEW h1, Sound(h1), NEW n \in Nat, NEW h2 \in another_chunk(h1, n), Sound(h2),
         NEW b \in chosen(h1, h2, n)
  PROVE  b \in Blocks(h2) /\ IsFree(h2, b) /\ h2.block[b].size >= n
<1>1. CASE best_fit(h1, n) # {}
  <2>1. h2 = h1 /\ b \in best_fit(h1, n)
    BY <1>1 DEF another_chunk, chosen
  <2>2. QED
    BY <2>1, BestFits
<1>2. CASE best_fit(h1, n) = {}
  <2>1. b \in list_fit(h2, h2.free_lists[N_LISTS - 1], n) /\ N_LISTS - 1 \in FreeLists
    BY <1>2, ListsAssumption DEF chosen, FreeLists
  <2>2. QED
    BY <2>1, ListFits
<1>3. QED
  BY <1>1, <1>2

-----------------------------------------------------------------------------
(* The searches find a smallest block that fits *)

\* Lists are in the order of the sizes of their blocks.
LEMMA IndexMonotone ==
  ASSUME NEW m \in Nat, NEW n \in Nat, m <= n
  PROVE  calculate_index(m) <= calculate_index(n)
BY ListsAssumption DEF calculate_index, kAlignment

\* A list in which a block fits offers one.
LEMMA ListFitFound ==
  ASSUME NEW h, Sound(h), NEW i \in FreeLists, NEW n \in Nat,
         NEW k \in DOMAIN h.free_lists[i], h.block[h.free_lists[i][k]].size >= n
  PROVE  list_fit(h, h.free_lists[i], n) # {}
<1>. DEFINE s       == h.free_lists[i]
            size(j) == get_size(h, s[j])
            fits    == {j \in DOMAIN s : size(j) >= n}
            Z       == {size(j) : j \in fits}
<1>1. /\ \A j \in DOMAIN s : size(j) \in Nat /\ j \in Nat
      /\ k \in fits
  <2>1. HeapType(h) /\ Listed(h, {})
    BY DEF Sound, SoundBut
  <2>2. s \in Seq(Nat)
    BY <2>1 DEF HeapType
  <2>3. \A j \in DOMAIN s : s[j] \in Blocks(h)
    BY <2>1 DEF Listed
  <2>4. \A j \in DOMAIN s : j \in Nat
    BY <2>2
  <2>5. QED
    BY <2>1, <2>3, <2>4, BlockType DEF get_size
<1>2. PICK z \in Z : \A y \in Z : z <= y
  <2>1. Z \subseteq Nat /\ Z # {}
    BY <1>1
  <2>. HIDE DEF Z
  <2>2. QED
    BY <2>1, LeastNumber
<1>3. PICK e \in {j \in fits : size(j) = z} : \A j \in fits : size(j) = z => e <= j
  <2>. DEFINE E == {j \in fits : size(j) = z}
  <2>1. E \subseteq Nat /\ E # {}
    BY <1>1, <1>2
  <2>2. PICK e \in E : \A j \in E : e <= j
    <3>. HIDE DEF E
    <3>1. QED
      BY <2>1, LeastNumber
  <2>3. QED
    BY <2>2
<1>4. \A j \in fits : size(e) < size(j) \/ (size(e) = size(j) /\ e <= j)
  <2>1. ASSUME NEW j \in fits PROVE z <= size(j) /\ size(j) \in Nat /\ z \in Nat
    BY <1>1, <1>2
  <2>2. QED
    BY <1>3, <2>1
<1>5. s[e] \in list_fit(h, s, n)
  BY <1>3, <1>4 DEF list_fit
<1>6. QED
  BY <1>5

\* What a list offers is a smallest of its blocks that fit.
LEMMA ListFitLeast ==
  ASSUME NEW h, NEW list, NEW n, NEW b \in list_fit(h, list, n),
         \A k \in DOMAIN list : h.block[list[k]].size \in Nat,
         NEW k \in DOMAIN list, h.block[list[k]].size >= n
  PROVE  h.block[b].size <= h.block[list[k]].size
<1>. DEFINE size(j) == get_size(h, list[j])
            fits    == {j \in DOMAIN list : size(j) >= n}
<1>1. PICK e \in fits : /\ b = list[e]
                        /\ \A j \in fits : size(e) < size(j) \/ (size(e) = size(j) /\ e <= j)
  BY DEF list_fit
<1>2. k \in fits /\ size(k) \in Nat /\ size(e) \in Nat
  BY <1>1 DEF get_size
<1>3. size(e) <= size(k)
  BY <1>1, <1>2
<1>4. QED
  BY <1>1, <1>3 DEF get_size

\* A free block that fits is in one of the lists that best_fit searches.
LEMMA FitListed ==
  ASSUME NEW h, Sound(h), NEW n \in Nat, NEW b \in Blocks(h), IsFree(h, b),
         h.block[b].size >= n
  PROVE  LET i == calculate_index(h.block[b].size)
         IN  /\ i \in FreeLists /\ i \in calculate_index(n) .. N_LISTS - 1
             /\ \E k \in DOMAIN h.free_lists[i] : h.free_lists[i][k] = b
             /\ list_fit(h, h.free_lists[i], n) # {}
<1>. DEFINE i == calculate_index(h.block[b].size)
<1>1. HeapType(h) /\ Listed(h, {}) /\ h.block[b].size \in Nat
  BY BlockType DEF Sound, SoundBut
<1>2. i \in FreeLists /\ calculate_index(n) \in FreeLists /\ calculate_index(n) <= i
  BY <1>1, IndexInRange, IndexMonotone
<1>3. PICK k \in DOMAIN h.free_lists[i] : h.free_lists[i][k] = b
  BY <1>1 DEF Listed, Elements
<1>. HIDE DEF i
<1>4. list_fit(h, h.free_lists[i], n) # {}
  BY <1>2, <1>3, ListFitFound
<1>5. i \in calculate_index(n) .. N_LISTS - 1
  BY <1>2, ListsAssumption DEF FreeLists
<1>6. QED
  BY <1>2, <1>3, <1>4, <1>5 DEF i

\* my_malloc asks the OS only when no free block fits.
LEMMA BestFitFound ==
  ASSUME NEW h, Sound(h), NEW n \in Nat, NEW b \in Blocks(h), IsFree(h, b),
         h.block[b].size >= n
  PROVE  best_fit(h, n) # {}
<1>. DEFINE Found(i) == list_fit(h, h.free_lists[i], n)
            T        == {i \in calculate_index(n) .. N_LISTS - 1 : Found(i) # {}}
<1>1. calculate_index(n) \in Nat /\ N_LISTS \in Nat
  BY IndexInRange, ListsAssumption DEF FreeLists
<1>2. PICK i \in T : \A j \in T : i <= j
  <2>1. T # {} /\ T \subseteq Nat
    BY <1>1, FitListed
  <2>. HIDE DEF T
  <2>2. QED
    BY <2>1, LeastNumber
<1>3. \A j \in calculate_index(n) .. i - 1 : Found(j) = {}
  BY <1>1, <1>2
<1>4. Found(i) \subseteq best_fit(h, n)
  BY <1>2, <1>3 DEF best_fit
<1>5. QED
  BY <1>2, <1>4

\* What best_fit returns is a smallest free block that fits, over all lists.
LEMMA BestFitLeast ==
  ASSUME NEW h, Sound(h), NEW n \in Nat, NEW b \in best_fit(h, n),
         NEW c \in Blocks(h), IsFree(h, c), h.block[c].size >= n
  PROVE  h.block[b].size <= h.block[c].size
<1>. DEFINE Found(i) == list_fit(h, h.free_lists[i], n)
            j        == calculate_index(h.block[c].size)
<1>1. PICK i \in calculate_index(n) .. N_LISTS - 1 :
             b \in Found(i) /\ \A x \in calculate_index(n) .. i - 1 : Found(x) = {}
  BY DEF best_fit
<1>2. /\ HeapType(h) /\ Listed(h, {}) /\ b \in Blocks(h)
      /\ h.block[b].size \in Nat /\ h.block[c].size \in Nat
  BY BestFits, BlockType DEF Sound, SoundBut
<1>3. /\ j \in FreeLists /\ j \in calculate_index(n) .. N_LISTS - 1 /\ Found(j) # {}
      /\ \E k \in DOMAIN h.free_lists[j] : h.free_lists[j][k] = c
  BY FitListed
<1>4. i \in FreeLists /\ i \in Int /\ j \in Int /\ calculate_index(n) \in Int
  BY <1>1, <1>3, IndexInRange, ListsAssumption DEF FreeLists
<1>. HIDE DEF j
<1>5. calculate_index(h.block[b].size) = i
  <2>1. PICK k \in DOMAIN h.free_lists[i] : b = h.free_lists[i][k]
    BY <1>1 DEF list_fit
  <2>2. QED
    BY <1>2, <1>4, <2>1 DEF Listed
<1>6. CASE j < i
  BY <1>1, <1>3, <1>4, <1>6
<1>7. CASE j = i
  <2>1. \A k \in DOMAIN h.free_lists[i] : h.block[h.free_lists[i][k]].size \in Nat
    BY <1>2, <1>4, BlockType DEF Listed
  <2>2. QED
    BY <1>1, <1>3, <1>7, <2>1, ListFitLeast
<1>8. CASE i < j
  <2>1. ~(h.block[c].size <= h.block[b].size)
    BY <1>2, <1>4, <1>5, <1>8, IndexMonotone DEF j
  <2>2. QED
    BY <1>2, <2>1
<1>9. QED
  BY <1>4, <1>6, <1>7, <1>8

-----------------------------------------------------------------------------
(* A chunk mapped above all the others leaves a sound heap sound. *)

\* round_up leaves a multiple of the word alone.
LEMMA RoundUpAligned ==
  ASSUME NEW n \in Nat, n % kAlignment = 0
  PROVE  round_up(n, kAlignment) = n
BY DEF round_up, kAlignment

\* A number of units is a multiple of the word, and at least a unit.
LEMMA Units ==
  ASSUME NEW m \in Nat, m >= 1
  PROVE  /\ m * kMemorySize \in Nat /\ (m * kMemorySize) % kAlignment = 0
         /\ m * kMemorySize >= 48
<1>1. /\ kMemorySize \in Nat /\ kMemorySize % 8 = 0 /\ kMemorySize >= 48
  BY MemoryAssumption DEF kAlignment, SizeofChunk, kMetadataSize, SizeofFooter
<1>2. PICK w \in Nat : kMemorySize = 8 * w /\ w >= 6
  <2>1. kMemorySize \div 8 \in Nat /\ kMemorySize = 8 * (kMemorySize \div 8)
    BY <1>1
  <2>2. QED
    BY <1>1, <2>1
<1>3. m * w \in Nat /\ m * w >= 6
  <2>1. m * w \in Nat
    BY <1>2
  <2>2. m * w = w + (m - 1) * w /\ (m - 1) * w >= 0
    BY <1>2
  <2>3. QED
    BY <1>2, <2>1, <2>2
<1>4. m * kMemorySize = 8 * (m * w)
  BY <1>2
<1>5. QED
  BY <1>3, <1>4 DEF kAlignment

\* k is h with one more chunk, of len bytes at base, before it is listed.
Maps(h, k, base, len) ==
  LET n     == h.index_last_chunk_from_OS + 1
      start == base + SizeofChunk
      size  == len - SizeofChunk
  IN  /\ HeapType(k) /\ k.free_lists = h.free_lists /\ k.fault = h.fault
      /\ k.index_last_chunk_from_OS = n /\ n \in Nat /\ ChunkIds(k) = ChunkIds(h) \cup {n}
      /\ k.ch_array[n] = [base |-> base, start |-> start, end |-> base + len]
      /\ k.corr_size_arr[n] = len
      /\ \A i \in ChunkIds(h) : /\ k.ch_array[i] = h.ch_array[i]
                                /\ k.corr_size_arr[i] = h.corr_size_arr[i]
      /\ start \notin Blocks(h) /\ Blocks(k) = Blocks(h) \cup {start}
      /\ k.block[start] = [size |-> size, alloc |-> 0, prev_alloc |-> 1, index |-> n]
      /\ \A x \in Blocks(h) : k.block[x] = h.block[x]
      /\ (base + len) - SizeofFooter \in DOMAIN k.footer
      /\ k.footer[(base + len) - SizeofFooter].size = size
      /\ DOMAIN h.footer \subseteq DOMAIN k.footer
      /\ \A a \in DOMAIN h.footer \ {(base + len) - SizeofFooter} : k.footer[a] = h.footer[a]

\* base is above all chunks, and len bytes at base can be a chunk.
Above(h, base, len) ==
  /\ base \in Nat /\ base > 0 /\ base % kAlignment = 0
  /\ len \in Nat /\ len % kAlignment = 0 /\ len >= 48
  /\ h.index_last_chunk_from_OS + 1 < MAX_REQ
  /\ \A i \in ChunkIds(h) : h.ch_array[i].end <= base

\* All blocks end below a chunk that is above the earlier ones.
LEMMA BlocksBelow ==
  ASSUME NEW h, HeapType(h), Tiled(h), NEW base, NEW len, Above(h, base, len),
         NEW x \in Blocks(h)
  PROVE  x < EndOf(h, x) /\ EndOf(h, x) <= base
<1>1. h.block[x].index \in ChunkIds(h) /\ EndOf(h, x) <= h.ch_array[h.block[x].index].end
  BY DEF Tiled, InChunk
<1>2. h.block[x].size >= 32
  BY DEF Tiled, kMetadataSize, SizeofFooter
<1>3. /\ x \in Nat /\ h.block[x].size \in Nat /\ EndOf(h, x) = x + h.block[x].size
      /\ h.ch_array[h.block[x].index].end \in Nat
      /\ h.ch_array[h.block[x].index].end <= base /\ base \in Nat
  BY <1>1, BlockType, ChunkType DEF EndOf, Above
<1>4. QED
  BY <1>1, <1>2, <1>3

\* What NewChunk has built when it calls freeing_up.
LEMMA NewChunkFields ==
  ASSUME NEW h, Sound(h), NEW base, NEW len, Above(h, base, len)
  PROVE  \E k : /\ Maps(h, k, base, len)
                /\ NewChunk(h, base, len) = freeing_up(k, base + SizeofChunk)
<1>. DEFINE n     == h.index_last_chunk_from_OS + 1
            start == base + SizeofChunk
            size  == len - SizeofChunk
            hdr   == [size |-> size, alloc |-> 0, prev_alloc |-> 1, index |-> n]
            chunk == [base |-> base, start |-> start, end |-> base + len]
            C     == [i \in 0 .. n |-> IF i = n THEN chunk ELSE h.ch_array[i]]
            S     == [i \in 0 .. n |-> IF i = n THEN len ELSE h.corr_size_arr[i]]
            B     == [b \in DOMAIN h.block \cup {start} |-> IF b = start THEN hdr ELSE h.block[b]]
            h1    == [index_last_chunk_from_OS |-> n, ch_array |-> C, corr_size_arr |-> S,
                      free_lists |-> h.free_lists, block |-> B,
                      footer |-> h.footer, fault |-> h.fault]
            k     == set_footer(h1, start)
<1>1. /\ base \in Nat /\ base > 0 /\ base % 8 = 0 /\ len \in Nat /\ len % 8 = 0 /\ len >= 48
      /\ HeapType(h) /\ Tiled(h)
  BY DEF Above, kAlignment, Sound, SoundBut
<1>2. /\ round_up(base + SizeofChunk, kAlignment) = start
      /\ round_up(len - (start - base), kAlignment) = size
  <2>1. base + 16 \in Nat /\ (base + 16) % 8 = 0 /\ len - 16 \in Nat /\ (len - 16) % 8 = 0
    BY <1>1
  <2>2. round_up(base + 16, 8) = base + 16 /\ round_up(len - 16, 8) = len - 16
    BY <2>1, RoundUpAligned DEF kAlignment
  <2>3. len - (start - base) = len - 16
    BY <1>1 DEF SizeofChunk
  <2>4. QED
    BY <2>2, <2>3 DEF SizeofChunk, kAlignment
<1>3. NewChunk(h, base, len) = freeing_up(k, start)
  <2>1. start + size = base + len
    BY <1>1 DEF SizeofChunk
  <2>2. QED
    BY <1>2, <2>1 DEF NewChunk
<1>4. /\ n \in Nat /\ n \in -1 .. MAX_REQ - 1 /\ 0 .. n = ChunkIds(h) \cup {n} /\ n \notin ChunkIds(h)
  <2>1. h.index_last_chunk_from_OS \in -1 .. MAX_REQ - 1 /\ n < MAX_REQ /\ MAX_REQ \in Nat
    BY <1>1, LimitsAssumption DEF HeapType, Above
  <2>2. QED
    BY <2>1 DEF ChunkIds
<1>5. /\ start \in Nat \ {0} /\ size \in Nat /\ start > base /\ size >= 32
      /\ start + size = base + len
  BY <1>1 DEF SizeofChunk
<1>6. start \notin Blocks(h)
  <2>1. ASSUME start \in Blocks(h) PROVE FALSE
    BY <1>1, <1>5, <2>1, BlocksBelow, BlockType
  <2>2. QED
    BY <2>1
<1>. HIDE DEF n, start, size
<1>7. hdr \in Field /\ chunk \in [base : Nat, start : Nat, end : Nat]
  BY <1>1, <1>4, <1>5 DEF Field
<1>. HIDE DEF hdr, chunk
<1>8. /\ C \in [0 .. n -> [base : Nat, start : Nat, end : Nat]] /\ C[n] = chunk
      /\ \A i \in ChunkIds(h) : C[i] = h.ch_array[i]
      /\ S \in [0 .. n -> Nat] /\ S[n] = len
      /\ \A i \in ChunkIds(h) : S[i] = h.corr_size_arr[i]
  <2>1. /\ \A i \in ChunkIds(h) : h.ch_array[i] \in [base : Nat, start : Nat, end : Nat]
        /\ \A i \in ChunkIds(h) : h.corr_size_arr[i] \in Nat
    BY <1>1 DEF HeapType
  <2>2. n \in 0 .. n /\ \A i \in ChunkIds(h) : i # n
    BY <1>4
  <2>3. QED
    BY <1>1, <1>4, <1>7, <2>1, <2>2
<1>9. /\ DOMAIN B = Blocks(h) \cup {start} /\ B \in [Blocks(h) \cup {start} -> Field]
      /\ B[start] = hdr /\ \A x \in Blocks(h) : B[x] = h.block[x]
  <2>1. \A x \in Blocks(h) : h.block[x] \in Field
    BY <1>1, BlockType
  <2>2. QED
    BY <1>6, <1>7, <2>1 DEF Blocks
<1>. HIDE DEF C, S, B
<1>10. h1 = [index_last_chunk_from_OS |-> n, ch_array |-> C, corr_size_arr |-> S,
             free_lists |-> h.free_lists, block |-> B,
             footer |-> h.footer, fault |-> h.fault]
  OBVIOUS
<1>. HIDE DEF h1
<1>11. Blocks(h1) = Blocks(h) \cup {start} /\ ChunkIds(h1) = 0 .. n
  BY <1>9, <1>10 DEF Blocks, ChunkIds
<1>12. HeapType(h1)
  <2>1. Blocks(h1) \subseteq Nat \ {NULL}
    BY <1>1, <1>5, <1>11 DEF HeapType, NULL
  <2>2. QED
    BY <1>1, <1>4, <1>8, <1>9, <1>10, <1>11, <2>1 DEF HeapType
<1>13. /\ EndOf(h1, start) = base + len /\ h1.block[start].size = size
       /\ start \in Blocks(h1)
  BY <1>5, <1>9, <1>10, <1>11 DEF EndOf, hdr
<1>14. /\ HeapType(k) /\ SameChunks(h1, k)
       /\ k.free_lists = h1.free_lists /\ k.block = h1.block /\ k.fault = h1.fault
       /\ DOMAIN k.footer = DOMAIN h1.footer \cup {(base + len) - SizeofFooter}
       /\ k.footer[(base + len) - SizeofFooter].size = size
       /\ \A a \in DOMAIN h1.footer \ {(base + len) - SizeofFooter} : k.footer[a] = h1.footer[a]
  BY <1>11, <1>12, <1>13, SetFooterFields
<1>. HIDE DEF k
<1>15. /\ k.index_last_chunk_from_OS = n /\ k.ch_array = C /\ k.corr_size_arr = S
       /\ k.block = B /\ k.free_lists = h.free_lists /\ k.fault = h.fault
       /\ ChunkIds(k) = ChunkIds(h) \cup {n} /\ Blocks(k) = Blocks(h) \cup {start}
       /\ h1.footer = h.footer
  BY <1>4, <1>10, <1>11, <1>14 DEF SameChunks, ChunkIds, Blocks
<1>16. Maps(h, k, base, len)
  BY <1>4, <1>6, <1>8, <1>9, <1>14, <1>15 DEF Maps, n, start, size, hdr, chunk
<1>17. QED
  BY <1>3, <1>16 DEF start
-----------------------------------------------------------------------------
(* The new chunk is sound, and joins nothing *)

\* With its block of the whole chunk unlisted, a new chunk is sound but for it.
LEMMA MapsSound ==
  ASSUME NEW h, Sound(h), NEW base, NEW len, Above(h, base, len), NEW k, Maps(h, k, base, len)
  PROVE  LET start == base + SizeofChunk
         IN  /\ SoundBut(k, {start}, {start, EndOf(k, start)})
             /\ start \in Blocks(k) /\ IsFree(k, start)
             /\ SameAllocated(h, k)
<1>. DEFINE n     == h.index_last_chunk_from_OS + 1
            start == base + SizeofChunk
            size  == len - SizeofChunk
<1>1. /\ HeapType(h) /\ ChunksApart(h) /\ Tiled(h) /\ PrevBits(h) /\ Footed(h)
      /\ Coalesced(h, {}) /\ Listed(h, {})
  BY DEF Sound, SoundBut
<1>2. /\ base \in Nat /\ len \in Nat /\ start \in Nat /\ size \in Nat
      /\ base < start /\ size >= 32 /\ start + size = base + len
      /\ \A i \in ChunkIds(h) : h.ch_array[i].end <= base
  BY DEF Above, SizeofChunk
<1>3. /\ HeapType(k) /\ k.free_lists = h.free_lists
      /\ n \in Nat /\ ChunkIds(k) = ChunkIds(h) \cup {n}
      /\ k.ch_array[n] = [base |-> base, start |-> start, end |-> base + len]
      /\ k.corr_size_arr[n] = len
      /\ \A i \in ChunkIds(h) : /\ k.ch_array[i] = h.ch_array[i]
                                /\ k.corr_size_arr[i] = h.corr_size_arr[i]
      /\ start \notin Blocks(h) /\ Blocks(k) = Blocks(h) \cup {start}
      /\ k.block[start] = [size |-> size, alloc |-> 0, prev_alloc |-> 1, index |-> n]
      /\ \A x \in Blocks(h) : k.block[x] = h.block[x]
      /\ (base + len) - SizeofFooter \in DOMAIN k.footer
      /\ k.footer[(base + len) - SizeofFooter].size = size
      /\ DOMAIN h.footer \subseteq DOMAIN k.footer
      /\ \A a \in DOMAIN h.footer \ {(base + len) - SizeofFooter} : k.footer[a] = h.footer[a]
  BY DEF Maps
<1>4. n = h.index_last_chunk_from_OS + 1 /\ h.index_last_chunk_from_OS \in Int
  BY <1>1 DEF HeapType
<1>. HIDE DEF n, start, size
<1>5. /\ EndOf(k, start) = base + len /\ start < base + len
      /\ \A x \in Blocks(h) : EndOf(k, x) = EndOf(h, x)
  BY <1>2, <1>3 DEF EndOf
<1>6. \A x \in Blocks(h) : /\ x \in Nat /\ EndOf(h, x) \in Nat
                           /\ x < EndOf(h, x) /\ EndOf(h, x) <= base
  BY <1>1, BlocksBelow, BlockType
<1>7. \A i \in ChunkIds(h) : i < n /\ i \in Int
  BY <1>4 DEF ChunkIds
<1>8. ChunksApart(k)
  <2>1. ASSUME NEW i \in ChunkIds(k)
        PROVE  /\ k.ch_array[i].start = k.ch_array[i].base + SizeofChunk
               /\ k.ch_array[i].end = k.ch_array[i].base + k.corr_size_arr[i]
               /\ k.ch_array[i].start < k.ch_array[i].end
    <3>1. CASE i = n
      BY <1>2, <1>3, <1>5, <3>1 DEF start
    <3>2. CASE i \in ChunkIds(h)
      BY <1>1, <1>3, <3>2 DEF ChunksApart
    <3>3. QED
      BY <1>3, <3>1, <3>2
  <2>2. ASSUME NEW i \in ChunkIds(k), NEW j \in ChunkIds(k), i < j
        PROVE  k.ch_array[i].end <= k.ch_array[j].base
    <3>1. i \in ChunkIds(h)
      BY <1>3, <1>7, <2>2
    <3>2. CASE j = n
      <4>1. k.ch_array[i] = h.ch_array[i]
        BY <1>3, <3>1
      <4>2. k.ch_array[n].base = base
        BY <1>3
      <4>3. QED
        BY <1>2, <3>1, <3>2, <4>1, <4>2
    <3>3. CASE j \in ChunkIds(h)
      BY <1>1, <1>3, <2>2, <3>1, <3>3 DEF ChunksApart
    <3>4. QED
      BY <1>3, <3>2, <3>3
  <2>3. QED
    BY <2>1, <2>2 DEF ChunksApart
<1>9. Tiled(k)
  <2>1. ASSUME NEW i \in ChunkIds(k)
        PROVE  k.ch_array[i].start \in Blocks(k) /\ k.block[k.ch_array[i].start].index = i
    BY <1>1, <1>3 DEF Tiled
  <2>2. ASSUME NEW x \in Blocks(h) PROVE InChunk(k, x)
    <3>1. InChunk(h, x)
      BY <1>1 DEF Tiled
    <3>2. \A q \in Blocks(h) : EndOf(k, q) = EndOf(h, q) /\ k.block[q].index = h.block[q].index
      BY <1>3, <1>5
    <3>3. /\ ChunkIds(h) \subseteq ChunkIds(k) /\ Blocks(h) \subseteq Blocks(k)
          /\ \A i \in ChunkIds(h) : k.ch_array[i] = h.ch_array[i]
      BY <1>3
    <3>4. QED
      BY <3>1, <3>2, <3>3 DEF InChunk
  <2>3. InChunk(k, start)
    BY <1>2, <1>3, <1>5 DEF InChunk
  <2>4. \A x \in Blocks(k) : k.block[x].size >= kMetadataSize + SizeofFooter
    BY <1>1, <1>2, <1>3 DEF Tiled, kMetadataSize, SizeofFooter
  <2>5. ASSUME NEW x \in Blocks(k), NEW y \in Blocks(k), x < y PROVE EndOf(k, x) <= y
    <3>1. x \in Blocks(h)
      BY <1>2, <1>3, <1>6, <2>5
    <3>2. CASE y = start
      BY <1>2, <1>5, <1>6, <3>1, <3>2
    <3>3. CASE y \in Blocks(h)
      BY <1>1, <1>5, <2>5, <3>1, <3>3 DEF Tiled
    <3>4. QED
      BY <1>3, <3>2, <3>3
  <2>6. QED
    BY <1>3, <2>1, <2>2, <2>3, <2>4, <2>5 DEF Tiled
\* The new block has no neighbour.
<1>10. \A x \in Blocks(k) : /\ EndOf(k, x) # start
                            /\ x # EndOf(k, start)
  BY <1>2, <1>3, <1>5, <1>6
<1>11. PrevBits(k)
  <2>1. ASSUME NEW x \in Blocks(k), NEW y \in Blocks(k), EndOf(k, x) = y
        PROVE  x \in Blocks(h) /\ y \in Blocks(h) /\ EndOf(h, x) = y
    BY <1>3, <1>5, <1>10, <2>1
  <2>2. QED
    BY <1>1, <1>3, <2>1 DEF PrevBits
<1>12. Footed(k)
  <2>1. ASSUME NEW x \in Blocks(h)
        PROVE  /\ EndOf(h, x) - SizeofFooter \in DOMAIN k.footer
               /\ k.footer[EndOf(h, x) - SizeofFooter].size = h.block[x].size
    <3>1. EndOf(h, x) - SizeofFooter # (base + len) - SizeofFooter
      BY <1>2, <1>5, <1>6 DEF SizeofFooter
    <3>2. QED
      BY <1>1, <1>3, <3>1 DEF Footed
  <2>2. QED
    BY <1>3, <1>5, <2>1 DEF Footed
<1>13. Coalesced(k, {start, EndOf(k, start)})
  <2>1. ASSUME NEW x \in Blocks(k), NEW y \in Blocks(k), EndOf(k, x) = y,
               IsFree(k, x), IsFree(k, y)
        PROVE  y \in {start, EndOf(k, start)}
    <3>1. CASE x = start
      BY <2>1, <3>1
    <3>2. CASE y = start
      BY <3>2
    <3>3. CASE x \in Blocks(h) /\ y \in Blocks(h)
      BY <1>1, <1>3, <1>5, <2>1, <3>3 DEF Coalesced, IsFree
    <3>4. QED
      BY <1>3, <3>1, <3>2, <3>3
  <2>2. QED
    BY <2>1 DEF Coalesced
<1>14. \A x \in Blocks(h) : IsFree(k, x) <=> IsFree(h, x)
  BY <1>3 DEF IsFree
<1>15. Listed(k, {start})
  <2>1. ASSUME NEW i \in FreeLists, NEW m \in DOMAIN h.free_lists[i]
        PROVE  LET x == h.free_lists[i][m]
               IN  /\ x \in Blocks(k) \ {start} /\ IsFree(k, x)
                   /\ calculate_index(k.block[x].size) = i
                   /\ \A j \in DOMAIN h.free_lists[i] : h.free_lists[i][j] = x => j = m
    BY <1>1, <1>3, <1>14 DEF Listed
  <2>2. ASSUME NEW x \in Blocks(k) \ {start}, IsFree(k, x)
        PROVE  x \in Elements(h.free_lists[calculate_index(k.block[x].size)])
    BY <1>1, <1>3, <1>14, <2>2 DEF Listed
  <2>3. QED
    BY <1>3, <2>1, <2>2 DEF Listed
<1>16. start \in Blocks(k) /\ IsFree(k, start)
  BY <1>3 DEF IsFree
<1>17. SameAllocated(h, k)
  <2>1. Allocated(k) = Allocated(h)
    BY <1>3, <1>14, <1>16 DEF Allocated
  <2>2. \A x \in Allocated(h) : k.block[x].size = h.block[x].size
    BY <1>3 DEF Allocated
  <2>3. QED
    BY <2>1, <2>2 DEF SameAllocated
<1>18. QED
  BY <1>3, <1>8, <1>9, <1>11, <1>12, <1>13, <1>15, <1>16, <1>17 DEF SoundBut, start

\* g has the chunks of h and one more, of len bytes at base, and no blocks but
\* those of h and the one that chunk starts with.
MapsChunk(h, g, base, len) ==
  LET n == h.index_last_chunk_from_OS + 1
  IN  /\ g.index_last_chunk_from_OS = n /\ n \in Nat /\ ChunkIds(g) = ChunkIds(h) \cup {n}
      /\ g.ch_array[n] =
           [base |-> base, start |-> base + SizeofChunk, end |-> base + len]
      /\ \A i \in ChunkIds(h) : g.ch_array[i] = h.ch_array[i]
      /\ Blocks(g) \subseteq Blocks(h) \cup {base + SizeofChunk}

\* A chunk above the earlier ones is added to a sound heap.
LEMMA NewChunkSound ==
  ASSUME NEW h, Sound(h), NEW base, NEW len, Above(h, base, len)
  PROVE  LET g == NewChunk(h, base, len)
         IN  /\ Sound(g) /\ SameAllocated(h, g) /\ g.fault = h.fault
             /\ MapsChunk(h, g, base, len)
<1>. DEFINE start == base + SizeofChunk
            g     == NewChunk(h, base, len)
<1>1. PICK k : Maps(h, k, base, len) /\ g = freeing_up(k, start)
  BY NewChunkFields
<1>. HIDE DEF g
<1>2. /\ SoundBut(k, {start}, {start, EndOf(k, start)})
      /\ start \in Blocks(k) /\ IsFree(k, start)
      /\ SameAllocated(h, k)
  BY <1>1, MapsSound
<1>. HIDE DEF start
<1>3. /\ Sound(freeing_up(k, start)) /\ SameAllocated(k, freeing_up(k, start))
      /\ freeing_up(k, start).fault = k.fault
      /\ SameChunks(k, freeing_up(k, start)) /\ Blocks(freeing_up(k, start)) \subseteq Blocks(k)
  BY <1>2, FreeingUpSound
<1>4. k.fault = h.fault
  BY <1>1 DEF Maps
<1>5. Sound(g) /\ SameAllocated(h, g) /\ g.fault = h.fault
  BY <1>1, <1>2, <1>3, <1>4 DEF SameAllocated
<1>6. MapsChunk(h, g, base, len)
  <2>. DEFINE n == h.index_last_chunk_from_OS + 1
  <2>1. SameChunks(k, g) /\ Blocks(g) \subseteq Blocks(k)
    BY <1>1, <1>3
  <2>2. /\ k.index_last_chunk_from_OS = n /\ n \in Nat /\ ChunkIds(k) = ChunkIds(h) \cup {n}
        /\ k.ch_array[n] = [base |-> base, start |-> start, end |-> base + len]
        /\ \A i \in ChunkIds(h) : k.ch_array[i] = h.ch_array[i]
        /\ Blocks(k) = Blocks(h) \cup {start}
    BY <1>1 DEF Maps, start
  <2>3. ChunkIds(g) = ChunkIds(k)
    BY <2>1 DEF SameChunks, ChunkIds
  <2>4. QED
    BY <2>1, <2>2, <2>3 DEF MapsChunk, SameChunks, start
<1>7. QED
  BY <1>5, <1>6 DEF g

-----------------------------------------------------------------------------
(* get_chunk_from_OS *)

\* g is h, or h with a chunk more, or h where the chunk table overflowed.
Requested(h, g) ==
  /\ Sound(g) /\ SameAllocated(h, g)
  /\ g.fault \in {h.fault, "table"}
  /\ \/ g = h
     \/ g = Faulted(h, "table")
     \/ \E base \in Nat, len \in Nat :
          Above(h, base, len) /\ base + len <= MmapTop /\ MapsChunk(h, g, base, len)

\* A recorded fault leaves a sound heap as it is.
LEMMA FaultedSound ==
  ASSUME NEW h, Sound(h), NEW how \in Faults
  PROVE  /\ Sound(Faulted(h, how)) /\ SameAllocated(h, Faulted(h, how))
         /\ Faulted(h, how).fault = how
<1>. DEFINE g == Faulted(h, how)
<1>1. HeapType(h)
  BY DEF Sound, SoundBut
<1>2. g = [index_last_chunk_from_OS |-> h.index_last_chunk_from_OS,
           ch_array |-> h.ch_array, corr_size_arr |-> h.corr_size_arr,
           free_lists |-> h.free_lists, block |-> h.block,
           footer |-> h.footer, fault |-> how]
  <2>1. h = [index_last_chunk_from_OS |-> h.index_last_chunk_from_OS,
             ch_array |-> h.ch_array, corr_size_arr |-> h.corr_size_arr,
             free_lists |-> h.free_lists, block |-> h.block,
             footer |-> h.footer, fault |-> h.fault]
    BY <1>1 DEF HeapType
  <2>2. g = [h EXCEPT !.fault = how]
    BY DEF Faulted
  <2>. HIDE DEF g
  <2>3. QED
    BY <2>1, <2>2
<1>. HIDE DEF g
<1>3. HeapType(g)
  BY <1>1, <1>2 DEF HeapType, Blocks, ChunkIds
<1>4. /\ Blocks(g) = Blocks(h) /\ ChunkIds(g) = ChunkIds(h)
      /\ \A x : EndOf(g, x) = EndOf(h, x)
      /\ \A x : IsFree(g, x) <=> IsFree(h, x)
  BY <1>2 DEF Blocks, ChunkIds, EndOf, IsFree
<1>5. ChunksApart(g) /\ Tiled(g)
  <2>1. ChunksApart(h) /\ Tiled(h)
    BY DEF Sound, SoundBut
  <2>2. /\ g.ch_array = h.ch_array /\ g.corr_size_arr = h.corr_size_arr
        /\ g.block = h.block
    BY <1>2
  <2>3. ChunksApart(g)
    BY <1>4, <2>1, <2>2 DEF ChunksApart
  <2>4. \A b \in Blocks(h) : InChunk(g, b) <=> InChunk(h, b)
    BY <1>4, <2>2 DEF InChunk
  <2>5. Tiled(g)
    BY <1>4, <2>1, <2>2, <2>4 DEF Tiled
  <2>6. QED
    BY <2>3, <2>5
<1>6. PrevBits(g) /\ Footed(g) /\ Coalesced(g, {})
  BY <1>2, <1>4 DEF Sound, SoundBut, PrevBits, Footed, Coalesced
<1>7. Listed(g, {})
  BY <1>2, <1>4 DEF Sound, SoundBut, Listed
<1>8. QED
  BY <1>2, <1>3, <1>4, <1>5, <1>6, <1>7 DEF Sound, SoundBut, SameAllocated, Allocated, g

\* get_chunk_from_OS leaves the heap, adds a chunk above it, or faults.
LEMMA RequestSound ==
  ASSUME Ascending = TRUE, NEW h, Sound(h), NEW multiple \in Int,
         NEW g \in get_chunk_from_OS(h, multiple)
  PROVE  Requested(h, g)
<1>. DEFINE len == multiple * kMemorySize
<1>1. CASE g = h
  BY <1>1 DEF Requested, SameAllocated
<1>2. CASE g # h
  <2>1. multiple >= 1
    BY <1>2 DEF get_chunk_from_OS
  <2>2. PICK base \in Mappings(h, len) :
          g = IF h.index_last_chunk_from_OS + 1 >= MAX_REQ
              THEN Faulted(h, "table") ELSE NewChunk(h, base, len)
    BY <1>2, <2>1 DEF get_chunk_from_OS
  <2>3. CASE h.index_last_chunk_from_OS + 1 >= MAX_REQ
    BY <2>2, <2>3, FaultedSound DEF Requested, Faults
  <2>4. CASE ~(h.index_last_chunk_from_OS + 1 >= MAX_REQ)
    <3>1. HeapType(h) /\ ChunksApart(h)
      BY DEF Sound, SoundBut
    <3>2. h.index_last_chunk_from_OS + 1 < MAX_REQ
      BY <2>4, <3>1, LimitsAssumption DEF HeapType
    <3>3. \A i \in ChunkIds(h) : h.ch_array[i].end <= base
      <4>1. \A i \in DOMAIN h.ch_array : base >= h.ch_array[i].base + h.corr_size_arr[i]
        BY <2>2 DEF Mappings
      <4>2. DOMAIN h.ch_array = ChunkIds(h)
        BY <3>1 DEF HeapType
      <4>3. base \in Nat
        BY <2>2, BasesAssumption DEF Mappings
      <4>4. QED
        BY <3>1, <4>1, <4>2, <4>3, ChunkType DEF ChunksApart
    <3>4. Above(h, base, len)
      BY <2>1, <2>2, <3>2, <3>3, BasesAssumption, Units DEF Above, Mappings
    <3>5. base + len <= MmapTop /\ base \in Nat /\ len \in Nat
      BY <2>2, <3>4 DEF Mappings, Above
    <3>. HIDE DEF len
    <3>6. Sound(g) /\ SameAllocated(h, g) /\ g.fault = h.fault /\ MapsChunk(h, g, base, len)
      BY <2>2, <2>4, <3>4, NewChunkSound
    <3>7. QED
      BY <3>4, <3>5, <3>6 DEF Requested
  <2>5. QED
    BY <2>3, <2>4
<1>3. QED
  BY <1>1, <1>2

-----------------------------------------------------------------------------
(* The heap before the first call *)

\* It has no chunk and no block, and is sound.
LEMMA InitHeapSound == Sound(InitHeap) /\ Blocks(InitHeap) = {} /\ ChunkIds(InitHeap) = {}
<1>. DEFINE h == InitHeap
<1>1. Blocks(h) = {} /\ ChunkIds(h) = {}
  BY DEF InitHeap, Blocks, ChunkIds, first_index
<1>2. HeapType(h)
  BY <1>1, LimitsAssumption
     DEF HeapType, InitHeap, ChunkIds, Blocks, FreeLists, Faults, first_index
<1>3. ChunksApart(h) /\ Tiled(h) /\ PrevBits(h) /\ Footed(h) /\ Coalesced(h, {})
  BY <1>1 DEF ChunksApart, Tiled, PrevBits, Footed, Coalesced
<1>4. Listed(h, {})
  <2>1. \A i \in FreeLists : h.free_lists[i] = << >>
    BY DEF InitHeap, FreeLists
  <2>2. QED
    BY <1>1, <2>1 DEF Listed
<1>5. QED
  BY <1>1, <1>2, <1>3, <1>4 DEF Sound, SoundBut

-----------------------------------------------------------------------------
(* What a client holds of a heap *)

\* The allocated blocks of h are the ones of l, and hold what l says.
Client(h, l) ==
  /\ l \in [DOMAIN l -> Nat]
  /\ {b + kMetadataSize : b \in Allocated(h)} = DOMAIN l
  /\ \A p \in DOMAIN l : p + l[p] + SizeofFooter <= EndOf(h, p - kMetadataSize)

\* A live pointer is 16 bytes into an allocated block.
LEMMA ClientBlock ==
  ASSUME NEW h, Sound(h), NEW l, Client(h, l), NEW p \in DOMAIN l
  PROVE  /\ p - kMetadataSize \in Allocated(h) /\ p \in Nat
         /\ p - kMetadataSize \in Nat /\ p = (p - kMetadataSize) + kMetadataSize
<1>1. PICK b \in Allocated(h) : p = b + kMetadataSize
  BY DEF Client
<1>2. b \in Nat
  BY BlockType DEF Allocated, Sound, SoundBut
<1>3. QED
  BY <1>1, <1>2 DEF kMetadataSize

\* Live pointers depend on the allocated blocks alone.
LEMMA ClientSame ==
  ASSUME NEW h, Sound(h), NEW l, Client(h, l), NEW g, SameAllocated(h, g)
  PROVE  Client(g, l)
<1>1. \A p \in DOMAIN l : EndOf(g, p - kMetadataSize) = EndOf(h, p - kMetadataSize)
  BY ClientBlock DEF SameAllocated, EndOf
<1>2. QED
  BY <1>1 DEF Client, SameAllocated

\* A block newly allocated may be handed out.
LEMMA ClientMalloc ==
  ASSUME NEW h, Sound(h), NEW l, Client(h, l), NEW g, NEW a, NEW n \in Nat,
         Allocates(h, g, a, n), NEW size \in Nat, n >= size + 32,
         NEW p, p = a + kMetadataSize,
         NEW m, m = [q \in DOMAIN l \cup {p} |-> IF q = p THEN size ELSE l[q]]
  PROVE  Client(g, m)
<1>1. /\ Sound(g) /\ a \notin Allocated(h) /\ Allocated(g) = Allocated(h) \cup {a}
      /\ g.block[a].size >= n
      /\ \A x \in Allocated(h) : g.block[x].size = h.block[x].size
  BY DEF Allocates
<1>2. a \in Nat /\ g.block[a].size \in Nat
  BY <1>1, BlockType DEF Allocated, Sound, SoundBut
<1>3. p - kMetadataSize = a
  BY <1>2 DEF kMetadataSize
<1>4. p \notin DOMAIN l
  BY <1>1, <1>3, ClientBlock
<1>5. /\ DOMAIN m = DOMAIN l \cup {p} /\ m[p] = size
      /\ \A q \in DOMAIN l : m[q] = l[q]
      /\ m \in [DOMAIN m -> Nat]
  BY <1>4 DEF Client
<1>6. {b + kMetadataSize : b \in Allocated(g)} = DOMAIN l \cup {p}
  BY <1>1 DEF Client
<1>7. p + size + SizeofFooter <= EndOf(g, a)
  BY <1>1, <1>2 DEF EndOf, kMetadataSize, SizeofFooter
<1>8. \A q \in DOMAIN l : q + l[q] + SizeofFooter <= EndOf(g, q - kMetadataSize)
  <2>1. \A q \in DOMAIN l : EndOf(g, q - kMetadataSize) = EndOf(h, q - kMetadataSize)
    BY <1>1, ClientBlock DEF EndOf
  <2>2. QED
    BY <2>1 DEF Client
<1>9. QED
  BY <1>3, <1>5, <1>6, <1>7, <1>8 DEF Client

\* A block that is freed goes with its pointer.
LEMMA ClientFree ==
  ASSUME NEW h, Sound(h), NEW l, Client(h, l), NEW p \in DOMAIN l, NEW g,
         Allocated(g) = Allocated(h) \ {p - kMetadataSize},
         \A x \in Allocated(g) : g.block[x].size = h.block[x].size
  PROVE  Client(g, [q \in DOMAIN l \ {p} |-> l[q]])
<1>. DEFINE m == [q \in DOMAIN l \ {p} |-> l[q]]
<1>1. \A b \in Allocated(h) : b \in Nat
  BY BlockType DEF Allocated, Sound, SoundBut
<1>2. {b + kMetadataSize : b \in Allocated(g)} = DOMAIN l \ {p}
  <2>1. ASSUME NEW b \in Allocated(g) PROVE b + kMetadataSize \in DOMAIN l \ {p}
    <3>1. b \in Allocated(h) /\ b # p - kMetadataSize /\ b \in Nat
      BY <1>1
    <3>2. b + kMetadataSize \in DOMAIN l /\ p \in Nat
      BY <3>1, ClientBlock DEF Client
    <3>3. QED
      BY <3>1, <3>2 DEF kMetadataSize
  <2>2. ASSUME NEW q \in DOMAIN l \ {p}
        PROVE  \E b \in Allocated(g) : q = b + kMetadataSize
    <3>1. /\ q - kMetadataSize \in Allocated(h) /\ q = (q - kMetadataSize) + kMetadataSize
          /\ p = (p - kMetadataSize) + kMetadataSize
      BY ClientBlock
    <3>2. QED
      BY <3>1
  <2>3. QED
    BY <2>1, <2>2
<1>3. ASSUME NEW q \in DOMAIN l \ {p}
      PROVE  q + l[q] + SizeofFooter <= EndOf(g, q - kMetadataSize)
  <2>1. /\ q - kMetadataSize \in Allocated(h) /\ q = (q - kMetadataSize) + kMetadataSize
        /\ p = (p - kMetadataSize) + kMetadataSize
    BY ClientBlock
  <2>2. EndOf(g, q - kMetadataSize) = EndOf(h, q - kMetadataSize)
    BY <2>1 DEF EndOf
  <2>3. QED
    BY <2>2 DEF Client
<1>4. m \in [DOMAIN l \ {p} -> Nat]
  BY DEF Client
<1>5. QED
  BY <1>2, <1>3, <1>4 DEF Client

\* Blocks do not overlap, so what the client holds does not.
LEMMA HeldApart ==
  ASSUME NEW h, Sound(h), NEW l, Client(h, l),
         NEW p \in DOMAIN l, NEW q \in DOMAIN l, p # q
  PROVE  \/ p + l[p] + SizeofFooter <= q - kMetadataSize
         \/ q + l[q] + SizeofFooter <= p - kMetadataSize
<1>. DEFINE b == p - kMetadataSize
            c == q - kMetadataSize
<1>1. /\ b \in Blocks(h) /\ c \in Blocks(h) /\ b \in Nat /\ c \in Nat
      /\ p \in Nat /\ q \in Nat /\ b # c
  BY ClientBlock DEF Allocated
<1>2. /\ p + l[p] + SizeofFooter <= EndOf(h, b)
      /\ q + l[q] + SizeofFooter <= EndOf(h, c)
      /\ l[p] \in Nat /\ l[q] \in Nat
  BY DEF Client
<1>3. EndOf(h, b) <= c \/ EndOf(h, c) <= b
  BY <1>1 DEF Sound, SoundBut, Tiled
<1>4. EndOf(h, b) \in Nat /\ EndOf(h, c) \in Nat
  BY <1>1, BlockType DEF Sound, SoundBut
<1>. HIDE DEF b, c
<1>5. p + l[p] + SizeofFooter <= c \/ q + l[q] + SizeofFooter <= b
  BY <1>1, <1>2, <1>3, <1>4 DEF SizeofFooter
<1>6. QED
  BY <1>5 DEF b, c

-----------------------------------------------------------------------------
(* The grid *)

\* Blocks start at words, and chunks end at words below the end of the address
\* space: what makes a pointer handed out an aligned address.
Grid(h) ==
  /\ \A b \in Blocks(h) : b % kAlignment = 0
  /\ \A i \in ChunkIds(h) :
       h.ch_array[i].end % kAlignment = 0 /\ h.ch_array[i].end <= MmapTop

\* The heap InitHeap has no block.
LEMMA GridInit == Grid(InitHeap)
BY DEF Grid, InitHeap, Blocks, ChunkIds, first_index

\* Merging adds no block: the grid holds as long as the only new block is on it.
LEMMA GridKept ==
  ASSUME NEW h, Grid(h), NEW g, SameChunks(h, g),
         NEW a, a % kAlignment = 0, Blocks(g) \subseteq Blocks(h) \cup {a}
  PROVE  Grid(g)
BY DEF Grid, SameChunks, ChunkIds

\* A merge adds no block, and leaves the chunks.
LEMMA GridShrunk ==
  ASSUME NEW h, Grid(h), NEW g, SameChunks(h, g), Blocks(g) \subseteq Blocks(h)
  PROVE  Grid(g)
BY DEF Grid, SameChunks, ChunkIds

\* A recorded fault moves nothing.
LEMMA GridFaulted ==
  ASSUME NEW h, Grid(h), NEW how
  PROVE  Grid(Faulted(h, how))
BY DEF Faulted, Grid, Blocks, ChunkIds

\* A block ends at a word: it is followed by a block, or by the end of its chunk.
LEMMA EndOnGrid ==
  ASSUME NEW h, Sound(h), Grid(h), NEW b \in Blocks(h)
  PROVE  EndOf(h, b) % kAlignment = 0 /\ EndOf(h, b) <= MmapTop
<1>1. Tiled(h) /\ HeapType(h)
  BY DEF Sound, SoundBut
<1>. DEFINE c == h.ch_array[h.block[b].index]
<1>2. /\ h.block[b].index \in ChunkIds(h) /\ EndOf(h, b) <= c.end
      /\ EndOf(h, b) = c.end \/ EndOf(h, b) \in Blocks(h)
  BY <1>1 DEF Tiled, InChunk
<1>3. c.end % kAlignment = 0 /\ c.end <= MmapTop /\ c.end \in Nat /\ EndOf(h, b) \in Nat
  BY <1>1, <1>2, ChunkType, BlockType DEF Grid
<1>. HIDE DEF c
<1>4. QED
  BY <1>2, <1>3, LimitsAssumption DEF Grid

\* A chunk asked for in words, at a word, with a header of two words.
LEMMA GridRequested ==
  ASSUME NEW h, Grid(h), NEW g, Requested(h, g)
  PROVE  Grid(g)
<1>1. CASE g = h
  BY <1>1
<1>2. CASE g = Faulted(h, "table")
  BY <1>2, GridFaulted
<1>3. CASE \E base \in Nat, len \in Nat :
             Above(h, base, len) /\ base + len <= MmapTop /\ MapsChunk(h, g, base, len)
  <2>1. PICK base \in Nat, len \in Nat :
               Above(h, base, len) /\ base + len <= MmapTop /\ MapsChunk(h, g, base, len)
    BY <1>3
  <2>. DEFINE n == h.index_last_chunk_from_OS + 1
  <2>2. /\ ChunkIds(g) = ChunkIds(h) \cup {n}
        /\ g.ch_array[n] = [base |-> base, start |-> base + SizeofChunk, end |-> base + len]
        /\ \A i \in ChunkIds(h) : g.ch_array[i] = h.ch_array[i]
        /\ Blocks(g) \subseteq Blocks(h) \cup {base + SizeofChunk}
    BY <2>1 DEF MapsChunk
  <2>3. base % 8 = 0 /\ len % 8 = 0 /\ base \in Nat /\ len \in Nat
    BY <2>1 DEF Above, kAlignment
  <2>4. (base + SizeofChunk) % kAlignment = 0 /\ (base + len) % kAlignment = 0
    BY <2>3 DEF SizeofChunk, kAlignment
  <2>5. g.ch_array[n].end = base + len
    BY <2>2
  <2>6. QED
    BY <2>1, <2>2, <2>4, <2>5 DEF Grid
<1>4. QED
  BY <1>1, <1>2, <1>3 DEF Requested

\* What is cut off for a request is a whole number of words.
LEMMA TotalAligned ==
  ASSUME NEW size \in Nat
  PROVE  total_size(size) % kAlignment = 0
BY DEF total_size, round_up, kAlignment, kMetadataSize, SizeofFooter

\* A split at a word adds a block at a word.
LEMMA GridAllocated ==
  ASSUME NEW h, Sound(h), Grid(h), NEW b \in Blocks(h), NEW n \in Nat, n % kAlignment = 0,
         NEW a \in {b, EndOf(h, b) - n}, NEW g, Allocates(h, g, a, n)
  PROVE  Grid(g)
<1>1. EndOf(h, b) \in Nat /\ EndOf(h, b) % 8 = 0 /\ b \in Nat /\ b % 8 = 0 /\ n % 8 = 0
  BY EndOnGrid, BlockType DEF Sound, SoundBut, Grid, kAlignment
<1>2. a % kAlignment = 0
  <2>1. (EndOf(h, b) - n) % 8 = 0
    BY <1>1
  <2>2. QED
    BY <1>1, <2>1 DEF kAlignment
<1>3. QED
  BY <1>2, GridKept DEF Allocates

-----------------------------------------------------------------------------
(* The blocks of a chunk *)

\* Below the end of the address space there are finitely many blocks.
LEMMA FiniteBlocks ==
  ASSUME NEW h, Sound(h), Grid(h)
  PROVE  IsFiniteSet(Blocks(h)) /\ \A b \in Blocks(h) : b \in Nat /\ b <= MmapTop
<1>1. ASSUME NEW b \in Blocks(h) PROVE b \in Nat /\ b <= MmapTop
  <2>1. b \in Nat /\ h.block[b].size \in Nat /\ EndOf(h, b) = b + h.block[b].size
    BY BlockType DEF Sound, SoundBut, EndOf
  <2>2. EndOf(h, b) <= MmapTop
    BY EndOnGrid
  <2>3. QED
    BY <2>1, <2>2, LimitsAssumption
<1>2. Blocks(h) \in SUBSET Nat
  BY <1>1
<1>3. QED
  BY <1>1, <1>2, FS_BoundedSetOfNaturals, LimitsAssumption

\* The highest block of a chunk ends with it.
LEMMA LastOfChunk ==
  ASSUME NEW h, Sound(h), Grid(h), NEW i \in ChunkIds(h)
  PROVE  \E b \in Blocks(h) : h.block[b].index = i /\ EndOf(h, b) = h.ch_array[i].end
<1>. DEFINE W == {b \in Blocks(h) : h.block[b].index = i}
            D == {MmapTop - b : b \in W}
<1>1. Tiled(h) /\ HeapType(h)
  BY DEF Sound, SoundBut
<1>2. \A b \in W : b \in Nat /\ b <= MmapTop
  BY FiniteBlocks
<1>3. PICK d \in D : \A e \in D : d <= e
  <2>1. D \subseteq Nat
    BY <1>2, LimitsAssumption
  <2>2. D # {}
    BY <1>1 DEF Tiled
  <2>. HIDE DEF D
  <2>3. QED
    BY <2>1, <2>2, LeastNumber
<1>4. PICK b \in W : d = MmapTop - b
  BY <1>3
<1>5. \A c \in W : c <= b
  <2>1. ASSUME NEW c \in W PROVE c <= b
    <3>1. MmapTop - b <= MmapTop - c
      BY <1>3, <1>4
    <3>2. QED
      BY <1>2, <3>1, LimitsAssumption
  <2>2. QED
    BY <2>1
<1>6. EndOf(h, b) \notin W
  <2>1. /\ h.block[b].size >= 32 /\ h.block[b].size \in Nat /\ b \in Nat
        /\ EndOf(h, b) = b + h.block[b].size
    BY <1>1, BlockType DEF Tiled, EndOf, kMetadataSize, SizeofFooter
  <2>2. ~(EndOf(h, b) <= b)
    BY <2>1
  <2>3. QED
    BY <1>5, <2>2
<1>7. InChunk(h, b)
  BY <1>1 DEF Tiled
<1>8. QED
  BY <1>6, <1>7 DEF InChunk

\* What follows the last block of a chunk is the first one of the next chunk.
LEMMA NextChunk ==
  ASSUME NEW h, Sound(h), NEW b \in Blocks(h),
         EndOf(h, b) = h.ch_array[h.block[b].index].end
  PROVE  LET i == h.block[b].index
         IN  /\ i \in ChunkIds(h) /\ i \in Nat
             /\ get_next_block(h, b) =
                  IF i + 1 \in ChunkIds(h) THEN h.ch_array[i + 1].start ELSE NULL
<1>. DEFINE i == h.block[b].index
<1>1. HeapType(h) /\ ChunksApart(h) /\ Tiled(h)
  BY DEF Sound, SoundBut
<1>2. i \in ChunkIds(h) /\ i \in Nat /\ b + get_size(h, b) = EndOf(h, b) /\ EndOf(h, b) \in Nat
  BY <1>1, BlockType DEF Tiled, InChunk, get_size, EndOf
<1>3. h.ch_array[i].base + h.corr_size_arr[i] = EndOf(h, b)
  BY <1>1, <1>2 DEF ChunksApart
<1>4. h.index_last_chunk_from_OS \in -1 .. MAX_REQ - 1
  BY <1>1 DEF HeapType
<1>. HIDE DEF i
<1>5. i + 1 \in ChunkIds(h) <=> i + 1 < MAX_REQ /\ i + 1 <= h.index_last_chunk_from_OS
  BY <1>2, <1>4, LimitsAssumption DEF ChunkIds
<1>6. ~(b + get_size(h, b) < h.ch_array[i].base + h.corr_size_arr[i])
  BY <1>2, <1>3
<1>7. QED
  BY <1>2, <1>5, <1>6 DEF get_next_block, i

\* A chunk lies above the ones requested before.
LEMMA ChunkAbove ==
  ASSUME NEW h, Sound(h), NEW i \in ChunkIds(h), i + 1 \in ChunkIds(h)
  PROVE  /\ h.ch_array[i + 1].start \in Blocks(h)
         /\ h.ch_array[i + 1].start > h.ch_array[i].end
         /\ h.ch_array[i].end \in Nat /\ h.ch_array[i + 1].start \in Nat
<1>1. HeapType(h) /\ ChunksApart(h) /\ Tiled(h)
  BY DEF Sound, SoundBut
<1>2. i \in Int /\ i < i + 1
  BY DEF ChunkIds
<1>3. /\ h.ch_array[i].end <= h.ch_array[i + 1].base
      /\ h.ch_array[i + 1].start = h.ch_array[i + 1].base + SizeofChunk
  BY <1>1, <1>2 DEF ChunksApart
<1>4. h.ch_array[i].end \in Nat /\ h.ch_array[i + 1].base \in Nat
  BY <1>1, ChunkType
<1>5. QED
  BY <1>1, <1>3, <1>4 DEF Tiled, SizeofChunk

\* get_next_block leads upwards, and to each block but the first one.
LEMMA NextUpwards ==
  ASSUME NEW h, Sound(h), NEW b \in Blocks(h)
  PROVE  \/ get_next_block(h, b) = NULL
         \/ get_next_block(h, b) \in Blocks(h) /\ b < get_next_block(h, b)
<1>. DEFINE i == h.block[b].index
<1>1. HeapType(h) /\ ChunksApart(h) /\ Tiled(h)
  BY DEF Sound, SoundBut
<1>2. /\ b \in Nat /\ EndOf(h, b) \in Nat /\ b < EndOf(h, b)
  BY <1>1, BlockType DEF Tiled, EndOf, kMetadataSize, SizeofFooter
<1>3. CASE EndOf(h, b) # h.ch_array[i].end
  BY <1>1, <1>2, <1>3, NextBlock
<1>4. CASE EndOf(h, b) = h.ch_array[i].end
  <2>1. /\ i \in ChunkIds(h)
        /\ get_next_block(h, b) = IF i + 1 \in ChunkIds(h) THEN h.ch_array[i + 1].start ELSE NULL
    BY <1>4, NextChunk
  <2>2. CASE i + 1 \in ChunkIds(h)
    <3>. HIDE DEF i
    <3>1. /\ h.ch_array[i + 1].start \in Blocks(h)
          /\ h.ch_array[i + 1].start > h.ch_array[i].end
          /\ h.ch_array[i].end \in Nat /\ h.ch_array[i + 1].start \in Nat
      BY <2>1, <2>2, ChunkAbove
    <3>2. QED
      BY <1>2, <1>4, <2>1, <2>2, <3>1
  <2>3. QED
    BY <2>1, <2>2
<1>5. QED
  BY <1>3, <1>4

\* Each block but the first one is where get_next_block leads from another: a
\* neighbour in its chunk, or the last block of the chunk before.
LEMMA NextReaches ==
  ASSUME NEW h, Sound(h), Grid(h), NEW b \in Blocks(h), b # h.ch_array[0].start
  PROVE  \E a \in Blocks(h) : get_next_block(h, a) = b
<1>. DEFINE i == h.block[b].index
<1>1. HeapType(h) /\ ChunksApart(h) /\ Tiled(h) /\ InChunk(h, b) /\ i \in ChunkIds(h)
  BY DEF Sound, SoundBut, Tiled, InChunk
<1>2. CASE \E a \in Blocks(h) : EndOf(h, a) = b
  <2>1. PICK a \in Blocks(h) : EndOf(h, a) = b
    BY <1>2
  <2>2. b < h.ch_array[h.block[a].index].end /\ h.block[a].index \in ChunkIds(h)
    BY <1>1, <2>1, NeighbourInChunk DEF Tiled, InChunk
  <2>3. EndOf(h, a) # h.ch_array[h.block[a].index].end
    BY <1>1, <2>1, <2>2, ChunkType, BlockType
  <2>4. QED
    BY <1>1, <2>1, <2>3, NextBlock
<1>3. CASE b = h.ch_array[i].start
  <2>1. i # 0
    BY <1>3
  <2>. HIDE DEF i
  <2>2. h.index_last_chunk_from_OS \in Int
    BY <1>1, LimitsAssumption DEF HeapType
  <2>3. i - 1 \in ChunkIds(h) /\ (i - 1) + 1 = i
    BY <1>1, <2>1, <2>2 DEF ChunkIds
  <2>4. PICK a \in Blocks(h) : h.block[a].index = i - 1 /\ EndOf(h, a) = h.ch_array[i - 1].end
    BY <2>3, LastOfChunk
  <2>5. get_next_block(h, a) = h.ch_array[i].start
    BY <1>1, <2>3, <2>4, NextChunk
  <2>6. QED
    BY <1>3, <2>4, <2>5
<1>4. QED
  BY <1>1, <1>2, <1>3 DEF InChunk
=============================================================================
