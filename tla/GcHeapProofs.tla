---------------------------- MODULE GcHeapProofs -----------------------------
(***************************************************************************)
(* The memory of the collector (GcHeap) holds a heap of the allocator      *)
(* (Heap, here H) word by word, and each function of GcHeap does to the    *)
(* words what the function of that name does to the heap. So what          *)
(* HeapProofs says of heaps is true of the memory, whatever the words that *)
(* belong to no header, footer or link hold.                               *)
(***************************************************************************)
EXTENDS GcHeap, WalkProofs

\* src/mygc.c has a copy of the allocator of src/mymalloc.c; its chunks are
\* mapped upwards, and the OS may refuse one.
H == INSTANCE HeapProofs WITH Ascending <- TRUE, MmapMayFail <- TRUE

\* What HeapProofs assumes of the constants.
LEMMA HeapAssumptions ==
  /\ TRUE \in BOOLEAN /\ TRUE \in BOOLEAN
  /\ MAX_REQ \in Nat \ {0} /\ MmapTop \in Nat /\ kMaxAllocationSize \in Nat
  /\ \A a \in MmapBases : a \in Nat /\ a > 0 /\ a % H!kAlignment = 0
  /\ kMemorySize \in Nat /\ kMemorySize % H!kAlignment = 0
  /\ kMemorySize >= H!SizeofChunk + H!kMetadataSize + H!SizeofFooter
  /\ kMemorySize - H!SizeofChunk >= H!kAlignment * (N_LISTS - 1)
  /\ N_LISTS \in Nat \ {0}
BY ListsAssumption, MemoryAssumption, BasesAssumption, LimitsAssumption
   DEF kAlignment, SizeofChunk, kMetadataSize, SizeofFooter,
       H!kAlignment, H!SizeofChunk, H!kMetadataSize, H!SizeofFooter

\* The two modules have the same sizes.
LEMMA Names ==
  /\ H!NULL = 0 /\ H!kAlignment = 8 /\ H!kMetadataSize = 16
  /\ H!SizeofFooter = 16 /\ H!SizeofChunk = 16 /\ H!kMinAllocationSize = 8
  /\ NULL = 0 /\ kAlignment = 8 /\ kMetadataSize = 16
  /\ SizeofFooter = 16 /\ SizeofChunk = 16 /\ kMinAllocationSize = 8
  /\ \A s : H!Elements(s) = Elements(s)
  /\ \A n : H!calculate_index(n) = calculate_index(n)
  /\ \A n, k : H!round_up(n, k) = round_up(n, k)
  /\ \A n : H!total_size(n) = total_size(n)
BY DEF H!NULL, H!kAlignment, H!kMetadataSize, H!SizeofFooter, H!SizeofChunk,
       H!kMinAllocationSize, NULL, kAlignment, kMetadataSize, SizeofFooter, SizeofChunk,
       kMinAllocationSize, Elements, H!Elements, calculate_index, H!calculate_index,
       round_up, H!round_up, total_size, H!total_size

-----------------------------------------------------------------------------
(* Words, and what a store leaves of the others *)

Words == [lo : Int, hi : Nat, mark : {0, 1}]

\* The fields and their types, but for the order of the free lists.
MemType(m) ==
  /\ m = [index_last_chunk_from_OS |-> m.index_last_chunk_from_OS,
          ch_array        |-> m.ch_array,
          corr_size_arr   |-> m.corr_size_arr,
          free_lists      |-> m.free_lists,
          alloc_block_end |-> m.alloc_block_end,
          mem             |-> m.mem,
          fault           |-> m.fault]
  /\ m.mem \in [DOMAIN m.mem -> Words]
  /\ DOMAIN m.mem \subseteq Nat

\* n is m but for the words in W, and the heads of the free lists.
Stored(m, n, W) ==
  /\ MemType(n)
  /\ DOMAIN n.mem = DOMAIN m.mem
  /\ n.index_last_chunk_from_OS = m.index_last_chunk_from_OS
  /\ n.ch_array = m.ch_array /\ n.corr_size_arr = m.corr_size_arr
  /\ n.alloc_block_end = m.alloc_block_end /\ n.fault = m.fault
  /\ \A a : a \notin W => At(n, a) = At(m, a)

\* What a load yields.
LEMMA AtType ==
  ASSUME NEW m, MemType(m), NEW a
  PROVE  /\ At(m, a) \in Words
         /\ At(m, a).lo \in Int /\ At(m, a).hi \in Nat /\ At(m, a).mark \in {0, 1}
<1>1. At(m, a) \in Words
  BY DEF MemType, At, Word, Words
<1>2. QED
  BY <1>1 DEF Words

\* A store within the mappings.
LEMMA StoreFields ==
  ASSUME NEW m, MemType(m), NEW a \in DOMAIN m.mem, NEW w \in Words
  PROVE  LET n == Store(m, a, w)
         IN  /\ Stored(m, n, {a}) /\ n.free_lists = m.free_lists
             /\ At(n, a) = w
<1>. DEFINE n == Store(m, a, w)
<1>1. n = [m EXCEPT !.mem[a] = w]
  BY DEF Store
<1>2. /\ n.mem = [m.mem EXCEPT ![a] = w]
      /\ n.index_last_chunk_from_OS = m.index_last_chunk_from_OS
      /\ n.ch_array = m.ch_array /\ n.corr_size_arr = m.corr_size_arr
      /\ n.free_lists = m.free_lists
      /\ n.alloc_block_end = m.alloc_block_end /\ n.fault = m.fault
  BY <1>1 DEF MemType
<1>3. n = [index_last_chunk_from_OS |-> n.index_last_chunk_from_OS,
          ch_array        |-> n.ch_array,
          corr_size_arr   |-> n.corr_size_arr,
          free_lists      |-> n.free_lists,
          alloc_block_end |-> n.alloc_block_end,
          mem             |-> n.mem,
          fault           |-> n.fault]
  BY <1>1 DEF MemType
<1>4. DOMAIN n.mem = DOMAIN m.mem /\ n.mem \in [DOMAIN n.mem -> Words] /\ DOMAIN n.mem \subseteq Nat
  BY <1>2 DEF MemType
<1>5. At(n, a) = w /\ \A x : x \notin {a} => At(n, x) = At(m, x)
  BY <1>2, <1>4 DEF At, MemType
<1>6. QED
  BY <1>2, <1>3, <1>4, <1>5 DEF Stored, MemType

\* One store after the other.
LEMMA StoredTwice ==
  ASSUME NEW m, NEW n, NEW k, NEW V, NEW W, Stored(m, n, V), Stored(n, k, W)
  PROVE  Stored(m, k, V \cup W)
BY DEF Stored

\* A set of words may be enlarged.
LEMMA StoredMore ==
  ASSUME NEW m, NEW n, NEW V, NEW W, Stored(m, n, V), V \subseteq W
  PROVE  Stored(m, n, W)
BY DEF Stored

\* Nothing stored.
LEMMA StoredNone ==
  ASSUME NEW m, MemType(m), NEW W
  PROVE  Stored(m, m, W)
BY DEF Stored

\* A new head of a free list.
LEMMA StoredHead ==
  ASSUME NEW m, NEW n, NEW W, Stored(m, n, W), NEW i, NEW head
  PROVE  LET k == [n EXCEPT !.free_lists[i] = head]
         IN  /\ Stored(m, k, W)
             /\ k.free_lists = [n.free_lists EXCEPT ![i] = head]
             /\ \A a : At(k, a) = At(n, a)
BY DEF Stored, MemType, At

-----------------------------------------------------------------------------
(* Links *)

\* set_next_off writes the low half of the second word of a header.
LinkSet(m, n, from, to) ==
  /\ Stored(m, n, {from + 8}) /\ n.free_lists = m.free_lists
  /\ At(n, from + 8).lo = IF to = NULL THEN 0 ELSE to - from
  /\ At(n, from + 8).hi = At(m, from + 8).hi /\ At(n, from + 8).mark = At(m, from + 8).mark

\* set_next_off within the mappings.
LEMMA SetNextOff ==
  ASSUME NEW m, MemType(m), NEW from \in Nat, from + 8 \in DOMAIN m.mem, NEW to \in Nat
  PROVE  LinkSet(m, set_next_off(m, from, to), from, to)
<1>. DEFINE w == [At(m, from + 8) EXCEPT !.lo = IF to = NULL THEN 0 ELSE to - from]
<1>1. At(m, from + 8) \in Words
  BY AtType
<1>2. w \in Words /\ w.lo = (IF to = NULL THEN 0 ELSE to - from)
      /\ w.hi = At(m, from + 8).hi /\ w.mark = At(m, from + 8).mark
  BY <1>1 DEF Words
<1>3. set_next_off(m, from, to) = Store(m, from + 8, w)
  BY DEF set_next_off
<1>. HIDE DEF w
<1>4. QED
  BY <1>2, <1>3, StoreFields DEF LinkSet

-----------------------------------------------------------------------------
(* Lists *)

\* The links from head on spell s, a list of distinct headers.
Spells(m, head, s) ==
  /\ s \in Seq(Nat \ {NULL})
  /\ \A j, k \in DOMAIN s : s[j] = s[k] => j = k
  /\ \A k \in DOMAIN s : s[k] \in DOMAIN m.mem /\ s[k] + 8 \in DOMAIN m.mem
  /\ head = IF s = << >> THEN NULL ELSE s[1]
  /\ \A k \in DOMAIN s :
       get_next_through_off(m, s[k]) = IF k = Len(s) THEN NULL ELSE s[k + 1]

\* A loop along the links meets what they spell, and ends.
LEMMA ChainSpelled ==
  ASSUME NEW m, IsFiniteSet(DOMAIN m.mem), NEW head, NEW s, Spells(m, head, s)
  PROVE  Chain(m, head) = s /\ ~Lost(m, head)
<1>. DEFINE next == [x \in DOMAIN m.mem |-> get_next_through_off(m, x)]
            W == Elements(s)
            limit == Cardinality(DOMAIN m.mem)
            c == Follow(next, head, limit)
<1>1. /\ s \in Seq(Nat \ {0}) /\ Len(s) \in Nat /\ DOMAIN s = 1 .. Len(s)
      /\ \A k \in DOMAIN s : s[k] \in Nat \ {0} /\ s[k] \in DOMAIN next
      /\ \A j, k \in DOMAIN s : s[j] = s[k] => j = k
      /\ \A k \in DOMAIN s : next[s[k]] = IF k = Len(s) THEN NULL ELSE s[k + 1]
  BY DEF Spells, NULL
<1>2. limit \in Nat
  BY FS_CardinalityType
<1>3. Chain(m, head) = c
  BY DEF Chain
<1>. HIDE DEF next, limit
<1>4. c = s
  <2>1. CASE s = << >>
    <3>1. First(head) = << >>
      BY <2>1 DEF Spells, First
    <3>2. Extend(next, << >>) = << >>
      BY DEF Extend
    <3>3. c \in {<< >>}
      BY <1>2, <3>1, <3>2, FollowInduction
    <3>4. QED
      BY <2>1, <3>3
  <2>2. CASE s # << >>
    <3>1. head = s[1] /\ 1 \in DOMAIN s /\ head \in W /\ head # NULL
      BY <1>1, <2>2 DEF Spells, Elements, NULL
    <3>2. W \subseteq DOMAIN m.mem
      BY DEF Spells, Elements
    <3>3. IsFiniteSet(W) /\ Cardinality(W) <= limit
      BY <3>2, FS_Subset DEF limit
    <3>4. \A b \in W \cap DOMAIN next : next[b] \in W \cup {NULL}
      BY <1>1 DEF Elements
    <3>5. Path(next, head, W, c) /\ Extend(next, c) = c
      <4>. HIDE DEF W, c
      <4>1. QED
        BY <1>2, <3>1, <3>3, <3>4, FollowEnds DEF c
    <3>. HIDE DEF c, W
    <3>6. /\ c \in Seq(W) /\ Len(c) \in Nat \ {0} /\ DOMAIN c = 1 .. Len(c) /\ c[1] = head
          /\ \A k \in DOMAIN c : k + 1 \in DOMAIN c => c[k + 1] = next[c[k]]
      BY <3>5 DEF Path
    <3>60. Len(c) \in Nat /\ DOMAIN c = 1 .. Len(c)
      BY <3>6
    <3>61. Len(s) \in Nat /\ DOMAIN s = 1 .. Len(s)
      BY <1>1
    <3>7. DEFINE P(k) == k <= Len(s) => k <= Len(c) /\ \A j \in 1 .. k : c[j] = s[j]
                 S == {k \in Nat : P(k)}
    <3>8. 0 \in S
      BY <3>6
    <3>9. ASSUME NEW k \in Nat, k \in S PROVE k + 1 \in S
      <4>1. SUFFICES ASSUME k + 1 <= Len(s) PROVE k + 1 <= Len(c) /\ c[k + 1] = s[k + 1]
        BY <3>9, <1>1, <3>6
      <4>2. k <= Len(c) /\ \A j \in 1 .. k : c[j] = s[j]
        BY <3>9, <4>1, <1>1
      <4>3. CASE k = 0
        BY <4>3, <3>1, <3>6
      <4>4. CASE k # 0
        <5>1. k \in DOMAIN s /\ k + 1 \in DOMAIN s /\ k \in DOMAIN c /\ c[k] = s[k]
          BY <4>1, <4>2, <4>4, <1>1, <3>6
        <5>2. next[c[k]] = s[k + 1] /\ c[k] \in DOMAIN next /\ s[k + 1] # NULL
          BY <5>1, <1>1, <4>1 DEF NULL
        <5>3. k # Len(c)
          <6>1. SUFFICES ASSUME k = Len(c) PROVE FALSE
            OBVIOUS
          <6>2. s[k + 1] \notin Elements(c)
            <7>1. \A j \in DOMAIN c : c[j] = s[j] /\ j \in DOMAIN s /\ j # k + 1
              BY <6>1, <4>1, <4>2, <3>6, <1>1
            <7>2. QED
              BY <7>1, <5>1, <1>1 DEF Elements
          <6>3. Extend(next, c) = Append(c, s[k + 1])
            BY <5>1, <5>2, <6>1, <6>2, <3>6 DEF Extend
          <6>4. Len(Append(c, s[k + 1])) = Len(c) + 1
            BY <3>6
          <6>5. QED
            BY <3>5, <6>3, <6>4, <3>6
        <5>4. k + 1 \in DOMAIN c
          <6>1. k <= Len(c)
            BY <5>1, <3>60
          <6>2. Len(c) \in Nat
            BY <3>60
          <6>3. k + 1 \in 1 .. Len(c)
            BY <6>1, <6>2, <5>3
          <6>4. QED
            BY <6>3, <3>60
        <5>5. QED
          BY <5>1, <5>2, <5>4, <3>6
      <4>5. QED
        BY <4>3, <4>4
    <3>10. Nat \subseteq S
      <4>. HIDE DEF S
      <4>1. QED
        BY <3>8, <3>9, InductionOverNat
    <3>11. Len(s) <= Len(c) /\ \A j \in 1 .. Len(s) : c[j] = s[j]
      BY <3>10, <1>1
    <3>12. Len(c) <= Len(s)
      <4>1. SUFFICES ASSUME Len(s) < Len(c) PROVE FALSE
        BY <1>1, <3>6
      <4>2. Len(s) \in DOMAIN s /\ Len(s) \in DOMAIN c /\ Len(s) + 1 \in DOMAIN c
        BY <4>1, <3>1, <1>1, <3>6
      <4>3. c[Len(s) + 1] = NULL
        BY <4>2, <3>11, <3>6, <1>1
      <4>4. c[Len(s) + 1] \in W
        BY <4>2, <3>6
      <4>5. QED
        BY <4>3, <4>4, <1>1 DEF W, Elements, NULL
    <3>13. Len(c) = Len(s)
      <4>1. Len(c) \in Nat /\ Len(s) \in Nat
        BY <3>60, <3>61
      <4>2. Len(s) <= Len(c)
        BY <3>11
      <4>3. QED
        BY <4>1, <4>2, <3>12
    <3>14. QED
      BY <3>13, <3>11, <3>6, <1>1
  <2>3. QED
    BY <2>1, <2>2
<1>5. ~Lost(m, head)
  <2>1. Elements(s) \subseteq DOMAIN m.mem
    BY DEF Spells, Elements
  <2>2. s # << >> => get_next_through_off(m, s[Len(s)]) = NULL
    BY <1>1 DEF Spells
  <2>3. QED
    BY <1>3, <1>4, <2>1, <2>2 DEF Lost
<1>6. QED
  BY <1>3, <1>4, <1>5

\* Only links of the headers in X are written.
LinksOnly(m, n, X) ==
  /\ Stored(m, n, {x + 8 : x \in X})
  /\ \A x \in X : At(n, x + 8).hi = At(m, x + 8).hi /\ At(n, x + 8).mark = At(m, x + 8).mark

\* Links written elsewhere leave what a list spells.
LEMMA SpellsKept ==
  ASSUME NEW m, NEW head, NEW s, Spells(m, head, s), NEW n, DOMAIN m.mem \subseteq DOMAIN n.mem,
         \A k \in DOMAIN s : At(n, s[k] + 8).lo = At(m, s[k] + 8).lo
  PROVE  Spells(n, head, s)
<1>1. \A k \in DOMAIN s : get_next_through_off(n, s[k]) = get_next_through_off(m, s[k])
  BY DEF get_next_through_off
<1>2. QED
  BY <1>1 DEF Spells

\* A header put before a list.
LEMMA SpellsCons ==
  ASSUME NEW m, NEW head, NEW s, Spells(m, head, s), NEW b \in Nat \ {NULL}, b \notin Elements(s),
         b \in DOMAIN m.mem, b + 8 \in DOMAIN m.mem,
         NEW n, DOMAIN n.mem = DOMAIN m.mem,
         \A k \in DOMAIN s : At(n, s[k] + 8).lo = At(m, s[k] + 8).lo,
         At(n, b + 8).lo = IF head = NULL THEN 0 ELSE head - b
  PROVE  Spells(n, b, <<b>> \o s)
<1>. DEFINE t == <<b>> \o s
<1>1. Spells(n, head, s)
  BY SpellsKept
<1>3. s \in Seq(Nat \ {NULL}) /\ Len(s) \in Nat /\ DOMAIN s = 1 .. Len(s)
  BY DEF Spells
<1>2. /\ t \in Seq(Nat \ {NULL}) /\ Len(t) = Len(s) + 1 /\ DOMAIN t = 1 .. Len(s) + 1
      /\ t[1] = b /\ \A k \in DOMAIN s : t[k + 1] = s[k]
  <2>. DEFINE S == Nat \ {NULL}
  <2>1. s \in Seq(S) /\ b \in S
    BY <1>3
  <2>. HIDE DEF S
  <2>2. /\ t \in Seq(S) /\ Len(t) = Len(s) + 1 /\ DOMAIN t = 1 .. Len(s) + 1
        /\ t[1] = b /\ \A k \in DOMAIN s : t[k + 1] = s[k]
    BY <2>1, Cons
  <2>. HIDE DEF t
  <2>3. QED
    BY <2>2 DEF S
<1>. HIDE DEF t
<1>4. \A k \in DOMAIN t : k = 1 \/ (k - 1 \in DOMAIN s /\ t[k] = s[k - 1])
  <2>1. TAKE k \in DOMAIN t
  <2>2. k = 1 \/ (k - 1 \in DOMAIN s /\ (k - 1) + 1 = k)
    <3>1. k \in 1 .. Len(s) + 1
      BY <1>2
    <3>2. QED
      BY <1>3, <3>1
  <2>3. QED
    BY <1>2, <2>2
<1>5. \A j, k \in DOMAIN t : t[j] = t[k] => j = k
  <2>1. \A k \in DOMAIN s : s[k] # b
    BY DEF Elements
  <2>2. \A j, k \in DOMAIN s : s[j] = s[k] => j = k
    BY DEF Spells
  <2>3. TAKE j, k \in DOMAIN t
  <2>4. HAVE t[j] = t[k]
  <2>5. CASE j = 1 \/ k = 1
    BY <2>1, <2>4, <2>5, <1>2, <1>4
  <2>6. CASE j # 1 /\ k # 1
    <3>1. j - 1 = k - 1
      BY <2>2, <2>4, <2>6, <1>4
    <3>2. j \in Int /\ k \in Int
      BY <1>2
    <3>3. QED
      BY <3>1, <3>2
  <2>7. QED
    BY <2>5, <2>6
<1>6. \A k \in DOMAIN t : t[k] \in DOMAIN n.mem /\ t[k] + 8 \in DOMAIN n.mem
  BY <1>2, <1>4 DEF Spells
<1>7. get_next_through_off(n, b) = IF s = << >> THEN NULL ELSE s[1]
  <2>1. CASE s = << >>
    BY <2>1 DEF Spells, get_next_through_off
  <2>2. CASE s # << >>
    <3>1. 1 \in DOMAIN s /\ head = s[1] /\ head \in Nat \ {NULL} /\ head # b
      BY <2>2, <1>3 DEF Spells, Elements
    <3>2. QED
      BY <2>2, <3>1 DEF get_next_through_off, NULL
  <2>3. QED
    BY <2>1, <2>2
<1>8. \A k \in DOMAIN t : get_next_through_off(n, t[k]) = IF k = Len(t) THEN NULL ELSE t[k + 1]
  <2>1. TAKE k \in DOMAIN t
  <2>2. CASE k = 1
    <3>1. s = << >> <=> k = Len(t)
      BY <2>2, <1>2, <1>3
    <3>2. s # << >> => t[k + 1] = s[1]
      <4>1. s # << >> => 1 \in DOMAIN s
        BY <1>3
      <4>2. QED
        BY <4>1, <2>2, <1>2
    <3>3. QED
      BY <2>2, <3>1, <3>2, <1>7, <1>2
  <2>3. CASE k # 1
    <3>0. k \in 1 .. Len(s) + 1 /\ Len(s) \in Nat /\ Len(t) = Len(s) + 1
      BY <1>2, <1>3
    <3>1. k - 1 \in DOMAIN s /\ t[k] = s[k - 1] /\ (k = Len(t) <=> k - 1 = Len(s))
      <4>1. k - 1 \in DOMAIN s /\ t[k] = s[k - 1]
        BY <2>3, <1>4
      <4>2. k = Len(t) <=> k - 1 = Len(s)
        BY <3>0
      <4>3. QED
        BY <4>1, <4>2
    <3>2. k # Len(t) => k \in DOMAIN s /\ t[k + 1] = s[k]
      <4>1. k # Len(t) => k \in 1 .. Len(s)
        BY <3>0
      <4>2. QED
        BY <4>1, <1>2, <1>3
    <3>3. get_next_through_off(n, s[k - 1]) = IF k - 1 = Len(s) THEN NULL ELSE s[(k - 1) + 1]
      BY <3>1, <1>1 DEF Spells
    <3>4. k \in Int /\ (k - 1) + 1 = k
      BY <1>2
    <3>5. QED
      BY <3>1, <3>2, <3>3, <3>4
  <2>4. QED
    BY <2>2, <2>3
<1>9. t # << >>
  BY <1>2, <1>3
<1>10. QED
  BY <1>2, <1>5, <1>6, <1>8, <1>9 DEF Spells, t

\* The links of LinkSet only: one header's.
LEMMA LinkSetOnly ==
  ASSUME NEW m, NEW n, NEW b \in Nat, NEW to, LinkSet(m, n, b, to), NEW X, b \in X, X \subseteq Nat
  PROVE  /\ LinksOnly(m, n, X) /\ n.free_lists = m.free_lists
         /\ \A x \in Nat : x # b => At(n, x + 8) = At(m, x + 8)
<1>1. Stored(m, n, {b + 8}) /\ n.free_lists = m.free_lists
  BY DEF LinkSet
<1>2. Stored(m, n, {x + 8 : x \in X})
  BY <1>1, StoredMore
<1>3. \A x \in Nat : x # b => At(n, x + 8) = At(m, x + 8)
  <2>1. \A x \in Nat : x # b => x + 8 # b + 8
    OBVIOUS
  <2>2. QED
    BY <1>1, <2>1 DEF Stored
<1>4. At(n, b + 8).hi = At(m, b + 8).hi /\ At(n, b + 8).mark = At(m, b + 8).mark
  BY DEF LinkSet
<1>5. QED
  BY <1>1, <1>2, <1>3, <1>4 DEF LinksOnly

\* Links written one after the other.
LEMMA LinksOnlyTwice ==
  ASSUME NEW m, NEW n, NEW k, NEW X, LinksOnly(m, n, X), LinksOnly(n, k, X)
  PROVE  LinksOnly(m, k, X)
BY StoredTwice DEF LinksOnly

\* Unlinked takes b out of the list, and touches only links of the list.
Unlinks(m, s, b, k, u) ==
  /\ LinksOnly(m, u.heap, Elements(s)) /\ u.heap.free_lists = m.free_lists
  /\ Spells(u.heap, u.head, DropAt(s, k))
  /\ At(u.heap, b + 8).lo = 0
  /\ u.head \in Nat

\* A header that is in the list is taken out.
LEMMA UnlinkedSpelled ==
  ASSUME NEW m, MemType(m), IsFiniteSet(DOMAIN m.mem), NEW head, NEW s, Spells(m, head, s),
         NEW k \in DOMAIN s
  PROVE  Unlinks(m, s, s[k], k, Unlinked(m, head, s[k]))
<1>. DEFINE b    == s[k]
            u    == Unlinked(m, head, b)
            next == get_next_through_off(m, b)
            m1   == IF k = 1 THEN m ELSE set_next_off(m, s[k - 1], next)
            n    == set_next_off(m1, b, NULL)
            t    == DropAt(s, k)
            X    == Elements(s)
<1>1. /\ s \in Seq(Nat \ {0}) /\ Len(s) \in Nat /\ DOMAIN s = 1 .. Len(s)
      /\ \A j \in DOMAIN s : s[j] \in Nat \ {0} /\ s[j] + 8 \in DOMAIN m.mem
      /\ \A j \in DOMAIN s : s[j] \in DOMAIN m.mem
      /\ \A i, j \in DOMAIN s : s[i] = s[j] => i = j
  BY DEF Spells, NULL
<1>2. next = (IF k = Len(s) THEN 0 ELSE s[k + 1]) /\ next \in Nat
  <2>1. next = IF k = Len(s) THEN 0 ELSE s[k + 1]
    BY DEF Spells, NULL
  <2>2. k # Len(s) => k + 1 \in DOMAIN s
    BY <1>1
  <2>3. QED
    BY <1>1, <2>1, <2>2
<1>3. u = [heap |-> n, head |-> IF k = 1 THEN next ELSE head]
  <2>1. Chain(m, head) = s
    BY ChainSpelled
  <2>2. (CHOOSE j \in DOMAIN s : s[j] = b) = k
    BY <1>1
  <2>3. b \in Elements(s)
    BY DEF Elements
  <2>4. QED
    BY <2>1, <2>2, <2>3 DEF Unlinked
<1>4. X \subseteq Nat /\ \A j \in DOMAIN s : s[j] \in X
  BY <1>1 DEF Elements
<1>. HIDE DEF u, next
<1>5. k # 1 => k - 1 \in DOMAIN s
  BY <1>1
<1>6. /\ MemType(m1) /\ DOMAIN m1.mem = DOMAIN m.mem /\ LinksOnly(m, m1, X)
      /\ m1.free_lists = m.free_lists
      /\ \A j \in DOMAIN s : (k = 1 \/ j # k - 1) => At(m1, s[j] + 8) = At(m, s[j] + 8)
      /\ k # 1 => At(m1, s[k - 1] + 8).lo = IF next = NULL THEN 0 ELSE next - s[k - 1]
  <2>1. CASE k = 1
    <3>1. m1 = m
      BY <2>1
    <3>2. LinksOnly(m, m, X)
      BY StoredNone DEF LinksOnly
    <3>3. QED
      BY <2>1, <3>1, <3>2
  <2>2. CASE k # 1
    <3>1. m1 = set_next_off(m, s[k - 1], next)
      BY <2>2
    <3>2. LinkSet(m, m1, s[k - 1], next)
      <4>1. s[k - 1] \in Nat /\ s[k - 1] + 8 \in DOMAIN m.mem
        BY <1>1, <1>5, <2>2
      <4>2. QED
        BY <1>2, <3>1, <4>1, SetNextOff
    <3>. HIDE DEF m1
    <3>3. /\ LinksOnly(m, m1, X) /\ m1.free_lists = m.free_lists
          /\ \A x \in Nat : x # s[k - 1] => At(m1, x + 8) = At(m, x + 8)
      <4>1. s[k - 1] \in X /\ s[k - 1] \in Nat
        BY <1>1, <1>4, <1>5, <2>2
      <4>2. QED
        BY <1>4, <3>2, <4>1, LinkSetOnly
    <3>4. \A j \in DOMAIN s : j # k - 1 => s[j] # s[k - 1]
      BY <1>1, <1>5, <2>2
    <3>5. MemType(m1) /\ DOMAIN m1.mem = DOMAIN m.mem
      BY <3>2 DEF LinkSet, Stored
    <3>6. At(m1, s[k - 1] + 8).lo = IF next = NULL THEN 0 ELSE next - s[k - 1]
      BY <3>2 DEF LinkSet
    <3>7. QED
      BY <2>2, <3>3, <3>4, <3>5, <3>6, <1>1
  <2>3. QED
    BY <2>1, <2>2
<1>. HIDE DEF m1
<1>7. LinkSet(m1, n, b, NULL)
  BY <1>1, <1>6, SetNextOff DEF NULL
<1>. HIDE DEF n
<1>8. /\ LinksOnly(m1, n, X) /\ n.free_lists = m1.free_lists
      /\ \A x \in Nat : x # b => At(n, x + 8) = At(m1, x + 8)
  <2>1. b \in X /\ b \in Nat
    BY <1>1, <1>4
  <2>. HIDE DEF X, b
  <2>2. QED
    BY <1>4, <1>7, <2>1, LinkSetOnly
<1>9. LinksOnly(m, n, X) /\ n.free_lists = m.free_lists
  BY <1>6, <1>8, LinksOnlyTwice
<1>10. At(n, b + 8).lo = 0
  BY <1>7 DEF LinkSet
<1>11. \A j \in DOMAIN s : j # k => At(n, s[j] + 8) = At(m1, s[j] + 8)
  BY <1>1, <1>8
<1>12. DOMAIN n.mem = DOMAIN m.mem
  BY <1>9 DEF LinksOnly, Stored
<1>13. /\ t \in Seq(Nat \ {0}) /\ Len(t) = Len(s) - 1 /\ DOMAIN t = 1 .. Len(s) - 1
       /\ \A j \in DOMAIN t : t[j] = IF j < k THEN s[j] ELSE s[j + 1]
       /\ \A i, j \in DOMAIN t : t[i] = t[j] => i = j
  BY <1>1, DropAtElements
<1>. HIDE DEF t
<1>30. \A j : j \in DOMAIN s <=> j \in Int /\ 1 <= j /\ j <= Len(s)
  BY <1>1
<1>31. \A j : j \in DOMAIN t <=> j \in Int /\ 1 <= j /\ j <= Len(s) - 1
  BY <1>1, <1>13
<1>32. \A j \in DOMAIN t : t[j] = IF j < k THEN s[j] ELSE s[j + 1]
  BY <1>13
<1>33. Len(s) \in Int /\ k \in Int /\ 1 <= k /\ k <= Len(s)
  BY <1>1
<1>34. t # << >> <=> 1 \in DOMAIN t
  <2>1. t # << >> <=> Len(t) # 0
    BY <1>13
  <2>2. Len(t) \in Nat /\ DOMAIN t = 1 .. Len(t)
    BY <1>13
  <2>3. QED
    BY <2>1, <2>2
<1>35. \A j \in DOMAIN s : s[j] \in DOMAIN n.mem /\ s[j] + 8 \in DOMAIN n.mem
  BY <1>1, <1>12
<1>14. \A j \in DOMAIN t : t[j] \in DOMAIN n.mem /\ t[j] + 8 \in DOMAIN n.mem
  BY <1>30, <1>31, <1>32, <1>33, <1>35
<1>15. (IF k = 1 THEN next ELSE head) = (IF t = << >> THEN NULL ELSE t[1])
  <2>1. CASE k = 1
    <3>0. 1 \in DOMAIN t <=> Len(s) # 1
      <4>1. 1 \in DOMAIN t <=> 1 <= Len(s) - 1
        BY <1>31
      <4>2. Len(s) \in Int /\ 1 <= Len(s)
        BY <1>33
      <4>3. QED
        BY <4>1, <4>2
    <3>1. t = << >> <=> k = Len(s)
      BY <2>1, <3>0, <1>34
    <3>2. k # Len(s) => 1 \in DOMAIN t /\ t[1] = s[2]
      <4>1. ~(1 < k) /\ 1 + 1 = 2
        BY <2>1
      <4>2. 1 \in DOMAIN t => t[1] = s[2]
        BY <4>1, <1>32
      <4>3. QED
        BY <2>1, <3>0, <4>2
    <3>3. QED
      BY <2>1, <3>1, <3>2, <1>2 DEF NULL
  <2>2. CASE k # 1
    <3>1. 1 \in DOMAIN t /\ t[1] = s[1] /\ t # << >> /\ s # << >>
      <4>1. 1 \in DOMAIN t /\ 1 \in DOMAIN s
        BY <2>2, <1>30, <1>31, <1>33
      <4>2. t[1] = s[1]
        BY <4>1, <2>2, <1>32, <1>33
      <4>3. QED
        BY <4>1, <4>2
    <3>2. QED
      BY <2>2, <3>1 DEF Spells
  <2>3. QED
    BY <2>1, <2>2
<1>16. ASSUME NEW j \in DOMAIN t
       PROVE  get_next_through_off(n, t[j]) = IF j = Len(t) THEN NULL ELSE t[j + 1]
  <2>0. /\ j \in Int /\ Len(t) = Len(s) - 1 /\ Len(s) \in Int /\ k \in Int
        /\ j >= 1 /\ j <= Len(s) - 1 /\ k >= 1 /\ k <= Len(s)
    BY <1>1, <1>13
  <2>1. CASE k # 1 /\ j = k - 1
    <3>1. t[j] = s[k - 1] /\ At(n, s[k - 1] + 8).lo = (IF next = NULL THEN 0 ELSE next - s[k - 1])
      BY <2>0, <2>1, <1>13, <1>6, <1>11, <1>5
    <3>2. j = Len(t) <=> k = Len(s)
      BY <2>0, <2>1
    <3>3. k # Len(s) => t[j + 1] = s[k + 1] /\ next = s[k + 1] /\ s[k + 1] # 0 /\ s[k + 1] # s[k - 1]
      <4>1. k # Len(s) => k + 1 \in DOMAIN s /\ j + 1 \in DOMAIN t /\ ~(j + 1 < k) /\ (j + 1) + 1 = k + 1
                          /\ k - 1 \in DOMAIN s /\ k + 1 # k - 1
        BY <2>0, <2>1, <1>30, <1>31
      <4>2. QED
        BY <4>1, <1>1, <1>2, <1>13
    <3>4. s[k - 1] \in Nat \ {0} /\ next \in Nat /\ (k = Len(s) => next = 0)
      BY <2>1, <1>1, <1>2, <1>5
    <3>5. get_next_through_off(n, t[j]) = next
      BY <3>1, <3>3, <3>4 DEF get_next_through_off, NULL
    <3>6. QED
      BY <3>2, <3>3, <3>4, <3>5 DEF NULL
  <2>2. CASE ~(k # 1 /\ j = k - 1)
    <3>. DEFINE i == IF j < k THEN j ELSE j + 1
    <3>1. i \in DOMAIN s /\ i # k /\ (k = 1 \/ i # k - 1) /\ t[j] = s[i]
      BY <2>0, <2>2, <1>30, <1>32
    <3>2. At(n, s[i] + 8) = At(m, s[i] + 8)
      BY <3>1, <1>6, <1>11
    <3>3. get_next_through_off(n, s[i]) = get_next_through_off(m, s[i])
      BY <3>2 DEF get_next_through_off
    <3>4. get_next_through_off(m, s[i]) = IF i = Len(s) THEN NULL ELSE s[i + 1]
      BY <3>1 DEF Spells
    <3>5. i = Len(s) <=> j = Len(t)
      BY <2>0, <2>2
    <3>6. j # Len(t) => t[j + 1] = s[i + 1]
      <4>1. j # Len(t) => j + 1 \in DOMAIN t /\ i + 1 = IF j + 1 < k THEN j + 1 ELSE (j + 1) + 1
        <5>1. j # Len(t) => j + 1 \in DOMAIN t
          BY <2>0, <1>31
        <5>2. i + 1 = IF j + 1 < k THEN j + 1 ELSE (j + 1) + 1
          BY <2>0, <2>2
        <5>3. QED
          BY <5>1, <5>2
      <4>2. QED
        BY <4>1, <1>13
    <3>7. QED
      BY <3>1, <3>3, <3>4, <3>5, <3>6
  <2>3. QED
    BY <2>1, <2>2
<1>17. Spells(n, IF k = 1 THEN next ELSE head, t)
  BY <1>13, <1>14, <1>15, <1>16 DEF Spells, NULL
<1>18. (IF k = 1 THEN next ELSE head) \in Nat
  <2>1. s # << >> /\ 1 \in DOMAIN s
    BY <1>1
  <2>2. QED
    BY <1>1, <1>2, <2>1 DEF Spells
<1>19. u.heap = n /\ u.head = IF k = 1 THEN next ELSE head
  BY <1>3
<1>20. QED
  BY <1>9, <1>10, <1>17, <1>18, <1>19 DEF Unlinks, u, t

\* A header that is in no list is left alone.
LEMMA UnlinkedNone ==
  ASSUME NEW m, IsFiniteSet(DOMAIN m.mem), NEW head, NEW s, Spells(m, head, s),
         NEW b, b \notin Elements(s)
  PROVE  Unlinked(m, head, b) = [heap |-> m, head |-> head]
<1>1. Chain(m, head) = s /\ ~Lost(m, head)
  BY ChainSpelled
<1>2. QED
  BY <1>1 DEF Unlinked

\* Without drops the one occurrence of b.
LEMMA WithoutIsDrop ==
  ASSUME NEW S, NEW s \in Seq(S), \A j, k \in DOMAIN s : s[j] = s[k] => j = k, NEW i \in DOMAIN s
  PROVE  H!Without(s, s[i]) = DropAt(s, i)
<1>1. (CHOOSE k \in DOMAIN s : s[k] = s[i] /\ \A j \in 1 .. k - 1 : s[j] # s[i]) = i
  <2>1. \A j \in 1 .. i - 1 : s[j] # s[i]
    OBVIOUS
  <2>2. QED
    BY <2>1
<1>2. QED
  BY <1>1 DEF H!Without, DropAt

-----------------------------------------------------------------------------
(* The memory that holds a heap *)

\* The chunks, their words and their extent.
Mapped(m, h) ==
  /\ MemType(m)
  /\ m.index_last_chunk_from_OS = h.index_last_chunk_from_OS
  /\ m.ch_array = [i \in H!ChunkIds(h) |-> h.ch_array[i].base]
  /\ m.corr_size_arr = h.corr_size_arr
  /\ \A i \in H!ChunkIds(h) :
       /\ At(m, h.ch_array[i].base).lo = h.ch_array[i].start
       /\ At(m, h.ch_array[i].base + 8).lo = h.ch_array[i].end
  /\ DOMAIN m.mem = {a \in 0 .. MmapTop :
                       /\ a % 8 = 0
                       /\ \E i \in H!ChunkIds(h) : h.ch_array[i].base <= a /\ a < h.ch_array[i].end}

\* Header and footer of b. The footer's other word, the mark and the high half
\* of the first word are read by nothing that matters here.
HeaderHeld(m, h, b) ==
  /\ At(m, b).lo = h.block[b].size + h.block[b].alloc + 2 * h.block[b].prev_alloc
  /\ At(m, b + 8).hi = h.block[b].index
  /\ At(m, H!EndOf(h, b) - 16).lo = h.block[b].size

Headers(m, h) == \A b \in H!Blocks(h) : HeaderHeld(m, h, b)

ListsHeld(m, h) ==
  /\ m.free_lists \in [0 .. N_LISTS - 1 -> Nat]
  /\ \A i \in 0 .. N_LISTS - 1 : Spells(m, m.free_lists[i], h.free_lists[i])

Holds(m, h) == Mapped(m, h) /\ Headers(m, h) /\ ListsHeld(m, h)

\* Blocks at words that tile their chunks: what the layout of a sound heap is
\* between two stores, too.
Laid(h) == H!HeapType(h) /\ H!ChunksApart(h) /\ H!Tiled(h) /\ H!Grid(h)

\* A sound heap is laid, and so is one with odd blocks and seams.
LEMMA SoundLaid ==
  ASSUME NEW h, NEW odd, NEW seams, H!SoundBut(h, odd, seams), H!Grid(h)
  PROVE  Laid(h)
BY DEF Laid, H!SoundBut

\* A chunk of a laid heap.
LEMMA LaidChunk ==
  ASSUME NEW h, Laid(h), NEW i \in H!ChunkIds(h)
  PROVE  LET c == h.ch_array[i]
         IN  /\ i \in Nat /\ i < MAX_REQ /\ i <= h.index_last_chunk_from_OS
             /\ c.base \in Nat /\ c.start \in Nat /\ c.end \in Nat
             /\ c.start = c.base + 16 /\ c.start < c.end /\ c.end <= MmapTop
             /\ c.base % 8 = 0 /\ c.start % 8 = 0 /\ c.end % 8 = 0
             /\ h.corr_size_arr[i] \in Nat /\ c.base + h.corr_size_arr[i] = c.end
             /\ c.start \in H!Blocks(h) /\ h.block[c.start].index = i
<1>. DEFINE c == h.ch_array[i]
<1>1. /\ c.base \in Nat /\ c.start \in Nat /\ c.end \in Nat /\ h.corr_size_arr[i] \in Nat
  BY H!ChunkType, HeapAssumptions DEF Laid
<1>2. h.index_last_chunk_from_OS \in -1 .. MAX_REQ - 1
  BY DEF Laid, H!HeapType
<1>3. i \in 0 .. h.index_last_chunk_from_OS
  BY DEF H!ChunkIds
<1>4. i \in Nat /\ i < MAX_REQ /\ i <= h.index_last_chunk_from_OS
  BY <1>2, <1>3, HeapAssumptions
<1>5. c.start = c.base + 16 /\ c.start < c.end /\ c.end = c.base + h.corr_size_arr[i]
  BY Names DEF Laid, H!ChunksApart
<1>6. c.start \in H!Blocks(h) /\ h.block[c.start].index = i
  BY DEF Laid, H!Tiled
<1>7. c.start % 8 = 0 /\ c.end % 8 = 0 /\ c.end <= MmapTop
  BY <1>6, Names DEF Laid, H!Grid
<1>8. c.base % 8 = 0
  BY <1>1, <1>5, <1>7
<1>9. QED
  BY <1>1, <1>4, <1>5, <1>6, <1>7, <1>8

\* A block of a laid heap.
LEMMA LaidBlock ==
  ASSUME NEW h, Laid(h), NEW b \in H!Blocks(h)
  PROVE  LET i == h.block[b].index
         IN  /\ b \in Nat \ {0} /\ b % 8 = 0
             /\ h.block[b].size \in Nat /\ h.block[b].size >= 32 /\ h.block[b].size % 8 = 0
             /\ H!EndOf(h, b) = b + h.block[b].size
             /\ H!EndOf(h, b) \in Nat /\ H!EndOf(h, b) % 8 = 0
             /\ H!EndOf(h, b) <= MmapTop
             /\ h.block[b].alloc \in {0, 1} /\ h.block[b].prev_alloc \in {0, 1}
             /\ i \in H!ChunkIds(h) /\ i \in Nat
             /\ h.ch_array[i].start <= b /\ H!EndOf(h, b) <= h.ch_array[i].end
<1>. DEFINE i == h.block[b].index
<1>1. /\ b \in Nat \ {0} /\ h.block[b].size \in Nat /\ i \in Nat
      /\ h.block[b].alloc \in {0, 1} /\ h.block[b].prev_alloc \in {0, 1}
      /\ H!EndOf(h, b) \in Nat
  BY H!BlockType, HeapAssumptions DEF Laid
<1>2. H!InChunk(h, b) /\ h.block[b].size >= 32
  BY Names DEF Laid, H!Tiled
<1>3. /\ i \in H!ChunkIds(h) /\ h.ch_array[i].start <= b /\ H!EndOf(h, b) <= h.ch_array[i].end
      /\ H!EndOf(h, b) = h.ch_array[i].end \/ H!EndOf(h, b) \in H!Blocks(h)
  BY <1>2 DEF H!InChunk
<1>4. h.ch_array[i].end % 8 = 0 /\ h.ch_array[i].end <= MmapTop /\ h.ch_array[i].end \in Nat
  BY <1>3, LaidChunk
<1>5. \A x \in H!Blocks(h) : x % 8 = 0
  BY Names DEF Laid, H!Grid
<1>6. H!EndOf(h, b) % 8 = 0 /\ b % 8 = 0
  BY <1>3, <1>4, <1>5
<1>7. H!EndOf(h, b) = b + h.block[b].size
  BY DEF H!EndOf
<1>8. h.block[b].size % 8 = 0
  BY <1>1, <1>6, <1>7
<1>9. H!EndOf(h, b) <= MmapTop
  BY <1>1, <1>3, <1>4, HeapAssumptions
<1>10. QED
  BY <1>1, <1>2, <1>3, <1>6, <1>7, <1>8, <1>9

\* Blocks do not overlap, nor does a block and the Chunk of a chunk.
LEMMA Apart ==
  ASSUME NEW h, Laid(h), NEW x \in H!Blocks(h)
  PROVE  /\ \A y \in H!Blocks(h) : x = y \/ H!EndOf(h, x) <= y \/ H!EndOf(h, y) <= x
         /\ \A i \in H!ChunkIds(h) :
              h.ch_array[i].base + 16 <= x \/ H!EndOf(h, x) <= h.ch_array[i].base
<1>1. \A y \in H!Blocks(h) : x = y \/ H!EndOf(h, x) <= y \/ H!EndOf(h, y) <= x
  <2>1. \A b1, b2 \in H!Blocks(h) : b1 < b2 => H!EndOf(h, b1) <= b2
    BY DEF Laid, H!Tiled
  <2>2. \A y \in H!Blocks(h) : y \in Nat
    BY LaidBlock
  <2>3. QED
    BY <2>1, <2>2
<1>2. ASSUME NEW i \in H!ChunkIds(h)
      PROVE  h.ch_array[i].base + 16 <= x \/ H!EndOf(h, x) <= h.ch_array[i].base
  <2>. DEFINE j == h.block[x].index
  <2>1. /\ x \in Nat /\ j \in H!ChunkIds(h) /\ j \in Nat /\ H!EndOf(h, x) \in Nat
        /\ h.ch_array[j].start <= x /\ H!EndOf(h, x) <= h.ch_array[j].end
    BY LaidBlock
  <2>2. \A k, l \in H!ChunkIds(h) : k < l => h.ch_array[k].end <= h.ch_array[l].base
    BY DEF Laid, H!ChunksApart
  <2>3. /\ i \in Nat /\ h.ch_array[i].base \in Nat /\ h.ch_array[i].start \in Nat
        /\ h.ch_array[i].end \in Nat
        /\ h.ch_array[i].start = h.ch_array[i].base + 16 /\ h.ch_array[i].start < h.ch_array[i].end
    BY LaidChunk
  <2>4. /\ h.ch_array[j].base \in Nat /\ h.ch_array[j].start \in Nat /\ h.ch_array[j].end \in Nat
        /\ h.ch_array[j].start = h.ch_array[j].base + 16
    BY <2>1, LaidChunk
  <2>. HIDE DEF j
  <2>5. CASE i = j
    BY <2>1, <2>3, <2>5
  <2>6. CASE i < j
    <3>1. h.ch_array[i].end <= h.ch_array[j].base
      BY <2>1, <2>2, <2>6
    <3>2. QED
      BY <3>1, <2>1, <2>3, <2>4
  <2>7. CASE j < i
    <3>1. h.ch_array[j].end <= h.ch_array[i].base
      BY <2>1, <2>2, <2>7
    <3>2. QED
      BY <3>1, <2>1, <2>3, <2>4
  <2>8. QED
    BY <2>1, <2>3, <2>5, <2>6, <2>7
<1>3. QED
  BY <1>1, <1>2

\* The words of a block are mapped, and there are finitely many words.
LEMMA BlockWords ==
  ASSUME NEW h, Laid(h), NEW m, Mapped(m, h)
  PROVE  /\ IsFiniteSet(DOMAIN m.mem)
         /\ \A b \in H!Blocks(h) : \A a \in Nat :
              a % 8 = 0 /\ b <= a /\ a < H!EndOf(h, b) => a \in DOMAIN m.mem
<1>1. DOMAIN m.mem \subseteq 0 .. MmapTop
  BY DEF Mapped
<1>2. IsFiniteSet(0 .. MmapTop)
  BY FS_Interval, HeapAssumptions
<1>3. IsFiniteSet(DOMAIN m.mem)
  BY <1>1, <1>2, FS_Subset
<1>4. ASSUME NEW b \in H!Blocks(h), NEW a \in Nat, a % 8 = 0, b <= a, a < H!EndOf(h, b)
      PROVE  a \in DOMAIN m.mem
  <2>. DEFINE i == h.block[b].index
  <2>1. /\ i \in H!ChunkIds(h) /\ h.ch_array[i].start <= b /\ H!EndOf(h, b) <= h.ch_array[i].end
        /\ b \in Nat /\ H!EndOf(h, b) \in Nat
    BY LaidBlock
  <2>2. /\ h.ch_array[i].base \in Nat /\ h.ch_array[i].end \in Nat /\ h.ch_array[i].end <= MmapTop
        /\ h.ch_array[i].start = h.ch_array[i].base + 16
    BY <2>1, LaidChunk
  <2>. HIDE DEF i
  <2>3. h.ch_array[i].base <= a /\ a < h.ch_array[i].end /\ a <= MmapTop
    BY <1>4, <2>1, <2>2, HeapAssumptions
  <2>4. a \in 0 .. MmapTop
    BY <2>3, HeapAssumptions
  <2>5. QED
    BY <1>4, <2>1, <2>3, <2>4 DEF Mapped
<1>5. QED
  BY <1>3, <1>4

-----------------------------------------------------------------------------
(* Reads *)

\* The flags are the low bits of a size that is a multiple of the word.
LEMMA Flags ==
  ASSUME NEW s \in Nat, s % 8 = 0, NEW a \in {0, 1}, NEW p \in {0, 1}
  PROVE  LET n == s + a + 2 * p
         IN  n \in Nat /\ n % 4 = a + 2 * p /\ n % 2 = a /\ (n \div 2) % 2 = p /\ n - (n % 4) = s
<1>1. PICK k \in Nat : s = 8 * k
  <2>1. s = 8 * (s \div 8) /\ s \div 8 \in Nat
    OBVIOUS
  <2>2. QED
    BY <2>1
<1>2. QED
  BY <1>1

\* The same as one fact of s, a and p.
FlagsRead(s, a, p) ==
  LET n == s + a + 2 * p
  IN  n % 4 = a + 2 * p /\ n % 2 = a /\ (n \div 2) % 2 = p /\ n - (n % 4) = s

LEMMA FlagsOf ==
  ASSUME NEW s \in Nat, s % 8 = 0, NEW a \in {0, 1}, NEW p \in {0, 1}
  PROVE  FlagsRead(s, a, p)
<1>1. PICK k \in Nat : s = 8 * k
  <2>1. s = 8 * (s \div 8) /\ s \div 8 \in Nat
    OBVIOUS
  <2>2. QED
    BY <2>1
<1>2. QED
  BY <1>1 DEF FlagsRead

\* The last two words below a word.
LEMMA WordsBelow ==
  ASSUME NEW e \in Nat, e % 8 = 0, NEW b \in Nat, e >= b + 32
  PROVE  /\ e - 16 \in Nat /\ (e - 16) % 8 = 0
         /\ e - 8 \in Nat /\ (e - 8) % 8 = 0
<1>1. PICK k \in Nat : e = 8 * k
  <2>1. e = 8 * (e \div 8) /\ e \div 8 \in Nat
    OBVIOUS
  <2>2. QED
    BY <2>1
<1>2. /\ e - 16 = 8 * (k - 2) /\ e - 8 = 8 * (k - 1)
      /\ k - 2 \in Int /\ k - 1 \in Int
  BY <1>1
<1>3. \A j \in Int : (8 * j) % 8 = 0
  OBVIOUS
<1>4. QED
  BY <1>2, <1>3

\* A size less another one.
LEMMA SizeLeft ==
  ASSUME NEW s \in Nat, s % 8 = 0, NEW n \in Nat, n % 8 = 0, s - n >= 32
  PROVE  s - n \in Nat /\ (s - n) % 8 = 0
<1>1. PICK k \in Nat, j \in Nat : s = 8 * k /\ n = 8 * j
  <2>1. s = 8 * (s \div 8) /\ s \div 8 \in Nat /\ n = 8 * (n \div 8) /\ n \div 8 \in Nat
    OBVIOUS
  <2>2. QED
    BY <2>1
<1>2. s - n = 8 * (k - j) /\ k - j \in Int
  BY <1>1
<1>3. \A i \in Int : (8 * i) % 8 = 0
  OBVIOUS
<1>4. QED
  BY <1>2, <1>3

\* What the functions that read a header see.
Read(m, h, b) ==
  /\ get_size(m, b) = h.block[b].size
  /\ At(m, b).lo % 4 = h.block[b].alloc + 2 * h.block[b].prev_alloc
  /\ is_allocated(m, b) <=> h.block[b].alloc = 1
  /\ is_prev_allocated(m, b) <=> h.block[b].prev_alloc = 1
  /\ get_chunk_index(m, b) = h.block[b].index
  /\ b + get_size(m, b) = H!EndOf(h, b)
  /\ footer_of(m, b) = H!EndOf(h, b) - 16

\* They see the size, the flags and the index of the block.
LEMMA Reads ==
  ASSUME NEW h, Laid(h), NEW m, NEW b \in H!Blocks(h), HeaderHeld(m, h, b)
  PROVE  Read(m, h, b)
<1>. DEFINE f == h.block[b]
            s == f.size
            a == f.alloc
            p == f.prev_alloc
            w == At(m, b).lo
<1>1. s \in Nat /\ s % 8 = 0 /\ a \in {0, 1} /\ p \in {0, 1} /\ b \in Nat
      /\ H!EndOf(h, b) = b + s
  BY LaidBlock
<1>2. w = s + a + 2 * p /\ At(m, b + 8).hi = f.index
  BY DEF HeaderHeld
<1>3. w % 4 = a + 2 * p /\ w % 2 = a /\ (w \div 2) % 2 = p /\ w - (w % 4) = s
  <2>1. s \in Nat /\ s % 8 = 0 /\ a \in {0, 1} /\ p \in {0, 1}
    BY <1>1
  <2>. HIDE DEF s, a, p
  <2>2. LET n == s + a + 2 * p
        IN  n % 4 = a + 2 * p /\ n % 2 = a /\ (n \div 2) % 2 = p /\ n - (n % 4) = s
    <3>1. FlagsRead(s, a, p)
      BY <2>1, FlagsOf
    <3>2. QED
      BY <3>1, Zenon DEF FlagsRead
  <2>. HIDE DEF w
  <2>3. QED
    BY <1>2, <2>2
<1>4. get_size(m, b) = s
  BY <1>3 DEF get_size
<1>5. footer_of(m, b) = H!EndOf(h, b) - 16
  <2>. HIDE DEF s
  <2>1. QED
    BY <1>1, <1>4, Names DEF footer_of
<1>6. QED
  BY <1>1, <1>2, <1>3, <1>4, <1>5
     DEF Read, is_allocated, is_prev_allocated, get_chunk_index

\* What the functions that read a Chunk see.
LEMMA ChunkReads ==
  ASSUME NEW h, Laid(h), NEW m, Mapped(m, h)
  PROVE  /\ ChunkIds(m) = H!ChunkIds(h)
         /\ \A i \in H!ChunkIds(h) :
              /\ StartOf(m, i) = h.ch_array[i].start
              /\ EndOfChunk(m, i) = h.ch_array[i].end
              /\ m.ch_array[i] = h.ch_array[i].base
              /\ m.corr_size_arr[i] = h.corr_size_arr[i]
              /\ m.ch_array[i] + m.corr_size_arr[i] = h.ch_array[i].end
<1>1. ChunkIds(m) = H!ChunkIds(h)
  BY DEF Mapped, ChunkIds, H!ChunkIds
<1>2. ASSUME NEW i \in H!ChunkIds(h)
      PROVE  /\ StartOf(m, i) = h.ch_array[i].start
             /\ EndOfChunk(m, i) = h.ch_array[i].end
             /\ m.ch_array[i] = h.ch_array[i].base
             /\ m.corr_size_arr[i] = h.corr_size_arr[i]
             /\ m.ch_array[i] + m.corr_size_arr[i] = h.ch_array[i].end
  <2>1. m.ch_array[i] = h.ch_array[i].base
    BY DEF Mapped
  <2>2. m.corr_size_arr[i] = h.corr_size_arr[i]
    BY DEF Mapped
  <2>3. h.ch_array[i].base + h.corr_size_arr[i] = h.ch_array[i].end
    BY LaidChunk
  <2>4. At(m, h.ch_array[i].base).lo = h.ch_array[i].start
        /\ At(m, h.ch_array[i].base + 8).lo = h.ch_array[i].end
    BY DEF Mapped
  <2>5. QED
    BY <2>1, <2>2, <2>3, <2>4 DEF StartOf, EndOfChunk
<1>3. QED
  BY <1>1, <1>2

\* The walk and its fences are those of the heap.
LEMMA NextRead ==
  ASSUME NEW h, Laid(h), NEW m, Mapped(m, h), NEW b \in H!Blocks(h), HeaderHeld(m, h, b)
  PROVE  /\ get_next_block(m, b) = H!get_next_block(h, b)
         /\ is_prev_outside_chunk(m, b) <=> H!is_prev_outside_chunk(h, b)
         /\ is_next_outside_chunk(m, b) <=> H!is_next_outside_chunk(h, b)
<1>. DEFINE i == h.block[b].index
<1>1. Read(m, h, b)
  BY Reads
<1>2. b # 0 /\ i \in H!ChunkIds(h) /\ i \in Nat
  BY LaidBlock
<1>3. get_chunk_index(m, b) = i /\ b + get_size(m, b) = b + H!get_size(h, b)
  BY <1>1 DEF Read, H!get_size
<1>4. /\ StartOf(m, i) = h.ch_array[i].start /\ EndOfChunk(m, i) = h.ch_array[i].end
      /\ m.ch_array[i] + m.corr_size_arr[i] = h.ch_array[i].base + h.corr_size_arr[i]
  BY <1>2, ChunkReads
<1>. HIDE DEF i
<1>5. i + 1 \in ChunkIds(m) <=> i + 1 <= h.index_last_chunk_from_OS
  <2>1. m.index_last_chunk_from_OS = h.index_last_chunk_from_OS
    BY DEF Mapped
  <2>2. h.index_last_chunk_from_OS \in -1 .. MAX_REQ - 1
    BY DEF Laid, H!HeapType
  <2>3. h.index_last_chunk_from_OS \in Int
    BY <2>2, HeapAssumptions
  <2>4. QED
    BY <1>2, <2>1, <2>3 DEF ChunkIds
<1>6. i + 1 <= h.index_last_chunk_from_OS => StartOf(m, i + 1) = h.ch_array[i + 1].start
  <2>1. i + 1 \in ChunkIds(m) => StartOf(m, i + 1) = h.ch_array[i + 1].start
    BY ChunkReads
  <2>2. QED
    BY <1>5, <2>1
<1>7. get_next_block(m, b) = H!get_next_block(h, b)
  <2>1. H!get_next_block(h, b) =
          IF b + H!get_size(h, b) < h.ch_array[i].base + h.corr_size_arr[i]
          THEN b + H!get_size(h, b)
          ELSE IF i + 1 < MAX_REQ /\ i + 1 <= h.index_last_chunk_from_OS
               THEN h.ch_array[i + 1].start ELSE 0
    BY Names DEF H!get_next_block, i
  <2>2. get_next_block(m, b) =
          IF b + get_size(m, b) < m.ch_array[i] + m.corr_size_arr[i]
          THEN b + get_size(m, b)
          ELSE IF i + 1 < MAX_REQ /\ i + 1 \in ChunkIds(m) THEN StartOf(m, i + 1) ELSE 0
    BY <1>2, <1>3, Names DEF get_next_block
  <2>3. QED
    BY <2>1, <2>2, <1>3, <1>4, <1>5, <1>6
<1>8. H!get_chunk(h, b) = h.ch_array[i]
  BY DEF H!get_chunk, i
<1>9. is_prev_outside_chunk(m, b) <=> H!is_prev_outside_chunk(h, b)
  BY <1>3, <1>4, <1>8 DEF is_prev_outside_chunk, H!is_prev_outside_chunk
<1>10. is_next_outside_chunk(m, b) <=> H!is_next_outside_chunk(h, b)
  BY <1>3, <1>4, <1>7, <1>8, Names DEF is_next_outside_chunk, H!is_next_outside_chunk
<1>11. QED
  BY <1>7, <1>9, <1>10

-----------------------------------------------------------------------------
(* What a store leaves *)

\* w is a word of a block.
InBlocks(h, w) == \E b \in H!Blocks(h) : b <= w /\ w < H!EndOf(h, b)

\* Stores within blocks leave the chunks.
LEMMA MappedKept ==
  ASSUME NEW h, Laid(h), NEW m, Mapped(m, h), NEW n, NEW W, Stored(m, n, W),
         \A w \in W : InBlocks(h, w), NEW g, H!SameChunks(h, g)
  PROVE  Mapped(n, g)
<1>1. /\ g.index_last_chunk_from_OS = h.index_last_chunk_from_OS
      /\ g.ch_array = h.ch_array /\ g.corr_size_arr = h.corr_size_arr
      /\ H!ChunkIds(g) = H!ChunkIds(h)
  BY DEF H!SameChunks, H!ChunkIds
<1>2. ASSUME NEW i \in H!ChunkIds(h)
      PROVE  h.ch_array[i].base \notin W /\ h.ch_array[i].base + 8 \notin W
  <2>1. ASSUME NEW w \in W, w = h.ch_array[i].base \/ w = h.ch_array[i].base + 8
        PROVE  FALSE
    <3>1. PICK b \in H!Blocks(h) : b <= w /\ w < H!EndOf(h, b)
      BY <2>1 DEF InBlocks
    <3>2. h.ch_array[i].base + 16 <= b \/ H!EndOf(h, b) <= h.ch_array[i].base
      BY Apart
    <3>3. h.ch_array[i].base \in Nat /\ b \in Nat /\ H!EndOf(h, b) \in Nat
      BY LaidChunk, LaidBlock
    <3>4. QED
      BY <2>1, <3>1, <3>2, <3>3
  <2>2. QED
    BY <2>1
<1>3. \A i \in H!ChunkIds(h) :
        /\ At(n, h.ch_array[i].base) = At(m, h.ch_array[i].base)
        /\ At(n, h.ch_array[i].base + 8) = At(m, h.ch_array[i].base + 8)
  BY <1>2 DEF Stored
<1>4. QED
  BY <1>1, <1>3 DEF Mapped, Stored

\* A store elsewhere leaves a header and a footer.
LEMMA HeaderKept ==
  ASSUME NEW m, NEW h, NEW x, HeaderHeld(m, h, x), NEW n, NEW W, Stored(m, n, W),
         x \notin W, x + 8 \notin W, H!EndOf(h, x) - 16 \notin W,
         NEW g, g.block[x] = h.block[x]
  PROVE  HeaderHeld(n, g, x)
<1>1. H!EndOf(g, x) = H!EndOf(h, x)
  BY DEF H!EndOf
<1>2. QED
  BY <1>1 DEF HeaderHeld, Stored

\* Nor do links written in headers: the link is a field of its own.
LEMMA LinksHeaders ==
  ASSUME NEW h, Laid(h), NEW m, Headers(m, h), NEW X, X \subseteq H!Blocks(h),
         NEW n, LinksOnly(m, n, X)
  PROVE  /\ Headers(n, h)
         /\ \A w \in {x + 8 : x \in X} : InBlocks(h, w)
         /\ \A x \in H!Blocks(h) \ X : At(n, x + 8) = At(m, x + 8)
<1>1. Stored(m, n, {x + 8 : x \in X})
  BY DEF LinksOnly
<1>2. ASSUME NEW x \in H!Blocks(h), NEW y \in X
      PROVE  /\ x # y + 8 /\ H!EndOf(h, x) - 16 # y + 8 /\ InBlocks(h, y + 8)
             /\ (x + 8 = y + 8 => x = y)
  <2>1. y \in H!Blocks(h)
    OBVIOUS
  <2>2. /\ x \in Nat /\ H!EndOf(h, x) = x + h.block[x].size
        /\ h.block[x].size \in Nat /\ h.block[x].size >= 32
    BY LaidBlock
  <2>3. /\ y \in Nat /\ H!EndOf(h, y) = y + h.block[y].size
        /\ h.block[y].size \in Nat /\ h.block[y].size >= 32
    BY <2>1, LaidBlock
  <2>4. x = y \/ H!EndOf(h, x) <= y \/ H!EndOf(h, y) <= x
    BY <2>1, Apart
  <2>5. InBlocks(h, y + 8)
    BY <2>1, <2>3 DEF InBlocks
  <2>6. QED
    BY <2>2, <2>3, <2>4, <2>5
<1>3. ASSUME NEW x \in H!Blocks(h)
      PROVE  HeaderHeld(n, h, x)
  <2>1. At(n, x) = At(m, x) /\ At(n, H!EndOf(h, x) - 16) = At(m, H!EndOf(h, x) - 16)
    BY <1>1, <1>2 DEF Stored
  <2>2. At(n, x + 8).hi = At(m, x + 8).hi
    <3>1. CASE x \in X
      BY <3>1 DEF LinksOnly
    <3>2. CASE x \notin X
      BY <1>1, <1>2, <3>2 DEF Stored
    <3>3. QED
      BY <3>1, <3>2
  <2>3. QED
    BY <2>1, <2>2 DEF HeaderHeld, Headers
<1>4. \A x \in H!Blocks(h) \ X : At(n, x + 8) = At(m, x + 8)
  BY <1>1, <1>2 DEF Stored
<1>5. H!Blocks(h) = {} => X = {}
  OBVIOUS
<1>6. \A w \in {x + 8 : x \in X} : InBlocks(h, w)
  BY <1>2
<1>7. QED
  BY <1>3, <1>4, <1>6 DEF Headers

-----------------------------------------------------------------------------
(* Free lists *)

FreeBlocks(h) == {x \in H!Blocks(h) : H!IsFree(h, x)}

\* A block of one free list is in no other, and is free.
LEMMA ListedBlock ==
  ASSUME NEW h, NEW odd, H!Listed(h, odd), NEW i \in 0 .. N_LISTS - 1,
         NEW k \in DOMAIN h.free_lists[i]
  PROVE  /\ h.free_lists[i][k] \in FreeBlocks(h) \ odd
         /\ calculate_index(h.block[h.free_lists[i][k]].size) = i
BY Names DEF H!Listed, H!FreeLists, FreeBlocks

\* Lists other than i are as before when only links of list i are written.
LEMMA ListsKept ==
  ASSUME NEW h, NEW odd, H!Listed(h, odd), NEW m, ListsHeld(m, h),
         NEW i \in 0 .. N_LISTS - 1, NEW n, LinksOnly(m, n, Elements(h.free_lists[i])),
         Laid(h), NEW j \in 0 .. N_LISTS - 1, j # i
  PROVE  Spells(n, m.free_lists[j], h.free_lists[j])
<1>. DEFINE s == h.free_lists[j]
<1>1. Spells(m, m.free_lists[j], s)
  BY DEF ListsHeld
<1>2. ASSUME NEW k \in DOMAIN s
      PROVE  At(n, s[k] + 8) = At(m, s[k] + 8)
  <2>1. s[k] \in H!Blocks(h) /\ calculate_index(h.block[s[k]].size) = j
    BY ListedBlock DEF FreeBlocks
  <2>2. \A x \in Elements(h.free_lists[i]) :
          x \in H!Blocks(h) /\ calculate_index(h.block[x].size) = i
    BY ListedBlock DEF FreeBlocks, Elements
  <2>3. ASSUME NEW x \in Elements(h.free_lists[i]) PROVE s[k] + 8 # x + 8
    <3>1. x # s[k]
      BY <2>1, <2>2
    <3>2. x \in Nat /\ s[k] \in Nat
      BY <2>1, <2>2, LaidBlock
    <3>. HIDE DEF s
    <3>3. QED
      BY <3>1, <3>2
  <2>4. QED
    BY <2>3 DEF LinksOnly, Stored
<1>3. DOMAIN m.mem \subseteq DOMAIN n.mem
  BY DEF LinksOnly, Stored
<1>. HIDE DEF s
<1>4. QED
  BY <1>1, <1>2, <1>3, SpellsKept DEF s

\* remove_from_free_list does to the words what it does to the heap: only links
\* of free blocks are written.
RemoveHeld(m, n, h, g) ==
  Holds(n, g) /\ LinksOnly(m, n, FreeBlocks(h))

\* remove_from_free_list, of a block that is in a free list or in none.
LEMMA Removed ==
  ASSUME NEW h, Laid(h), NEW odd, H!Listed(h, odd), NEW m, Holds(m, h), NEW b \in H!Blocks(h)
  PROVE  RemoveHeld(m, remove_from_free_list(m, b), h, H!remove_from_free_list(h, b))
<1>. DEFINE i == calculate_index(h.block[b].size)
            s == h.free_lists[i]
            g == H!remove_from_free_list(h, b)
            u == Unlinked(m, m.free_lists[i], b)
            n == [u.heap EXCEPT !.free_lists[i] = u.head]
<1>1. Mapped(m, h) /\ Headers(m, h) /\ ListsHeld(m, h) /\ MemType(m)
  BY DEF Holds, Mapped
<1>2. get_size(m, b) = h.block[b].size
  BY <1>1, Reads DEF Headers, Read
<1>3. i \in 0 .. N_LISTS - 1
  <2>1. h.block[b].size \in Nat
    BY LaidBlock
  <2>2. QED
    BY <2>1, H!IndexInRange, HeapAssumptions, Names DEF H!FreeLists
<1>4. remove_from_free_list(m, b) = n
  BY <1>2 DEF remove_from_free_list, with_free_list
<1>5. g = [h EXCEPT !.free_lists[i] = H!Without(@, b)]
  BY Names DEF H!remove_from_free_list, H!get_size
<1>6. h.free_lists \in [0 .. N_LISTS - 1 -> Seq(Nat)]
  BY DEF Laid, H!HeapType, H!FreeLists
<1>. HIDE DEF i
<1>7. /\ g.free_lists = [h.free_lists EXCEPT ![i] = H!Without(s, b)]
      /\ g.block = h.block /\ H!SameChunks(h, g)
  <2>1. h = [index_last_chunk_from_OS |-> h.index_last_chunk_from_OS,
          ch_array      |-> h.ch_array,
          corr_size_arr |-> h.corr_size_arr,
          free_lists    |-> h.free_lists,
          block         |-> h.block,
          footer        |-> h.footer,
          fault         |-> h.fault]
    BY DEF Laid, H!HeapType
  <2>. HIDE DEF g
  <2>2. QED
    BY <1>5, <2>1 DEF H!SameChunks
<1>8. Spells(m, m.free_lists[i], s) /\ IsFiniteSet(DOMAIN m.mem)
  BY <1>1, <1>3, BlockWords DEF ListsHeld
<1>9. Elements(s) \subseteq FreeBlocks(h)
  BY <1>3, ListedBlock DEF Elements
<1>. HIDE DEF g
<1>10. /\ LinksOnly(m, u.heap, Elements(s)) /\ u.heap.free_lists = m.free_lists
       /\ Spells(u.heap, u.head, H!Without(s, b)) /\ u.head \in Nat
  <2>1. CASE b \notin Elements(s)
    <3>1. u.heap = m /\ u.head = m.free_lists[i]
      BY <1>8, <2>1, UnlinkedNone
    <3>2. H!Without(s, b) = s
      BY <2>1 DEF H!Without, Elements
    <3>3. LinksOnly(m, m, Elements(s))
      BY <1>1, StoredNone DEF LinksOnly
    <3>4. m.free_lists[i] \in Nat
      BY <1>1, <1>3 DEF ListsHeld
    <3>5. QED
      BY <1>8, <3>1, <3>2, <3>3, <3>4
  <2>2. CASE b \in Elements(s)
    <3>1. PICK k \in DOMAIN s : s[k] = b
      BY <2>2 DEF Elements
    <3>2. Unlinks(m, s, s[k], k, Unlinked(m, m.free_lists[i], s[k]))
      <4>. HIDE DEF s, u
      <4>1. QED
        BY <1>1, <1>8, UnlinkedSpelled
    <3>3. Unlinks(m, s, b, k, u)
      BY <3>1, <3>2
    <3>4. H!Without(s, s[k]) = DropAt(s, k)
      <4>1. s \in Seq(Nat \ {NULL}) /\ \A j, l \in DOMAIN s : s[j] = s[l] => j = l
        BY <1>8 DEF Spells
      <4>. HIDE DEF s
      <4>2. QED
        BY <4>1, WithoutIsDrop
    <3>. HIDE DEF u, s
    <3>5. QED
      BY <3>1, <3>3, <3>4 DEF Unlinks
  <2>3. QED
    BY <2>1, <2>2
<1>. HIDE DEF u
<1>11. LinksOnly(m, u.heap, FreeBlocks(h))
  <2>1. Stored(m, u.heap, {x + 8 : x \in Elements(s)})
    BY <1>10 DEF LinksOnly
  <2>2. Stored(m, u.heap, {x + 8 : x \in FreeBlocks(h)})
    BY <2>1, <1>9, StoredMore
  <2>3. ASSUME NEW x \in FreeBlocks(h)
        PROVE  At(u.heap, x + 8).hi = At(m, x + 8).hi /\ At(u.heap, x + 8).mark = At(m, x + 8).mark
    <3>1. CASE x \in Elements(s)
      BY <1>10, <3>1 DEF LinksOnly
    <3>2. CASE x \notin Elements(s)
      <4>1. x \in Nat /\ \A y \in Elements(s) : y \in Nat
        BY <1>9, LaidBlock DEF FreeBlocks
      <4>2. \A y \in Elements(s) : y + 8 # x + 8
        BY <4>1, <3>2
      <4>3. QED
        BY <2>1, <4>2 DEF Stored
    <3>3. QED
      BY <3>1, <3>2
  <2>4. QED
    BY <2>2, <2>3 DEF LinksOnly
<1>12. /\ \A W : Stored(m, u.heap, W) => Stored(m, n, W)
       /\ n.free_lists = [m.free_lists EXCEPT ![i] = u.head]
       /\ \A a : At(n, a) = At(u.heap, a)
  <2>1. Stored(m, u.heap, {x + 8 : x \in Elements(s)})
    BY <1>10 DEF LinksOnly
  <2>2. ASSUME NEW W, Stored(m, u.heap, W)
        PROVE  /\ Stored(m, n, W)
               /\ n.free_lists = [u.heap.free_lists EXCEPT ![i] = u.head]
               /\ \A a : At(n, a) = At(u.heap, a)
    BY <2>2, StoredHead, SMTT(20)
  <2>. HIDE DEF n
  <2>3. QED
    BY <1>10, <2>1, <2>2
<1>. HIDE DEF n
<1>13. LinksOnly(m, n, FreeBlocks(h)) /\ LinksOnly(m, n, Elements(s))
  BY <1>10, <1>11, <1>12 DEF LinksOnly
<1>14. Headers(n, h) /\ \A w \in {x + 8 : x \in FreeBlocks(h)} : InBlocks(h, w)
  <2>1. FreeBlocks(h) \subseteq H!Blocks(h)
    BY DEF FreeBlocks
  <2>2. QED
    BY <1>1, <1>13, <2>1, LinksHeaders
<1>15. Headers(n, g)
  BY <1>7, <1>14 DEF Headers, HeaderHeld, H!Blocks, H!EndOf
<1>16. Mapped(n, g)
  <2>1. Stored(m, n, {x + 8 : x \in FreeBlocks(h)})
    BY <1>13 DEF LinksOnly
  <2>2. QED
    BY <1>1, <1>7, <1>14, <2>1, MappedKept
<1>17. ListsHeld(n, g)
  <2>1. n.free_lists \in [0 .. N_LISTS - 1 -> Nat]
    BY <1>1, <1>10, <1>12 DEF ListsHeld
  <2>2. ASSUME NEW j \in 0 .. N_LISTS - 1
        PROVE  Spells(n, n.free_lists[j], g.free_lists[j])
    <3>1. CASE j = i
      <4>1. n.free_lists[i] = u.head /\ g.free_lists[i] = H!Without(s, b)
        BY <1>1, <1>3, <1>6, <1>7, <1>12 DEF ListsHeld
      <4>2. DOMAIN u.heap.mem = DOMAIN m.mem /\ DOMAIN n.mem = DOMAIN m.mem
        BY <1>10, <1>13 DEF LinksOnly, Stored
      <4>3. Spells(n, u.head, H!Without(s, b))
        BY <1>10, <1>12, <4>2, SpellsKept
      <4>4. QED
        BY <3>1, <4>1, <4>3
    <3>2. CASE j # i
      <4>1. n.free_lists[j] = m.free_lists[j] /\ g.free_lists[j] = h.free_lists[j]
        BY <1>1, <1>6, <1>7, <1>12, <3>2 DEF ListsHeld
      <4>2. Spells(n, m.free_lists[j], h.free_lists[j])
        BY <1>1, <1>3, <1>13, <3>2, ListsKept
      <4>3. QED
        BY <4>1, <4>2
    <3>3. QED
      BY <3>1, <3>2
  <2>3. QED
    BY <2>1, <2>2 DEF ListsHeld
<1>18. QED
  BY <1>4, <1>13, <1>15, <1>16, <1>17 DEF Holds, RemoveHeld, g

-----------------------------------------------------------------------------
(* Sizes, footers and merges *)

\* A heap cut up as a laid one is laid.
LEMMA LaidKept ==
  ASSUME NEW h, Laid(h), NEW g, H!HeapType(g), H!SameLayout(h, g)
  PROVE  Laid(g)
<1>1. H!ChunksApart(g) /\ H!Tiled(g)
  BY H!LayoutKept, HeapAssumptions DEF Laid
<1>2. H!Grid(g)
  BY H!GridShrunk, HeapAssumptions DEF Laid, H!SameLayout
<1>3. QED
  BY <1>1, <1>2 DEF Laid

\* set_size keeps the flags.
LEMMA SizeSet ==
  ASSUME NEW m, MemType(m), NEW b \in DOMAIN m.mem, NEW size \in Int
  PROVE  LET n == set_size(m, b, size)
         IN  /\ Stored(m, n, {b}) /\ n.free_lists = m.free_lists
             /\ At(n, b).lo = size + (At(m, b).lo % 4)
<1>. DEFINE w == Word(size + (At(m, b).lo % 4))
<1>1. At(m, b).lo \in Int
  BY AtType
<1>2. w \in Words /\ w.lo = size + (At(m, b).lo % 4)
  BY <1>1 DEF Word, Words
<1>3. set_size(m, b, size) = Store(m, b, w)
  BY DEF set_size
<1>. HIDE DEF w
<1>4. QED
  BY <1>2, <1>3, StoreFields

\* store_footer writes two words.
LEMMA FooterStored ==
  ASSUME NEW m, MemType(m), NEW at \in DOMAIN m.mem, at + 8 \in DOMAIN m.mem,
         NEW size \in Int, NEW status \in BOOLEAN
  PROVE  LET n == store_footer(m, at, size, status)
         IN  /\ Stored(m, n, {at, at + 8}) /\ n.free_lists = m.free_lists
             /\ At(n, at).lo = size
<1>. DEFINE k == Store(m, at, Word(size))
            w == [At(m, at + 8) EXCEPT !.lo = @ - (@ % 256) + Bit(status)]
            n == store_footer(m, at, size, status)
<1>1. Word(size) \in Words /\ Word(size).lo = size
  BY DEF Word, Words
<1>2. Stored(m, k, {at}) /\ k.free_lists = m.free_lists /\ At(k, at) = Word(size)
  BY <1>1, StoreFields
<1>3. MemType(k) /\ DOMAIN k.mem = DOMAIN m.mem
  BY <1>2 DEF Stored
<1>4. w \in Words
  <2>1. At(m, at + 8) \in Words
    BY AtType
  <2>2. Bit(status) \in Int
    BY DEF Bit
  <2>3. At(m, at + 8).lo - (At(m, at + 8).lo % 256) + Bit(status) \in Int
    BY <2>1, <2>2 DEF Words
  <2>4. QED
    BY <2>1, <2>3 DEF Words
<1>5. n = Store(k, at + 8, w)
  BY DEF store_footer
<1>. HIDE DEF k, w, n
<1>6. Stored(k, n, {at + 8}) /\ n.free_lists = k.free_lists
  BY <1>3, <1>4, <1>5, StoreFields
<1>7. Stored(m, n, {at, at + 8})
  <2>1. Stored(m, n, {at} \cup {at + 8})
    BY <1>2, <1>6, StoredTwice
  <2>2. QED
    BY <2>1, StoredMore
<1>8. At(n, at) = At(k, at)
  <2>1. at \in Int
    BY DEF MemType
  <2>2. at \notin {at + 8}
    BY <2>1
  <2>3. QED
    BY <1>6, <2>2 DEF Stored
<1>9. QED
  BY <1>1, <1>2, <1>6, <1>7, <1>8 DEF n

\* The words that coalesce may write.
CoalesceWords(h, p, b) ==
  {x + 8 : x \in FreeBlocks(h)} \cup {p, H!EndOf(h, b) - 16, H!EndOf(h, b) - 8}

\* What coalesce writes once its blocks are in no list: the size and the
\* footer of the merged block.
LEMMA MergeStored ==
  ASSUME NEW h, Laid(h), NEW m, Mapped(m, h), Headers(m, h),
         NEW p \in H!Blocks(h), NEW b \in H!Blocks(h), H!EndOf(h, p) = b
  PROVE  LET n    == set_free_footer(set_merged_size(m, p, b), p)
             size == h.block[p].size + h.block[b].size
             at   == H!EndOf(h, b) - 16
         IN  /\ Stored(m, n, {p, p + 8, at, at + 8}) /\ n.free_lists = m.free_lists
             /\ At(n, p).lo = size + h.block[p].alloc + 2 * h.block[p].prev_alloc
             /\ At(n, p + 8).hi = h.block[p].index
             /\ At(n, at).lo = size
             /\ p + size = H!EndOf(h, b)
<1>. DEFINE size == h.block[p].size + h.block[b].size
            at   == H!EndOf(h, b) - 16
            m1   == set_size(m, p, get_size(m, p) + get_size(m, b))
            m2   == set_next_off(m1, p, NULL)
            n    == set_free_footer(m2, p)
            w    == size + h.block[p].alloc + 2 * h.block[p].prev_alloc
<1>1. Read(m, h, p) /\ Read(m, h, b)
  BY Reads DEF Headers
<1>2. /\ p \in Nat /\ p % 8 = 0 /\ h.block[p].size \in Nat /\ h.block[p].size >= 32
      /\ h.block[p].size % 8 = 0 /\ H!EndOf(h, p) = p + h.block[p].size
      /\ h.block[p].alloc \in {0, 1} /\ h.block[p].prev_alloc \in {0, 1}
  BY LaidBlock
<1>3. /\ b \in Nat /\ b % 8 = 0 /\ h.block[b].size \in Nat /\ h.block[b].size >= 32
      /\ h.block[b].size % 8 = 0 /\ H!EndOf(h, b) = b + h.block[b].size
      /\ H!EndOf(h, b) % 8 = 0
  BY LaidBlock
<1>4. size \in Nat /\ size % 8 = 0 /\ p + size = H!EndOf(h, b) /\ at = p + size - 16
  BY <1>2, <1>3
<1>5. MemType(m)
  BY DEF Mapped
<1>6. /\ p \in DOMAIN m.mem /\ p + 8 \in DOMAIN m.mem
      /\ at \in DOMAIN m.mem /\ at + 8 \in DOMAIN m.mem
      /\ p # p + 8 /\ p + 8 # at /\ p # at /\ p + 8 # at + 8 /\ p # at + 8
  <2>1. \A a \in Nat : a % 8 = 0 /\ p <= a /\ a < H!EndOf(h, p) => a \in DOMAIN m.mem
    BY BlockWords
  <2>2. \A a \in Nat : a % 8 = 0 /\ b <= a /\ a < H!EndOf(h, b) => a \in DOMAIN m.mem
    BY BlockWords
  <2>3. p + 8 \in Nat /\ (p + 8) % 8 = 0 /\ p + 8 < H!EndOf(h, p) /\ p < H!EndOf(h, p)
    BY <1>2
  <2>4. /\ at \in Nat /\ at % 8 = 0 /\ b <= at /\ at < H!EndOf(h, b)
        /\ at + 8 \in Nat /\ (at + 8) % 8 = 0 /\ at + 8 < H!EndOf(h, b)
    <3>. DEFINE e == H!EndOf(h, b)
    <3>1. e \in Nat /\ e % 8 = 0 /\ e >= b + 32
      BY <1>3
    <3>. HIDE DEF e
    <3>2. e - 16 \in Nat /\ (e - 16) % 8 = 0 /\ e - 8 \in Nat /\ (e - 8) % 8 = 0
      BY <3>1, <1>3, WordsBelow
    <3>3. /\ b <= e - 16 /\ e - 16 < e /\ (e - 16) + 8 = e - 8 /\ e - 8 < e
      BY <3>1, <1>3
    <3>4. at = e - 16
      BY DEF e
    <3>. HIDE DEF at
    <3>5. at + 8 = e - 8
      BY <3>3, <3>4
    <3>6. QED
      BY <3>2, <3>3, <3>4, <3>5 DEF e
  <2>5. p + 8 < at
    BY <1>2, <1>3
  <2>. HIDE DEF at
  <2>6. QED
    BY <1>2, <1>3, <2>1, <2>2, <2>3, <2>4, <2>5
<1>. HIDE DEF at, size
<1>7. get_size(m, p) + get_size(m, b) = size /\ At(m, p).lo % 4 = h.block[p].alloc + 2 * h.block[p].prev_alloc
  BY <1>1 DEF Read, size
<1>8. Stored(m, m1, {p}) /\ m1.free_lists = m.free_lists /\ At(m1, p).lo = w
  <2>1. /\ Stored(m, m1, {p}) /\ m1.free_lists = m.free_lists
        /\ At(m1, p).lo = size + (At(m, p).lo % 4)
    <3>1. get_size(m, p) + get_size(m, b) \in Int
      BY <1>4, <1>7
    <3>2. QED
      BY <1>5, <1>6, <1>7, <3>1, SizeSet
  <2>. HIDE DEF m1
  <2>2. size + (h.block[p].alloc + 2 * h.block[p].prev_alloc) = w
    <3>1. size \in Int /\ h.block[p].alloc \in Int /\ h.block[p].prev_alloc \in Int
      BY <1>2, <1>4
    <3>2. QED
      BY <3>1
  <2>3. QED
    BY <1>7, <2>1, <2>2
<1>. HIDE DEF m1
<1>9. MemType(m1) /\ DOMAIN m1.mem = DOMAIN m.mem
  BY <1>8 DEF Stored
<1>10. LinkSet(m1, m2, p, NULL)
  BY <1>2, <1>6, <1>9, SetNextOff, Names
<1>. HIDE DEF m2
<1>11. /\ Stored(m1, m2, {p + 8}) /\ m2.free_lists = m1.free_lists
       /\ At(m2, p + 8).hi = At(m1, p + 8).hi
       /\ MemType(m2) /\ DOMAIN m2.mem = DOMAIN m1.mem
       /\ At(m2, p) = At(m1, p)
  BY <1>6, <1>10 DEF LinkSet, Stored
<1>12. get_size(m2, p) = size
  <2>1. LET v == size + h.block[p].alloc + 2 * h.block[p].prev_alloc IN v - (v % 4) = size
    BY <1>2, <1>4, Flags
  <2>2. At(m2, p).lo = w
    BY <1>8, <1>11
  <2>3. QED
    BY <2>1, <2>2 DEF get_size
<1>13. footer_of(m2, p) = at
  BY <1>12, <1>4, Names DEF footer_of
<1>14. Stored(m2, n, {at, at + 8}) /\ n.free_lists = m2.free_lists /\ At(n, at).lo = size
  <2>1. n = store_footer(m2, at, size, FALSE)
    BY <1>12, <1>13 DEF set_free_footer
  <2>2. at \in DOMAIN m2.mem /\ at + 8 \in DOMAIN m2.mem /\ size \in Int /\ MemType(m2)
    BY <1>4, <1>6, <1>9, <1>11
  <2>. HIDE DEF n
  <2>3. QED
    BY <2>1, <2>2, FooterStored
<1>15. n = set_free_footer(set_merged_size(m, p, b), p)
  BY DEF set_merged_size, m2, m1
<1>. HIDE DEF n
<1>16. Stored(m, n, {p, p + 8, at, at + 8}) /\ n.free_lists = m.free_lists
  <2>1. Stored(m, m2, {p} \cup {p + 8})
    BY <1>8, <1>11, StoredTwice
  <2>2. Stored(m, n, ({p} \cup {p + 8}) \cup {at, at + 8})
    BY <1>14, <2>1, StoredTwice
  <2>3. QED
    BY <1>8, <1>11, <1>14, <2>2, StoredMore
<1>17. At(n, p).lo = w /\ At(n, p + 8).hi = h.block[p].index
  <2>1. At(n, p) = At(m2, p) /\ At(n, p + 8) = At(m2, p + 8)
    BY <1>6, <1>14 DEF Stored
  <2>2. At(m1, p + 8) = At(m, p + 8)
    BY <1>6, <1>8 DEF Stored
  <2>3. At(m, p + 8).hi = h.block[p].index
    BY DEF Headers, HeaderHeld
  <2>4. QED
    BY <1>8, <1>11, <2>1, <2>2, <2>3
<1>18. QED
  BY <1>4, <1>14, <1>15, <1>16, <1>17 DEF at, size

\* The words of free blocks.
FreeWords(h) == {w \in Int : \E x \in FreeBlocks(h) : x <= w /\ w < H!EndOf(h, x)}

\* coalesce does to the words what it does to the heap, and writes words of
\* free blocks alone.
CoalesceHeld(m, n, h, g, p, b) ==
  /\ Holds(n, g) /\ H!Grid(g)
  /\ Stored(m, n, CoalesceWords(h, p, b)) /\ CoalesceWords(h, p, b) \subseteq FreeWords(h)
  /\ FreeBlocks(g) \subseteq FreeBlocks(h) /\ FreeWords(g) \subseteq FreeWords(h)

\* What a merge writes, and the free blocks it leaves, lie in free blocks.
LEMMA CoalesceRegion ==
  ASSUME NEW h, Laid(h), NEW p \in FreeBlocks(h), NEW b \in FreeBlocks(h), H!EndOf(h, p) = b,
         NEW g, NEW seams, H!Merged(h, g, seams, p, b)
  PROVE  /\ CoalesceWords(h, p, b) \subseteq FreeWords(h)
         /\ FreeBlocks(g) \subseteq FreeBlocks(h) /\ FreeWords(g) \subseteq FreeWords(h)
<1>1. \A x \in FreeBlocks(h) :
        /\ x \in H!Blocks(h) /\ x \in Nat /\ h.block[x].size >= 32
        /\ H!EndOf(h, x) = x + h.block[x].size /\ h.block[x].size \in Nat /\ H!EndOf(h, x) \in Nat
  BY LaidBlock DEF FreeBlocks
<1>2. CoalesceWords(h, p, b) \subseteq FreeWords(h)
  <2>1. ASSUME NEW x \in FreeBlocks(h)
        PROVE  x + 8 \in FreeWords(h) /\ x \in FreeWords(h)
               /\ H!EndOf(h, x) - 16 \in FreeWords(h) /\ H!EndOf(h, x) - 8 \in FreeWords(h)
    <3>1. \A w \in Int : x <= w /\ w < H!EndOf(h, x) => w \in FreeWords(h)
      BY DEF FreeWords
    <3>2. /\ x \in Nat /\ h.block[x].size >= 32 /\ h.block[x].size \in Nat
          /\ H!EndOf(h, x) = x + h.block[x].size /\ H!EndOf(h, x) \in Nat
      BY <1>1
    <3>3. QED
      BY <3>1, <3>2
  <2>2. QED
    BY <2>1 DEF CoalesceWords
<1>3. /\ H!Blocks(g) = H!Blocks(h) \ {b} /\ H!EndOf(g, p) = H!EndOf(h, b)
      /\ \A x \in H!Blocks(g) \ {p} : g.block[x] = h.block[x]
  BY DEF H!Merged
<1>4. FreeBlocks(g) \subseteq FreeBlocks(h)
  BY <1>3 DEF FreeBlocks, H!IsFree
<1>5. ASSUME NEW x \in FreeBlocks(g), NEW w \in Int, x <= w, w < H!EndOf(g, x)
      PROVE  w \in FreeWords(h)
  <2>1. x \in FreeBlocks(h) /\ x \in H!Blocks(g)
    BY <1>4 DEF FreeBlocks
  <2>2. CASE x = p
    <3>1. p <= w /\ w < H!EndOf(h, b)
      BY <1>3, <1>5, <2>2
    <3>2. w < H!EndOf(h, p) \/ b <= w
      BY <1>1
    <3>3. QED
      BY <3>1, <3>2 DEF FreeWords
  <2>3. CASE x # p
    <3>1. H!EndOf(g, x) = H!EndOf(h, x)
      BY <1>3, <2>1, <2>3 DEF H!EndOf
    <3>2. QED
      BY <1>5, <2>1, <3>1 DEF FreeWords
  <2>4. QED
    BY <2>2, <2>3
<1>6. FreeWords(g) \subseteq FreeWords(h)
  BY <1>5 DEF FreeWords
<1>7. QED
  BY <1>2, <1>4, <1>6

\* coalesce, of two free neighbours.
LEMMA Coalesced ==
  ASSUME NEW h, NEW odd, NEW seams, H!SoundBut(h, odd, seams), H!Grid(h), NEW m, Holds(m, h),
         NEW p \in FreeBlocks(h), NEW b \in FreeBlocks(h), H!EndOf(h, p) = b, odd \subseteq {p, b}
  PROVE  CoalesceHeld(m, coalesce(m, p, b), h, H!coalesce(h, p, b), p, b)
<1>. DEFINE h1 == H!remove_from_free_list(h, p)
            l  == H!remove_from_free_list(h1, b)
            m1 == remove_from_free_list(m, p)
            m2 == remove_from_free_list(m1, b)
            n  == coalesce(m, p, b)
            g  == H!coalesce(h, p, b)
            F  == FreeBlocks(h)
            at == H!EndOf(h, b) - 16
<1>1. Laid(h)
  BY SoundLaid
<1>2. /\ p \in H!Blocks(h) /\ b \in H!Blocks(h) /\ H!IsFree(h, p) /\ H!IsFree(h, b)
  BY DEF FreeBlocks
<1>3. /\ p \in Nat /\ b \in Nat /\ p # b
      /\ h.block[p].size \in Nat /\ h.block[b].size \in Nat
      /\ h.block[p].size >= 32 /\ h.block[b].size >= 32
      /\ H!EndOf(h, p) = p + h.block[p].size /\ H!EndOf(h, b) = b + h.block[b].size
  <2>1. /\ p \in Nat /\ h.block[p].size \in Nat /\ h.block[p].size >= 32
        /\ H!EndOf(h, p) = p + h.block[p].size
    BY <1>1, <1>2, LaidBlock
  <2>2. /\ b \in Nat /\ h.block[b].size \in Nat /\ h.block[b].size >= 32
        /\ H!EndOf(h, b) = b + h.block[b].size
    BY <1>1, <1>2, LaidBlock
  <2>3. QED
    BY <2>1, <2>2
<1>4. H!HeapType(h) /\ H!Listed(h, odd)
  BY DEF H!SoundBut
<1>5. /\ H!HeapType(h1) /\ H!SameChunks(h, h1) /\ h1.block = h.block /\ H!Listed(h1, odd \cup {p})
  BY <1>2, <1>4, H!RemoveFields, HeapAssumptions
<1>6. RemoveHeld(m, m1, h, h1)
  BY <1>1, <1>2, <1>4, Removed
<1>. HIDE DEF h1, m1
<1>7. Laid(h1) /\ FreeBlocks(h1) = F /\ H!Blocks(h1) = H!Blocks(h)
  <2>1. H!SameLayout(h, h1)
    BY <1>5 DEF H!SameLayout, H!Blocks
  <2>2. Laid(h1)
    BY <1>1, <1>5, <2>1, LaidKept
  <2>3. QED
    BY <1>5, <2>2 DEF FreeBlocks, H!Blocks, H!IsFree
<1>8. RemoveHeld(m1, m2, h1, l)
  BY <1>2, <1>5, <1>6, <1>7, Removed DEF RemoveHeld
<1>9. /\ H!HeapType(l) /\ H!SameChunks(h1, l) /\ l.block = h1.block
  BY <1>2, <1>5, <1>7, H!RemoveFields, HeapAssumptions
<1>. HIDE DEF m2, l
<1>10. Laid(l) /\ FreeBlocks(l) = F /\ H!Blocks(l) = H!Blocks(h)
       /\ l.block = h.block /\ \A x : H!EndOf(l, x) = H!EndOf(h, x)
  <2>1. H!SameLayout(h1, l)
    BY <1>9 DEF H!SameLayout, H!Blocks
  <2>2. Laid(l)
    BY <1>7, <1>9, <2>1, LaidKept
  <2>3. QED
    BY <1>5, <1>7, <1>9, <2>2 DEF FreeBlocks, H!Blocks, H!IsFree, H!EndOf
<1>11. Holds(m2, l) /\ LinksOnly(m, m2, F)
  BY <1>6, <1>7, <1>8, LinksOnlyTwice DEF RemoveHeld
<1>12. /\ H!HeapType(g) /\ H!SameChunks(h, g)
       /\ H!Blocks(g) = H!Blocks(h) \ {b}
       /\ g.block[p] = [h.block[p] EXCEPT !.size = h.block[p].size + h.block[b].size]
       /\ \A x \in H!Blocks(h) \ {b, p} : g.block[x] = h.block[x]
       /\ g.free_lists = l.free_lists
       /\ H!Listed(l, odd \cup {p, b})
  <2>1. H!Coalesces(h, odd, p, b)
    BY <1>2, <1>3, <1>4, H!CoalesceFields, HeapAssumptions
  <2>. HIDE DEF g
  <2>2. QED
    BY <2>1 DEF H!Coalesces, g, l, h1
<1>13. H!Merged(h, g, seams, p, b)
  BY <1>2, H!CoalesceSound, HeapAssumptions
<1>. HIDE DEF g
<1>14. /\ CoalesceWords(h, p, b) \subseteq FreeWords(h)
       /\ FreeBlocks(g) \subseteq FreeBlocks(h) /\ FreeWords(g) \subseteq FreeWords(h)
  BY <1>1, <1>13, CoalesceRegion
<1>15. H!Grid(g)
  <2>1. H!Blocks(g) \subseteq H!Blocks(h)
    BY <1>12
  <2>2. QED
    BY <1>1, <1>12, <2>1, H!GridShrunk, HeapAssumptions DEF Laid
<1>16. /\ Stored(m2, n, {p, p + 8, at, at + 8}) /\ n.free_lists = m2.free_lists
       /\ At(n, p).lo = h.block[p].size + h.block[b].size + h.block[p].alloc + 2 * h.block[p].prev_alloc
       /\ At(n, p + 8).hi = h.block[p].index
       /\ At(n, at).lo = h.block[p].size + h.block[b].size
       /\ p + (h.block[p].size + h.block[b].size) = H!EndOf(h, b)
  <2>1. n = set_free_footer(set_merged_size(m2, p, b), p)
    BY DEF coalesce, take_both, m2, m1
  <2>2. Mapped(m2, l) /\ Headers(m2, l) /\ p \in H!Blocks(l) /\ b \in H!Blocks(l) /\ H!EndOf(l, p) = b
    BY <1>2, <1>10, <1>11 DEF Holds
  <2>. HIDE DEF n
  <2>3. QED
    BY <1>10, <2>1, <2>2, MergeStored
<1>. HIDE DEF n
<1>17. ASSUME NEW x \in H!Blocks(h), x # p, x # b
       PROVE  LET W == {p, p + 8, at, at + 8}
              IN  x \notin W /\ x + 8 \notin W /\ H!EndOf(h, x) - 16 \notin W
  <2>1. /\ x \in Nat /\ h.block[x].size \in Nat /\ h.block[x].size >= 32
        /\ H!EndOf(h, x) = x + h.block[x].size
    BY <1>1, LaidBlock
  <2>2. /\ H!EndOf(h, x) <= p \/ H!EndOf(h, p) <= x
        /\ H!EndOf(h, x) <= b \/ H!EndOf(h, b) <= x
    BY <1>1, <1>2, <1>17, Apart
  <2>3. QED
    BY <1>3, <2>1, <2>2
<1>18. Headers(n, g)
  <2>1. ASSUME NEW x \in H!Blocks(g)
        PROVE  HeaderHeld(n, g, x)
    <3>1. CASE x = p
      <4>1. g.block[p] = [h.block[p] EXCEPT !.size = h.block[p].size + h.block[b].size]
        BY <1>12
      <4>2. h.block[p] \in H!Field
        BY <1>2, <1>4, H!BlockType, HeapAssumptions
      <4>3. /\ g.block[p].size = h.block[p].size + h.block[b].size
            /\ g.block[p].alloc = h.block[p].alloc /\ g.block[p].prev_alloc = h.block[p].prev_alloc
            /\ g.block[p].index = h.block[p].index
        BY <4>1, <4>2 DEF H!Field
      <4>4. H!EndOf(g, p) = H!EndOf(h, b)
        BY <1>16, <4>3 DEF H!EndOf
      <4>5. QED
        BY <1>16, <3>1, <4>3, <4>4 DEF HeaderHeld
    <3>2. CASE x # p
      <4>1. x \in H!Blocks(h) /\ x # b /\ g.block[x] = l.block[x]
        BY <1>10, <1>12, <3>2
      <4>2. HeaderHeld(m2, l, x)
        BY <1>10, <1>11, <4>1 DEF Holds, Headers
      <4>3. LET W == {p, p + 8, at, at + 8}
            IN  x \notin W /\ x + 8 \notin W /\ H!EndOf(l, x) - 16 \notin W
        BY <1>10, <1>17, <3>2, <4>1
      <4>4. QED
        BY <1>16, <4>1, <4>2, <4>3, HeaderKept
    <3>3. QED
      BY <3>1, <3>2
  <2>2. QED
    BY <2>1 DEF Headers
<1>19. Mapped(n, g)
  <2>1. ASSUME NEW w \in {p, p + 8, at, at + 8} PROVE InBlocks(l, w)
    <3>1. (p <= w /\ w < H!EndOf(h, p)) \/ (b <= w /\ w < H!EndOf(h, b))
      BY <1>3
    <3>2. QED
      BY <1>2, <1>10, <3>1 DEF InBlocks
  <2>2. H!SameChunks(l, g)
    BY <1>5, <1>9, <1>12 DEF H!SameChunks
  <2>3. Mapped(m2, l)
    BY <1>11 DEF Holds
  <2>4. QED
    BY <1>10, <1>16, <2>1, <2>2, <2>3, MappedKept
<1>20. ListsHeld(n, g)
  <2>1. ListsHeld(m2, l)
    BY <1>11 DEF Holds
  <2>2. ASSUME NEW i \in 0 .. N_LISTS - 1
        PROVE  Spells(n, n.free_lists[i], g.free_lists[i])
    <3>1. Spells(m2, n.free_lists[i], g.free_lists[i])
      BY <1>12, <1>16, <2>1 DEF ListsHeld
    <3>2. ASSUME NEW k \in DOMAIN g.free_lists[i]
          PROVE  At(n, g.free_lists[i][k] + 8) = At(m2, g.free_lists[i][k] + 8)
      <4>1. g.free_lists[i][k] \in H!Blocks(l) /\ g.free_lists[i][k] \notin {p, b}
        BY <1>12, ListedBlock DEF FreeBlocks
      <4>2. g.free_lists[i][k] + 8 \notin {p, p + 8, at, at + 8}
        BY <1>10, <1>17, <4>1
      <4>3. QED
        BY <1>16, <4>2 DEF Stored
    <3>3. DOMAIN m2.mem \subseteq DOMAIN n.mem
      BY <1>16 DEF Stored
    <3>4. QED
      BY <3>1, <3>2, <3>3, SpellsKept
  <2>3. n.free_lists \in [0 .. N_LISTS - 1 -> Nat]
    BY <1>16, <2>1 DEF ListsHeld
  <2>4. QED
    BY <2>2, <2>3 DEF ListsHeld
<1>21. Stored(m, n, CoalesceWords(h, p, b))
  <2>1. Stored(m, n, {x + 8 : x \in F} \cup {p, p + 8, at, at + 8})
    BY <1>11, <1>16, StoredTwice DEF LinksOnly
  <2>2. at + 8 = H!EndOf(h, b) - 8
    BY <1>3
  <2>3. {x + 8 : x \in F} \cup {p, p + 8, at, at + 8} \subseteq CoalesceWords(h, p, b)
    <3>1. p + 8 \in {x + 8 : x \in F}
      OBVIOUS
    <3>2. QED
      BY <2>2, <3>1 DEF CoalesceWords
  <2>4. QED
    BY <2>1, <2>3, StoredMore
<1>22. QED
  BY <1>14, <1>15, <1>18, <1>19, <1>20, <1>21 DEF CoalesceHeld, Holds, n, g

-----------------------------------------------------------------------------
(* put_block_in_free_list and freeing_up *)

\* A free block that is in no list goes before its list.
LEMMA Put ==
  ASSUME NEW h, NEW b \in FreeBlocks(h), H!SoundBut(h, {b}, {}), H!Grid(h), NEW m, Holds(m, h)
  PROVE  LET n == listed(m, b)
             g == H!put_block_in_free_list(h, b, H!calculate_index(H!get_size(h, b)))
         IN  Holds(n, g) /\ Stored(m, n, {b + 8})
<1>. DEFINE i == calculate_index(h.block[b].size)
            k == set_next_off(m, b, m.free_lists[i])
            n == listed(m, b)
            g == H!put_block_in_free_list(h, b, H!calculate_index(H!get_size(h, b)))
<1>1. Laid(h)
  BY SoundLaid
<1>2. Mapped(m, h) /\ Headers(m, h) /\ ListsHeld(m, h) /\ MemType(m) /\ b \in H!Blocks(h)
  BY DEF Holds, Mapped, FreeBlocks
<1>3. /\ b \in Nat \ {0} /\ b % 8 = 0 /\ h.block[b].size \in Nat /\ h.block[b].size >= 32
      /\ H!EndOf(h, b) = b + h.block[b].size
  BY <1>1, <1>2, LaidBlock
<1>4. b \in DOMAIN m.mem /\ b + 8 \in DOMAIN m.mem
  <2>1. \A a \in Nat : a % 8 = 0 /\ b <= a /\ a < H!EndOf(h, b) => a \in DOMAIN m.mem
    BY <1>1, <1>2, BlockWords
  <2>2. b + 8 \in Nat /\ (b + 8) % 8 = 0 /\ b + 8 < H!EndOf(h, b) /\ b < H!EndOf(h, b)
    BY <1>3
  <2>3. QED
    BY <1>3, <2>1, <2>2
<1>5. i \in 0 .. N_LISTS - 1
  BY <1>3, H!IndexInRange, HeapAssumptions, Names DEF H!FreeLists
<1>6. n = [k EXCEPT !.free_lists[i] = b]
  <2>1. get_size(m, b) = h.block[b].size
    BY <1>1, <1>2, Reads DEF Headers, Read
  <2>2. QED
    BY <2>1 DEF listed, put_block_in_free_list
<1>7. g = [h EXCEPT !.free_lists[i] = <<b>> \o @]
  BY Names DEF H!put_block_in_free_list, H!get_size
<1>8. h.free_lists \in [0 .. N_LISTS - 1 -> Seq(Nat)]
  BY <1>1 DEF Laid, H!HeapType, H!FreeLists
<1>9. /\ g.free_lists = [h.free_lists EXCEPT ![i] = <<b>> \o h.free_lists[i]]
      /\ g.block = h.block /\ H!SameChunks(h, g)
  <2>1. h = [index_last_chunk_from_OS |-> h.index_last_chunk_from_OS,
          ch_array      |-> h.ch_array,
          corr_size_arr |-> h.corr_size_arr,
          free_lists    |-> h.free_lists,
          block         |-> h.block,
          footer        |-> h.footer,
          fault         |-> h.fault]
    BY <1>1 DEF Laid, H!HeapType
  <2>. HIDE DEF g, i
  <2>2. QED
    BY <1>7, <2>1 DEF H!SameChunks
<1>. HIDE DEF i, g, n
<1>10. m.free_lists \in [0 .. N_LISTS - 1 -> Nat] /\ m.free_lists[i] \in Nat
  BY <1>2, <1>5 DEF ListsHeld
<1>11. LinkSet(m, k, b, m.free_lists[i])
  BY <1>2, <1>3, <1>4, <1>10, SetNextOff
<1>. HIDE DEF k
<1>12. LinksOnly(m, k, {b}) /\ k.free_lists = m.free_lists
       /\ \A x \in Nat : x # b => At(k, x + 8) = At(m, x + 8)
  BY <1>3, <1>11, LinkSetOnly
<1>13. Stored(m, k, {b + 8})
  BY <1>11 DEF LinkSet
<1>14. /\ Stored(m, n, {b + 8}) /\ n.free_lists = [m.free_lists EXCEPT ![i] = b]
       /\ \A a : At(n, a) = At(k, a)
  <2>1. /\ Stored(m, n, {b + 8}) /\ n.free_lists = [k.free_lists EXCEPT ![i] = b]
        /\ \A a : At(n, a) = At(k, a)
    BY <1>6, <1>13, StoredHead
  <2>2. QED
    BY <1>12, <2>1
<1>15. LinksOnly(m, n, {b})
  <2>1. {x + 8 : x \in {b}} = {b + 8}
    OBVIOUS
  <2>2. QED
    BY <1>12, <1>14, <2>1 DEF LinksOnly
<1>16. Headers(n, h) /\ \A w \in {x + 8 : x \in {b}} : InBlocks(h, w)
  <2>1. {b} \subseteq H!Blocks(h)
    BY <1>2
  <2>2. QED
    BY <1>1, <1>2, <1>15, <2>1, LinksHeaders
<1>17. Headers(n, g)
  BY <1>9, <1>16 DEF Headers, HeaderHeld, H!Blocks, H!EndOf
<1>18. Mapped(n, g)
  <2>1. \A w \in {b + 8} : InBlocks(h, w)
    BY <1>16
  <2>2. QED
    BY <1>1, <1>2, <1>9, <1>14, <2>1, MappedKept
<1>19. ListsHeld(n, g)
  <2>1. n.free_lists \in [0 .. N_LISTS - 1 -> Nat]
    BY <1>3, <1>10, <1>14
  <2>2. ASSUME NEW j \in 0 .. N_LISTS - 1
        PROVE  Spells(n, n.free_lists[j], g.free_lists[j])
    <3>. DEFINE s == h.free_lists[j]
    <3>1. Spells(m, m.free_lists[j], s)
      BY <1>2 DEF ListsHeld
    <3>2. ASSUME NEW l \in DOMAIN s
          PROVE  s[l] # b /\ At(n, s[l] + 8) = At(m, s[l] + 8)
      <4>1. s[l] \in FreeBlocks(h) \ {b}
        BY ListedBlock DEF H!SoundBut
      <4>2. s[l] \in Nat
        BY <1>1, <4>1, LaidBlock DEF FreeBlocks
      <4>. HIDE DEF s
      <4>3. QED
        BY <1>12, <1>14, <4>1, <4>2
    <3>3. DOMAIN n.mem = DOMAIN m.mem
      BY <1>14 DEF Stored
    <3>. HIDE DEF s
    <3>4. CASE j = i
      <4>1. n.free_lists[j] = b /\ g.free_lists[j] = <<b>> \o s
        BY <1>5, <1>8, <1>9, <1>10, <1>14, <3>4 DEF s
      <4>2. At(n, b + 8).lo = IF m.free_lists[j] = NULL THEN 0 ELSE m.free_lists[j] - b
        BY <1>11, <1>14, <3>4 DEF LinkSet
      <4>3. b \notin Elements(s) /\ b \in Nat \ {NULL}
        BY <1>3, <3>2 DEF Elements, NULL
      <4>4. Spells(n, b, <<b>> \o s)
        BY <1>4, <3>1, <3>2, <3>3, <4>2, <4>3, SpellsCons
      <4>5. QED
        BY <4>1, <4>4
    <3>5. CASE j # i
      <4>1. n.free_lists[j] = m.free_lists[j] /\ g.free_lists[j] = s
        BY <1>8, <1>9, <1>10, <1>14, <3>5 DEF s
      <4>2. Spells(n, m.free_lists[j], s)
        BY <3>1, <3>2, <3>3, SpellsKept
      <4>3. QED
        BY <4>1, <4>2
    <3>6. QED
      BY <3>4, <3>5
  <2>3. QED
    BY <2>1, <2>2 DEF ListsHeld
<1>20. QED
  BY <1>14, <1>17, <1>18, <1>19 DEF Holds, n, g

\* freeing_up does to the words what it does to the heap. It writes words of
\* free blocks alone, and the header of b, merged or not, stays that of a free
\* block.
LEMMA FreedUp ==
  ASSUME NEW h, NEW b \in FreeBlocks(h), H!SoundBut(h, {b}, {b, H!EndOf(h, b)}), H!Grid(h),
         NEW m, Holds(m, h)
  PROVE  LET n == freeing_up(m, b)
         IN  /\ Holds(n, H!freeing_up(h, b)) /\ Stored(m, n, FreeWords(h))
             /\ ~is_allocated(n, b)
<1>. DEFINE n    == freeing_up(m, b)
            g    == H!freeing_up(h, b)
            next == H!EndOf(h, b)
<1>1. Laid(h) /\ b \in H!Blocks(h) /\ H!IsFree(h, b)
  BY SoundLaid DEF FreeBlocks
<1>2. PICK left, h1, h2 : H!Frees(h, b, left, h1, h2)
  BY <1>1, H!FreeingUpParts, HeapAssumptions
<1>3. Mapped(m, h) /\ Headers(m, h) /\ MemType(m)
  BY DEF Holds, Mapped
<1>4. Read(m, h, b)
  BY <1>1, <1>3, Reads DEF Headers
<1>5. /\ get_next_block(m, b) = H!get_next_block(h, b)
      /\ is_prev_outside_chunk(m, b) <=> H!is_prev_outside_chunk(h, b)
      /\ is_next_outside_chunk(m, b) <=> H!is_next_outside_chunk(h, b)
  BY <1>1, <1>3, NextRead DEF Headers
<1>. DEFINE jp   == ~is_prev_allocated(m, b) /\ ~is_prev_outside_chunk(m, b)
            jn   == ~is_next_outside_chunk(m, b) /\ ~is_allocated(m, get_next_block(m, b))
            prev == b - At(m, b - SizeofFooter).lo
            m1   == IF jp THEN coalesce(m, left, b) ELSE m
            m2   == IF jn THEN coalesce(m1, left, next) ELSE m1
<1>6. jp <=> H!JoinsPrev(h, b)
  <2>1. h.block[b].prev_alloc \in {0, 1}
    BY <1>1, LaidBlock
  <2>2. QED
    BY <1>4, <1>5, <2>1 DEF Read, H!JoinsPrev
<1>7. jn <=> H!JoinsNext(h, b)
  <2>1. CASE H!is_next_outside_chunk(h, b)
    BY <1>5, <2>1 DEF H!JoinsNext
  <2>2. CASE ~H!is_next_outside_chunk(h, b)
    <3>1. H!get_next_block(h, b) \in H!Blocks(h)
      BY <1>1, <2>2, H!NextBlock, HeapAssumptions DEF Laid
    <3>2. is_allocated(m, H!get_next_block(h, b)) <=> h.block[H!get_next_block(h, b)].alloc = 1
      BY <1>1, <1>3, <3>1, Reads DEF Headers, Read
    <3>3. h.block[H!get_next_block(h, b)].alloc \in {0, 1}
      BY <1>1, <3>1, LaidBlock
    <3>4. QED
      BY <1>5, <2>2, <3>2, <3>3 DEF H!JoinsNext
  <2>3. QED
    BY <2>1, <2>2
<1>8. H!JoinsPrev(h, b) =>
        left \in FreeBlocks(h) /\ H!EndOf(h, left) = b /\ h1 = H!coalesce(h, left, b)
  BY <1>2 DEF H!Frees, FreeBlocks
<1>9. ~H!JoinsPrev(h, b) => left = b /\ h1 = h
  BY <1>2 DEF H!Frees
<1>10. jp => prev = left
  <2>1. SUFFICES ASSUME jp PROVE prev = left
    OBVIOUS
  <2>2. left \in H!Blocks(h) /\ H!EndOf(h, left) = b
    BY <1>6, <1>8, <2>1 DEF FreeBlocks
  <2>3. At(m, b - 16).lo = h.block[left].size
    BY <1>3, <2>2 DEF Headers, HeaderHeld
  <2>4. left \in Nat /\ h.block[left].size \in Nat /\ b = left + h.block[left].size
    BY <1>1, <2>2, LaidBlock
  <2>5. QED
    BY <2>3, <2>4, Names
<1>11. /\ b + get_size(m, b) = next
       /\ left = IF jp THEN prev ELSE b
  BY <1>4, <1>6, <1>9, <1>10 DEF Read
<1>12. n = listed(m2, left)
  BY <1>10, <1>11 DEF freeing_up
<1>. HIDE DEF jp, jn
<1>13. /\ H!SoundBut(h1, {left}, {next}) /\ H!SameChunks(h, h1)
       /\ left \in FreeBlocks(h1) /\ H!EndOf(h1, left) = next
  BY <1>2 DEF H!Frees, FreeBlocks
<1>14. /\ H!SoundBut(h2, {left}, {}) /\ left \in FreeBlocks(h2)
       /\ H!SameChunks(h, h2)
       /\ g = H!put_block_in_free_list(h2, left, H!calculate_index(H!get_size(h2, left)))
  BY <1>2 DEF H!Frees, FreeBlocks
<1>15. /\ H!JoinsNext(h, b) =>
            next \in FreeBlocks(h1) /\ h2 = H!coalesce(h1, left, next)
       /\ ~H!JoinsNext(h, b) => h2 = h1
  BY <1>2 DEF H!Frees, FreeBlocks
<1>16. /\ Holds(m1, h1) /\ H!Grid(h1) /\ Stored(m, m1, FreeWords(h))
       /\ FreeBlocks(h1) \subseteq FreeBlocks(h) /\ FreeWords(h1) \subseteq FreeWords(h)
       /\ jp => Stored(m, m1, CoalesceWords(h, left, b))
  <2>1. CASE jp
    <3>1. CoalesceHeld(m, coalesce(m, left, b), h, H!coalesce(h, left, b), left, b)
      <4>1. /\ left \in FreeBlocks(h) /\ H!EndOf(h, left) = b /\ {b} \subseteq {left, b}
        BY <1>6, <1>8, <2>1
      <4>2. QED
        BY <4>1, Coalesced
    <3>2. m1 = coalesce(m, left, b) /\ h1 = H!coalesce(h, left, b)
      BY <1>6, <1>8, <2>1
    <3>3. QED
      BY <3>1, <3>2, StoredMore DEF CoalesceHeld
  <2>2. CASE ~jp
    <3>1. m1 = m /\ h1 = h
      BY <1>6, <1>9, <2>2
    <3>2. QED
      BY <1>3, <2>2, <3>1, StoredNone
  <2>3. QED
    BY <2>1, <2>2
<1>. HIDE DEF m1
<1>17. /\ Holds(m2, h2) /\ H!Grid(h2) /\ Stored(m1, m2, FreeWords(h1))
       /\ FreeBlocks(h2) \subseteq FreeBlocks(h1) /\ FreeWords(h2) \subseteq FreeWords(h1)
       /\ jn => Stored(m1, m2, CoalesceWords(h1, left, next))
       /\ ~jn => m2 = m1
  <2>1. CASE jn
    <3>1. CoalesceHeld(m1, coalesce(m1, left, next), h1, H!coalesce(h1, left, next), left, next)
      <4>1. next \in FreeBlocks(h1) /\ {left} \subseteq {left, next}
        BY <1>7, <1>15, <2>1
      <4>. HIDE DEF next
      <4>2. QED
        BY <1>13, <1>16, <4>1, Coalesced
    <3>2. m2 = coalesce(m1, left, next) /\ h2 = H!coalesce(h1, left, next)
      BY <1>7, <1>15, <2>1
    <3>3. QED
      BY <2>1, <3>1, <3>2, StoredMore DEF CoalesceHeld
  <2>2. CASE ~jn
    <3>1. m2 = m1 /\ h2 = h1
      BY <1>7, <1>15, <2>2
    <3>2. MemType(m1)
      BY <1>16 DEF Holds, Mapped
    <3>3. QED
      BY <1>16, <2>2, <3>1, <3>2, StoredNone
  <2>3. QED
    BY <2>1, <2>2
<1>. HIDE DEF m2
<1>18. Holds(n, g) /\ Stored(m2, n, {left + 8})
  BY <1>12, <1>14, <1>17, Put
<1>. HIDE DEF g, n
<1>19. Laid(h2)
  BY <1>14, <1>17, SoundLaid
<1>20. left + 8 \in FreeWords(h2)
  <2>1. /\ left \in Nat /\ H!EndOf(h2, left) = left + h2.block[left].size
        /\ h2.block[left].size >= 32 /\ h2.block[left].size \in Nat
    BY <1>14, <1>19, LaidBlock DEF FreeBlocks
  <2>2. left + 8 \in Int /\ left <= left + 8 /\ left + 8 < H!EndOf(h2, left)
    BY <2>1
  <2>3. QED
    BY <1>14, <2>2 DEF FreeWords
<1>21. Stored(m, n, FreeWords(h))
  <2>1. Stored(m1, m2, FreeWords(h)) /\ Stored(m2, n, FreeWords(h))
    BY <1>16, <1>17, <1>18, <1>20, StoredMore
  <2>2. Stored(m, n, (FreeWords(h) \cup FreeWords(h)) \cup FreeWords(h))
    BY <1>16, <2>1, StoredTwice
  <2>3. QED
    BY <2>2, StoredMore
<1>22. ~is_allocated(n, b)
  <2>1. CASE ~jp
    <3>1. left = b /\ b \in FreeBlocks(h2)
      BY <1>6, <1>9, <1>14, <2>1
    <3>2. HeaderHeld(m2, h2, b) /\ b \in H!Blocks(h2) /\ h2.block[b].alloc = 0
      BY <1>17, <3>1 DEF Holds, Headers, FreeBlocks, H!IsFree
    <3>3. ~is_allocated(m2, b)
      BY <1>19, <3>2, Reads DEF Read
    <3>4. b \in Nat
      BY <1>1, LaidBlock
    <3>5. b \notin {left + 8}
      BY <3>1, <3>4
    <3>6. QED
      BY <1>18, <3>3, <3>5 DEF Stored, is_allocated
  <2>2. CASE jp
    <3>1. /\ left \in H!Blocks(h) /\ H!EndOf(h, left) = b
          /\ left \in Nat /\ b = left + h.block[left].size
          /\ h.block[left].size \in Nat /\ h.block[left].size >= 32
      BY <1>1, <1>6, <1>8, <2>2, LaidBlock DEF FreeBlocks
    <3>2. b \in Nat /\ next = b + h.block[b].size /\ h.block[b].size \in Nat /\ h.block[b].size >= 32
      BY <1>1, LaidBlock
    <3>3. ASSUME NEW x \in FreeBlocks(h) PROVE b # x + 8
      <4>1. x \in H!Blocks(h) /\ x \in Nat /\ H!EndOf(h, x) = x + h.block[x].size
            /\ h.block[x].size \in Nat /\ h.block[x].size >= 32
        BY <1>1, LaidBlock DEF FreeBlocks
      <4>2. x = b \/ H!EndOf(h, x) <= b \/ H!EndOf(h, b) <= x
        BY <1>1, <4>1, Apart
      <4>3. QED
        BY <3>2, <4>1, <4>2
    <3>4. At(m1, b) = At(m, b)
      <4>1. b \notin CoalesceWords(h, left, b)
        BY <3>1, <3>2, <3>3 DEF CoalesceWords
      <4>2. QED
        BY <1>16, <2>2, <4>1 DEF Stored
    <3>5. At(m2, b) = At(m1, b)
      <4>1. CASE jn
        <5>1. next \in H!Blocks(h1)
          BY <1>7, <1>15, <4>1 DEF FreeBlocks
        <5>2. Laid(h1)
          BY <1>13, <1>16, SoundLaid
        <5>3. H!EndOf(h1, next) >= next + 32 /\ H!EndOf(h1, next) \in Nat
          <6>1. next \in Nat /\ H!EndOf(h1, next) = next + h1.block[next].size
                /\ h1.block[next].size \in Nat /\ h1.block[next].size >= 32
            BY <5>1, <5>2, LaidBlock
          <6>2. QED
            BY <6>1
        <5>4. b # H!EndOf(h1, next) - 16 /\ b # H!EndOf(h1, next) - 8 /\ b # left
          <6>. HIDE DEF next
          <6>1. QED
            BY <3>1, <3>2, <5>3
        <5>5. b \notin CoalesceWords(h1, left, next)
          <6>. HIDE DEF next
          <6>1. QED
            BY <1>16, <3>3, <5>4 DEF CoalesceWords
        <5>6. QED
          BY <1>17, <4>1, <5>5 DEF Stored
      <4>2. CASE ~jn
        BY <1>17, <4>2
      <4>3. QED
        BY <4>1, <4>2
    <3>6. At(n, b) = At(m2, b)
      <4>1. b # left + 8
        BY <3>1
      <4>2. QED
        BY <1>18, <4>1 DEF Stored
    <3>7. ~is_allocated(m, b)
      BY <1>1, <1>4 DEF Read, H!IsFree
    <3>8. QED
      BY <3>4, <3>5, <3>6, <3>7 DEF is_allocated
  <2>3. QED
    BY <2>1, <2>2
<1>23. QED
  BY <1>18, <1>21, <1>22 DEF n, g

-----------------------------------------------------------------------------
(* Status bits *)

\* Every word has flags, whatever it holds.
LEMMA LowBits ==
  ASSUME NEW x \in Int
  PROVE  /\ x % 2 \in {0, 1} /\ (x \div 2) % 2 \in {0, 1}
         /\ x % 4 = (x % 2) + 2 * ((x \div 2) % 2)
<1>1. PICK k \in Int, r \in 0 .. 3 : x = 4 * k + r
  <2>1. x = 4 * (x \div 4) + (x % 4) /\ x \div 4 \in Int /\ x % 4 \in 0 .. 3
    OBVIOUS
  <2>2. QED
    BY <2>1
<1>2. x % 2 = r % 2 /\ (x \div 2) % 2 = r \div 2 /\ x % 4 = r
  BY <1>1
<1>3. r \in {0, 1, 2, 3}
  OBVIOUS
<1>4. QED
  BY <1>2, <1>3

\* set_status and set_prev_status write one bit.
LEMMA StatusStored ==
  ASSUME NEW m, MemType(m), NEW b \in DOMAIN m.mem, NEW status \in BOOLEAN
  PROVE  LET n == set_status(m, b, status)
         IN  /\ Stored(m, n, {b}) /\ n.free_lists = m.free_lists
             /\ At(n, b).lo = At(m, b).lo + Bit(status) - (At(m, b).lo % 2)
<1>. DEFINE w == [At(m, b) EXCEPT !.lo = @ + Bit(status) - Bit(is_allocated(m, b))]
<1>1. At(m, b) \in Words /\ At(m, b).lo \in Int
  BY AtType
<1>2. Bit(is_allocated(m, b)) = At(m, b).lo % 2 /\ Bit(status) \in Int
  BY <1>1, LowBits DEF Bit, is_allocated
<1>3. w \in Words /\ w.lo = At(m, b).lo + Bit(status) - (At(m, b).lo % 2)
  BY <1>1, <1>2 DEF Words
<1>4. set_status(m, b, status) = Store(m, b, w)
  BY DEF set_status
<1>. HIDE DEF w
<1>5. QED
  BY <1>3, <1>4, StoreFields

\* The bit that tells of the block to the left.
LEMMA PrevStatusStored ==
  ASSUME NEW m, MemType(m), NEW b \in DOMAIN m.mem, NEW status \in BOOLEAN
  PROVE  LET n == set_prev_status(m, b, status)
         IN  /\ Stored(m, n, {b}) /\ n.free_lists = m.free_lists
             /\ At(n, b).lo = At(m, b).lo + 2 * (Bit(status) - ((At(m, b).lo \div 2) % 2))
<1>. DEFINE w == [At(m, b) EXCEPT !.lo = @ + 2 * (Bit(status) - Bit(is_prev_allocated(m, b)))]
<1>1. At(m, b) \in Words /\ At(m, b).lo \in Int
  BY AtType
<1>2. Bit(is_prev_allocated(m, b)) = (At(m, b).lo \div 2) % 2 /\ Bit(status) \in Int
  BY <1>1, LowBits DEF Bit, is_prev_allocated
<1>3. Bit(is_prev_allocated(m, b)) \in Int
  BY DEF Bit
<1>4. w \in Words /\ w.lo = At(m, b).lo + 2 * (Bit(status) - Bit(is_prev_allocated(m, b)))
  BY <1>1, <1>2, <1>3 DEF Words
<1>5. set_prev_status(m, b, status) = Store(m, b, w)
  BY DEF set_prev_status
<1>. HIDE DEF w
<1>6. QED
  BY <1>2, <1>4, <1>5, StoreFields

\* g is a heap cut up as h, with its lists.
LEMMA HeldAgain ==
  ASSUME NEW h, Laid(h), NEW m, Holds(m, h), NEW n, NEW W, Stored(m, n, W),
         n.free_lists = m.free_lists,
         \A w \in W : InBlocks(h, w),
         \A x \in H!Blocks(h) : x + 8 \notin W,
         NEW g, H!SameLayout(h, g), g.free_lists = h.free_lists,
         \A x \in H!Blocks(h) :
           /\ At(n, x).lo = h.block[x].size + g.block[x].alloc + 2 * g.block[x].prev_alloc
           /\ At(n, H!EndOf(h, x) - 16).lo = h.block[x].size,
         NEW odd, H!Listed(h, odd)
  PROVE  Holds(n, g)
<1>1. Mapped(m, h) /\ Headers(m, h) /\ ListsHeld(m, h)
  BY DEF Holds
<1>2. H!SameChunks(h, g) /\ H!Blocks(g) = H!Blocks(h)
      /\ \A x \in H!Blocks(h) : g.block[x].size = h.block[x].size /\ g.block[x].index = h.block[x].index
  BY DEF H!SameLayout
<1>3. Mapped(n, g)
  BY <1>1, <1>2, MappedKept
<1>4. Headers(n, g)
  BY <1>1, <1>2 DEF Headers, HeaderHeld, H!EndOf, Stored
<1>5. ASSUME NEW j \in 0 .. N_LISTS - 1
      PROVE  Spells(n, n.free_lists[j], g.free_lists[j])
  <2>. DEFINE s == h.free_lists[j]
  <2>1. Spells(m, m.free_lists[j], s)
    BY <1>1 DEF ListsHeld
  <2>2. \A k \in DOMAIN s : s[k] \in H!Blocks(h)
    BY ListedBlock DEF FreeBlocks
  <2>3. \A k \in DOMAIN s : At(n, s[k] + 8) = At(m, s[k] + 8)
    BY <2>2 DEF Stored
  <2>4. DOMAIN m.mem \subseteq DOMAIN n.mem
    BY DEF Stored
  <2>5. Spells(n, m.free_lists[j], s)
    BY <2>1, <2>3, <2>4, SpellsKept
  <2>6. QED
    BY <2>5
<1>6. ListsHeld(n, g)
  BY <1>1, <1>5 DEF ListsHeld
<1>7. QED
  BY <1>3, <1>4, <1>6 DEF Holds

\* One flag of one header, and nothing else.
LEMMA FlagWritten ==
  ASSUME NEW h, Laid(h), NEW odd, H!Listed(h, odd), NEW m, Holds(m, h), NEW b \in H!Blocks(h),
         NEW n, Stored(m, n, {b}), n.free_lists = m.free_lists,
         NEW g, H!SameLayout(h, g), g.free_lists = h.free_lists,
         \A x \in H!Blocks(h) \ {b} :
           /\ g.block[x].alloc = h.block[x].alloc
           /\ g.block[x].prev_alloc = h.block[x].prev_alloc,
         At(n, b).lo = h.block[b].size + g.block[b].alloc + 2 * g.block[b].prev_alloc
  PROVE  Holds(n, g)
<1>1. ASSUME NEW x \in H!Blocks(h)
      PROVE  /\ x + 8 # b /\ H!EndOf(h, x) - 16 # b
             /\ InBlocks(h, x)
  <2>1. /\ x \in Nat /\ H!EndOf(h, x) = x + h.block[x].size
        /\ h.block[x].size \in Nat /\ h.block[x].size >= 32
    BY LaidBlock
  <2>2. b \in Nat /\ H!EndOf(h, b) = b + h.block[b].size
        /\ h.block[b].size \in Nat /\ h.block[b].size >= 32
    BY LaidBlock
  <2>3. x = b \/ H!EndOf(h, x) <= b \/ H!EndOf(h, b) <= x
    BY Apart
  <2>4. x <= x /\ x < H!EndOf(h, x)
    BY <2>1
  <2>5. InBlocks(h, x)
    BY <2>4 DEF InBlocks
  <2>6. QED
    BY <2>1, <2>2, <2>3, <2>5
<1>2. ASSUME NEW x \in H!Blocks(h)
      PROVE  /\ At(n, x).lo = h.block[x].size + g.block[x].alloc + 2 * g.block[x].prev_alloc
             /\ At(n, H!EndOf(h, x) - 16).lo = h.block[x].size
  <2>1. HeaderHeld(m, h, x)
    BY DEF Holds, Headers
  <2>2. At(n, H!EndOf(h, x) - 16) = At(m, H!EndOf(h, x) - 16)
    BY <1>1 DEF Stored
  <2>3. x # b => At(n, x) = At(m, x)
    BY DEF Stored
  <2>4. QED
    BY <2>1, <2>2, <2>3 DEF HeaderHeld
<1>3. /\ \A w \in {b} : InBlocks(h, w)
      /\ \A x \in H!Blocks(h) : x + 8 \notin {b}
  BY <1>1
<1>4. QED
  BY <1>2, <1>3, HeldAgain

\* set_status writes the alloc bit of its block.
LEMMA StatusSet ==
  ASSUME NEW h, Laid(h), NEW odd, H!Listed(h, odd), NEW m, Holds(m, h), NEW b \in H!Blocks(h),
         NEW status \in BOOLEAN, NEW g, H!AllocSet(h, g, b, Bit(status))
  PROVE  LET n == set_status(m, b, status)
         IN  Holds(n, g) /\ Stored(m, n, {b}) /\ Laid(g) /\ n.free_lists = m.free_lists
<1>. DEFINE n == set_status(m, b, status)
<1>1. Mapped(m, h) /\ MemType(m) /\ HeaderHeld(m, h, b)
  BY DEF Holds, Mapped, Headers
<1>2. /\ b \in Nat /\ b % 8 = 0 /\ H!EndOf(h, b) = b + h.block[b].size
      /\ h.block[b].size \in Nat /\ h.block[b].size >= 32 /\ h.block[b].size % 8 = 0
      /\ h.block[b].alloc \in {0, 1} /\ h.block[b].prev_alloc \in {0, 1}
  BY LaidBlock
<1>3. b \in DOMAIN m.mem
  <2>1. b < H!EndOf(h, b) /\ b <= b
    BY <1>2
  <2>2. QED
    BY <1>1, <1>2, <2>1, BlockWords
<1>4. /\ Stored(m, n, {b}) /\ n.free_lists = m.free_lists
      /\ At(n, b).lo = At(m, b).lo + Bit(status) - (At(m, b).lo % 2)
  BY <1>1, <1>3, StatusStored
<1>. HIDE DEF n
<1>5. At(m, b).lo % 2 = h.block[b].alloc
  <2>1. LET v == h.block[b].size + h.block[b].alloc + 2 * h.block[b].prev_alloc
        IN  v % 2 = h.block[b].alloc
    <3>1. FlagsRead(h.block[b].size, h.block[b].alloc, h.block[b].prev_alloc)
      BY <1>2, FlagsOf
    <3>2. QED
      BY <3>1, Zenon DEF FlagsRead
  <2>2. QED
    BY <1>1, <2>1 DEF HeaderHeld
<1>6. At(n, b).lo = h.block[b].size + Bit(status) + 2 * h.block[b].prev_alloc
  <2>1. At(m, b).lo = h.block[b].size + h.block[b].alloc + 2 * h.block[b].prev_alloc
    BY <1>1 DEF HeaderHeld
  <2>2. h.block[b].size \in Int /\ h.block[b].alloc \in Int /\ h.block[b].prev_alloc \in Int
        /\ Bit(status) \in Int
    BY <1>2 DEF Bit
  <2>3. QED
    BY <1>4, <1>5, <2>1, <2>2
<1>7. /\ H!HeapType(g) /\ H!SameLayout(h, g) /\ g.free_lists = h.free_lists
      /\ g.block[b].alloc = Bit(status) /\ g.block[b].prev_alloc = h.block[b].prev_alloc
      /\ \A x \in H!Blocks(h) \ {b} :
           /\ g.block[x].alloc = h.block[x].alloc
           /\ g.block[x].prev_alloc = h.block[x].prev_alloc
  BY DEF H!AllocSet
<1>8. Holds(n, g)
  BY <1>4, <1>6, <1>7, FlagWritten
<1>9. Laid(g)
  BY <1>7, LaidKept
<1>10. QED
  BY <1>4, <1>8, <1>9 DEF n

\* tell_next writes the flag of the right neighbour, if the chunk has one.
LEMMA ToldNext ==
  ASSUME NEW h, Laid(h), NEW odd, H!Listed(h, odd), NEW m, Holds(m, h), NEW b \in H!Blocks(h),
         NEW status \in BOOLEAN
  PROVE  LET n == tell_next(m, b, status)
             g == H!tell_next(h, b, Bit(status))
         IN  /\ Holds(n, g) /\ Stored(m, n, {H!EndOf(h, b)}) /\ Laid(g)
             /\ n.free_lists = m.free_lists
<1>. DEFINE n == tell_next(m, b, status)
            g == H!tell_next(h, b, Bit(status))
            x == H!EndOf(h, b)
<1>1. Mapped(m, h) /\ MemType(m) /\ Headers(m, h)
  BY DEF Holds, Mapped
<1>2. Bit(status) \in {0, 1}
  BY DEF Bit
<1>3. H!HeapType(h) /\ H!ChunksApart(h) /\ H!Tiled(h)
  BY DEF Laid
<1>4. /\ H!HeapType(g) /\ H!SameLayout(h, g) /\ g.free_lists = h.free_lists
      /\ \A y \in H!Blocks(h) : g.block[y].alloc = h.block[y].alloc
      /\ \A y \in H!Blocks(h) :
           g.block[y].prev_alloc = IF y = x THEN Bit(status) ELSE h.block[y].prev_alloc
  BY <1>2, <1>3, H!TellNextFields, HeapAssumptions
<1>. HIDE DEF g
<1>5. Laid(g)
  BY <1>4, LaidKept
<1>6. /\ get_next_block(m, b) = H!get_next_block(h, b)
      /\ is_next_outside_chunk(m, b) <=> H!is_next_outside_chunk(h, b)
  BY <1>1, NextRead DEF Headers
<1>7. x = h.ch_array[h.block[b].index].end => H!is_next_outside_chunk(h, b)
  BY <1>3, H!NextBlock, HeapAssumptions
<1>8. x # h.ch_array[h.block[b].index].end =>
        /\ ~H!is_next_outside_chunk(h, b) /\ H!get_next_block(h, b) = x /\ x \in H!Blocks(h)
  BY <1>3, H!NextBlock, HeapAssumptions
<1>9. CASE x = h.ch_array[h.block[b].index].end
  <2>1. n = m
    BY <1>6, <1>7, <1>9 DEF tell_next
  <2>2. x \notin H!Blocks(h)
    <3>1. SUFFICES ASSUME x \in H!Blocks(h) PROVE FALSE
      OBVIOUS
    <3>2. x < h.ch_array[h.block[b].index].end
      BY <1>3, <3>1, H!NeighbourInChunk, HeapAssumptions
    <3>3. x \in Nat
      BY LaidBlock
    <3>. HIDE DEF x
    <3>4. QED
      BY <1>9, <3>2, <3>3
  <2>3. \A y \in H!Blocks(h) : g.block[y].prev_alloc = h.block[y].prev_alloc
    BY <1>4, <2>2
  <2>4. Stored(m, m, {b}) /\ Stored(m, m, {x})
    BY <1>1, StoredNone
  <2>5. At(m, b).lo = h.block[b].size + g.block[b].alloc + 2 * g.block[b].prev_alloc
    BY <1>1, <1>4, <2>3 DEF Headers, HeaderHeld
  <2>6. Holds(m, g)
    BY <1>4, <2>3, <2>4, <2>5, FlagWritten
  <2>7. QED
    BY <1>5, <2>1, <2>4, <2>6 DEF g
<1>10. CASE x # h.ch_array[h.block[b].index].end
  <2>1. x \in H!Blocks(h) /\ n = set_prev_status(m, x, status)
    BY <1>6, <1>8, <1>10 DEF tell_next
  <2>. HIDE DEF x, n
  <2>2. /\ x \in Nat /\ x % 8 = 0 /\ H!EndOf(h, x) = x + h.block[x].size
        /\ h.block[x].size \in Nat /\ h.block[x].size >= 32 /\ h.block[x].size % 8 = 0
        /\ h.block[x].alloc \in {0, 1} /\ h.block[x].prev_alloc \in {0, 1}
    BY <2>1, LaidBlock
  <2>3. x \in DOMAIN m.mem
    <3>1. x < H!EndOf(h, x) /\ x <= x
      BY <2>2
    <3>2. QED
      BY <1>1, <2>1, <2>2, <3>1, BlockWords
  <2>4. /\ Stored(m, n, {x}) /\ n.free_lists = m.free_lists
        /\ At(n, x).lo = At(m, x).lo + 2 * (Bit(status) - ((At(m, x).lo \div 2) % 2))
    BY <1>1, <2>1, <2>3, PrevStatusStored
  <2>5. At(m, x).lo = h.block[x].size + h.block[x].alloc + 2 * h.block[x].prev_alloc
    BY <1>1, <2>1 DEF Headers, HeaderHeld
  <2>6. (At(m, x).lo \div 2) % 2 = h.block[x].prev_alloc
    <3>1. LET v == h.block[x].size + h.block[x].alloc + 2 * h.block[x].prev_alloc
          IN  (v \div 2) % 2 = h.block[x].prev_alloc
      <4>1. FlagsRead(h.block[x].size, h.block[x].alloc, h.block[x].prev_alloc)
        BY <2>2, FlagsOf
      <4>2. QED
        BY <4>1, Zenon DEF FlagsRead
    <3>2. QED
      BY <2>5, <3>1
  <2>7. At(n, x).lo = h.block[x].size + g.block[x].alloc + 2 * g.block[x].prev_alloc
    <3>1. At(n, x).lo = h.block[x].size + h.block[x].alloc + 2 * Bit(status)
      <4>1. h.block[x].size \in Int /\ h.block[x].alloc \in Int /\ h.block[x].prev_alloc \in Int
            /\ Bit(status) \in Int
        BY <1>2, <2>2
      <4>2. QED
        BY <2>4, <2>5, <2>6, <4>1
    <3>2. QED
      BY <1>4, <2>1, <3>1
  <2>8. \A y \in H!Blocks(h) \ {x} :
           /\ g.block[y].alloc = h.block[y].alloc
           /\ g.block[y].prev_alloc = h.block[y].prev_alloc
    BY <1>4
  <2>9. Holds(n, g)
    BY <1>4, <2>1, <2>4, <2>7, <2>8, FlagWritten
  <2>10. QED
    BY <1>5, <2>4, <2>9 DEF n, g, x
<1>11. QED
  BY <1>9, <1>10

\* set_footer writes what the footer holds already.
LEMMA FooterSet ==
  ASSUME NEW h, Laid(h), NEW odd, H!Listed(h, odd), NEW m, Holds(m, h), NEW b \in H!Blocks(h)
  PROVE  LET n == set_footer(m, b)
         IN  /\ Holds(n, h) /\ Stored(m, n, {H!EndOf(h, b) - 16, H!EndOf(h, b) - 8})
             /\ n.free_lists = m.free_lists
<1>. DEFINE n  == set_footer(m, b)
            at == H!EndOf(h, b) - 16
            W  == {at, H!EndOf(h, b) - 8}
<1>1. Mapped(m, h) /\ MemType(m) /\ Headers(m, h)
  BY DEF Holds, Mapped
<1>2. /\ b \in Nat /\ b % 8 = 0 /\ H!EndOf(h, b) = b + h.block[b].size
      /\ h.block[b].size \in Nat /\ h.block[b].size >= 32 /\ h.block[b].size % 8 = 0
      /\ H!EndOf(h, b) \in Nat /\ H!EndOf(h, b) % 8 = 0
  BY LaidBlock
<1>3. /\ at \in Nat /\ at % 8 = 0 /\ (at + 8) % 8 = 0 /\ at + 8 = H!EndOf(h, b) - 8
      /\ b + 16 <= at /\ at + 8 < H!EndOf(h, b)
  BY <1>2
<1>4. at \in DOMAIN m.mem /\ at + 8 \in DOMAIN m.mem
  <2>1. \A a \in Nat : a % 8 = 0 /\ b <= a /\ a < H!EndOf(h, b) => a \in DOMAIN m.mem
    BY <1>1, BlockWords
  <2>. HIDE DEF at
  <2>2. QED
    BY <1>2, <1>3, <2>1
<1>5. n = store_footer(m, at, h.block[b].size, is_allocated(m, b))
  <2>1. Read(m, h, b)
    BY <1>1, Reads DEF Headers
  <2>2. QED
    BY <2>1 DEF Read, set_footer
<1>6. is_allocated(m, b) \in BOOLEAN
  BY DEF is_allocated
<1>. HIDE DEF n
<1>7. Stored(m, n, {at, at + 8}) /\ n.free_lists = m.free_lists /\ At(n, at).lo = h.block[b].size
  <2>1. h.block[b].size \in Int
    BY <1>2
  <2>. HIDE DEF at
  <2>2. QED
    BY <1>1, <1>4, <1>5, <1>6, <2>1, FooterStored
<1>8. Stored(m, n, W)
  BY <1>3, <1>7
<1>9. ASSUME NEW x \in H!Blocks(h)
      PROVE  x \notin W /\ x + 8 \notin W /\ (x # b => H!EndOf(h, x) - 16 \notin W)
  <2>1. /\ x \in Nat /\ H!EndOf(h, x) = x + h.block[x].size
        /\ h.block[x].size \in Nat /\ h.block[x].size >= 32
    BY LaidBlock
  <2>2. x = b \/ H!EndOf(h, x) <= b \/ H!EndOf(h, b) <= x
    BY Apart
  <2>3. QED
    BY <1>2, <2>1, <2>2
<1>10. \A w \in W : InBlocks(h, w)
  BY <1>2, <1>3 DEF InBlocks
<1>11. ASSUME NEW x \in H!Blocks(h)
       PROVE  /\ At(n, x).lo = h.block[x].size + h.block[x].alloc + 2 * h.block[x].prev_alloc
              /\ At(n, H!EndOf(h, x) - 16).lo = h.block[x].size
  <2>1. HeaderHeld(m, h, x)
    BY <1>1 DEF Headers
  <2>2. At(n, x) = At(m, x)
    BY <1>8, <1>9 DEF Stored
  <2>3. x # b => At(n, H!EndOf(h, x) - 16) = At(m, H!EndOf(h, x) - 16)
    BY <1>8, <1>9 DEF Stored
  <2>4. QED
    BY <1>7, <2>1, <2>2, <2>3 DEF HeaderHeld
<1>12. H!SameLayout(h, h)
  BY DEF H!SameLayout, H!SameChunks
<1>. HIDE DEF W
<1>13. Holds(n, h)
  BY <1>7, <1>8, <1>9, <1>10, <1>11, <1>12, HeldAgain
<1>14. QED
  BY <1>7, <1>8, <1>13 DEF n, W, at

-----------------------------------------------------------------------------
(* my_free *)

\* Two heaps that differ in their footers, or not at all, are held alike.
LEMMA HoldsSame ==
  ASSUME NEW m, NEW h, Holds(m, h), NEW g, H!SameLayout(h, g), g.free_lists = h.free_lists,
         \A x \in H!Blocks(h) :
           /\ g.block[x].alloc = h.block[x].alloc
           /\ g.block[x].prev_alloc = h.block[x].prev_alloc
  PROVE  Holds(m, g)
<1>1. /\ g.index_last_chunk_from_OS = h.index_last_chunk_from_OS
      /\ g.ch_array = h.ch_array /\ g.corr_size_arr = h.corr_size_arr
      /\ H!ChunkIds(g) = H!ChunkIds(h) /\ H!Blocks(g) = H!Blocks(h)
  BY DEF H!SameLayout, H!SameChunks, H!ChunkIds
<1>2. Mapped(m, g)
  BY <1>1 DEF Holds, Mapped
<1>3. Headers(m, g)
  BY <1>1 DEF Holds, Headers, HeaderHeld, H!EndOf, H!SameLayout
<1>4. QED
  BY <1>2, <1>3 DEF Holds, ListsHeld

\* The links and marks of the headers in X are as they were, and so is the head
\* of the list of allocated blocks; no fault is new but that of a full table of
\* chunks.
Keeps(m, n, X) ==
  /\ n.alloc_block_end = m.alloc_block_end /\ n.fault \in {m.fault, "table"}
  /\ DOMAIN m.mem \subseteq DOMAIN n.mem
  /\ \A x \in X : At(n, x + 8) = At(m, x + 8)

\* Stores elsewhere keep the second words of headers.
LEMMA StoredKeeps ==
  ASSUME NEW m, NEW n, NEW W, Stored(m, n, W), NEW X, \A x \in X : x + 8 \notin W
  PROVE  Keeps(m, n, X)
BY DEF Keeps, Stored

\* What is kept twice is kept.
LEMMA KeepsTwice ==
  ASSUME NEW m, NEW n, NEW k, NEW X, Keeps(m, n, X), Keeps(n, k, X)
  PROVE  Keeps(m, k, X)
BY DEF Keeps

\* No word of a free block is in the header of an allocated one.
LEMMA FreeWordsApart ==
  ASSUME NEW h, Laid(h), NEW x \in H!Allocated(h)
  PROVE  x + 8 \notin FreeWords(h) /\ x \in H!Blocks(h)
<1>1. x \in H!Blocks(h) /\ ~H!IsFree(h, x)
  BY DEF H!Allocated
<1>2. /\ x \in Nat /\ H!EndOf(h, x) = x + h.block[x].size
      /\ h.block[x].size \in Nat /\ h.block[x].size >= 32
  BY <1>1, LaidBlock
<1>3. ASSUME NEW y \in FreeBlocks(h) PROVE ~(y <= x + 8 /\ x + 8 < H!EndOf(h, y))
  <2>1. y \in H!Blocks(h) /\ y # x
    BY <1>1 DEF FreeBlocks
  <2>2. y \in Nat /\ H!EndOf(h, y) \in Nat
    BY <2>1, LaidBlock
  <2>3. H!EndOf(h, x) <= y \/ H!EndOf(h, y) <= x
    BY <1>1, <2>1, Apart
  <2>4. QED
    BY <1>2, <2>2, <2>3
<1>4. QED
  BY <1>1, <1>3 DEF FreeWords

\* A word of a block is in the second word of no other header.
LEMMA WordApart ==
  ASSUME NEW h, Laid(h), NEW b \in H!Blocks(h), NEW x \in H!Blocks(h)
  PROVE  /\ x + 8 # b /\ x + 8 # H!EndOf(h, b)
         /\ x + 8 # H!EndOf(h, b) - 16 /\ x + 8 # H!EndOf(h, b) - 8
<1>1. /\ x \in Nat /\ H!EndOf(h, x) = x + h.block[x].size
      /\ h.block[x].size \in Nat /\ h.block[x].size >= 32
  BY LaidBlock
<1>2. /\ b \in Nat /\ H!EndOf(h, b) = b + h.block[b].size
      /\ h.block[b].size \in Nat /\ h.block[b].size >= 32
  BY LaidBlock
<1>3. x = b \/ H!EndOf(h, x) <= b \/ H!EndOf(h, b) <= x
  BY Apart
<1>4. QED
  BY <1>1, <1>2, <1>3

\* A pointer handed out is accepted.
LEMMA HeldValid ==
  ASSUME NEW h, Laid(h), NEW m, Mapped(m, h), NEW b \in H!Blocks(h)
  PROVE  is_valid(m, b + kMetadataSize) /\ b + kMetadataSize # NULL
         /\ ptr_to_block(b + kMetadataSize) = b
<1>. DEFINE i == h.block[b].index
<1>1. /\ b \in Nat \ {0} /\ H!EndOf(h, b) = b + h.block[b].size
      /\ h.block[b].size \in Nat /\ h.block[b].size >= 32
      /\ i \in H!ChunkIds(h)
      /\ h.ch_array[i].start <= b /\ H!EndOf(h, b) <= h.ch_array[i].end
  BY LaidBlock
<1>2. /\ i \in ChunkIds(m) /\ StartOf(m, i) = h.ch_array[i].start
      /\ m.corr_size_arr[i] = h.corr_size_arr[i]
  BY <1>1, ChunkReads
<1>3. /\ h.ch_array[i].base \in Nat /\ h.ch_array[i].start = h.ch_array[i].base + 16
      /\ h.corr_size_arr[i] \in Nat /\ h.ch_array[i].base + h.corr_size_arr[i] = h.ch_array[i].end
  BY <1>1, LaidChunk
<1>. HIDE DEF i
<1>4. h.ch_array[i].start < b + 16 /\ b + 16 < h.ch_array[i].start + h.corr_size_arr[i]
  BY <1>1, <1>3
<1>5. is_valid(m, b + 16)
  BY <1>2, <1>4 DEF is_valid
<1>6. QED
  BY <1>1, <1>5, Names DEF ptr_to_block

\* my_free of an allocated block does to the words what it does to the heap.
\* The header it leaves stays that of a free block.
LEMMA Freed ==
  ASSUME NEW h, H!Sound(h), H!Grid(h), NEW m, Holds(m, h), NEW b \in H!Allocated(h)
  PROVE  LET n == my_free(m, b + kMetadataSize)
             g == H!release(h, b + kMetadataSize)
         IN  /\ Holds(n, g) /\ H!Sound(g) /\ H!Grid(g)
             /\ H!Allocated(g) = H!Allocated(h) \ {b}
             /\ \A x \in H!Allocated(g) : g.block[x].size = h.block[x].size
             /\ Keeps(m, n, H!Allocated(h) \ {b})
             /\ ~is_allocated(n, b)
<1>. DEFINE p  == b + kMetadataSize
            n  == my_free(m, p)
            r  == H!release(h, p)
            i  == h.block[b].index
            k1 == set_status(m, b, FALSE)
            m1 == set_free(m, b)
            m2 == tell_next(m1, b, FALSE)
            h1 == [h EXCEPT !.block[b].alloc = 0]
            h2 == H!tell_next(h1, b, 0)
            X  == H!Allocated(h) \ {b}
<1>1. Laid(h) /\ b \in H!Blocks(h) /\ H!Listed(h, {})
  BY SoundLaid DEF H!Sound, H!SoundBut, H!Allocated
<1>2. Mapped(m, h) /\ Headers(m, h)
  BY DEF Holds
<1>3. b \in Nat /\ i \in H!ChunkIds(h)
  BY <1>1, LaidBlock
<1>4. p - H!kMetadataSize = b /\ p \in Int
  BY <1>3, Names
<1>5. PICK g : H!Released(h, g, b) /\ r = H!freeing_up(g, b)
  <2>1. \E g : H!Released(h, g, p - H!kMetadataSize) /\ r = H!freeing_up(g, p - H!kMetadataSize)
    <3>1. p - H!kMetadataSize \in H!Allocated(h)
      BY <1>4
    <3>2. QED
      BY <1>4, <3>1, H!ReleaseParts, HeapAssumptions
  <2>2. QED
    BY <1>4, <2>1
<1>6. /\ H!Sound(r) /\ H!SameChunks(h, r)
      /\ H!Allocated(r) = H!Allocated(h) \ {b}
      /\ \A x \in H!Allocated(r) : r.block[x].size = h.block[x].size
      /\ H!Blocks(r) \subseteq H!Blocks(h)
  <2>1. p - H!kMetadataSize \in H!Allocated(h)
    BY <1>4
  <2>2. QED
    BY <1>4, <2>1, H!ReleaseSound, HeapAssumptions
<1>7. H!Grid(r)
  BY <1>1, <1>6, H!GridShrunk, HeapAssumptions DEF Laid
<1>. HIDE DEF r
<1>8. /\ H!SoundBut(g, {b}, {b, H!EndOf(g, b)}) /\ b \in FreeBlocks(g)
      /\ H!SameLayout(h, g) /\ g.free_lists = h.free_lists
      /\ \A x \in H!Blocks(h) \ {b} : g.block[x].alloc = h.block[x].alloc
      /\ \A x \in H!Blocks(h) :
           g.block[x].prev_alloc = IF x = H!EndOf(h, b) THEN 0 ELSE h.block[x].prev_alloc
  BY <1>5 DEF H!Released, FreeBlocks
<1>9. H!AllocSet(h, h1, b, 0)
  BY <1>1, H!SetAlloc, HeapAssumptions DEF Laid
<1>. HIDE DEF h1
<1>10. Holds(k1, h1) /\ Stored(m, k1, {b}) /\ Laid(h1)
  <2>1. H!AllocSet(h, h1, b, Bit(FALSE))
    BY <1>9 DEF Bit
  <2>2. QED
    BY <1>1, <2>1, StatusSet
<1>11. /\ H!SameLayout(h, h1) /\ h1.free_lists = h.free_lists /\ h1.block[b].alloc = 0
       /\ \A x \in H!Blocks(h) \ {b} : h1.block[x].alloc = h.block[x].alloc
       /\ \A x \in H!Blocks(h) : h1.block[x].prev_alloc = h.block[x].prev_alloc
       /\ H!Blocks(h1) = H!Blocks(h) /\ H!EndOf(h1, b) = H!EndOf(h, b)
       /\ h1.block[b].index = i
  BY <1>1, <1>9 DEF H!AllocSet, H!SameLayout, H!EndOf
<1>12. H!Listed(h1, {b})
  <2>1. ASSUME NEW x \in H!Blocks(h) \ {b}
        PROVE  /\ H!IsFree(h1, x) <=> H!IsFree(h, x)
               /\ h1.block[x].size = h.block[x].size
    BY <1>11 DEF H!IsFree, H!SameLayout
  <2>2. \A j \in H!FreeLists : \A k \in DOMAIN h.free_lists[j] : h.free_lists[j][k] # b
    BY DEF H!Sound, H!SoundBut, H!Listed, H!Allocated
  <2>3. QED
    BY <1>1, <1>11, <2>1, <2>2 DEF H!Listed
<1>13. Holds(m1, h1) /\ Stored(k1, m1, {H!EndOf(h, b) - 16, H!EndOf(h, b) - 8})
  BY <1>1, <1>10, <1>11, <1>12, FooterSet DEF set_free
<1>. HIDE DEF k1, m1
<1>14. Holds(m2, h2) /\ Stored(m1, m2, {H!EndOf(h, b)})
  <2>1. Holds(m2, H!tell_next(h1, b, Bit(FALSE))) /\ Stored(m1, m2, {H!EndOf(h1, b)})
    BY <1>1, <1>10, <1>11, <1>12, <1>13, ToldNext
  <2>2. Bit(FALSE) = 0
    BY DEF Bit
  <2>3. QED
    BY <1>11, <2>1, <2>2
<1>15. /\ H!SameLayout(h1, h2) /\ h2.free_lists = h1.free_lists
       /\ \A x \in H!Blocks(h1) : h2.block[x].alloc = h1.block[x].alloc
       /\ \A x \in H!Blocks(h1) :
            h2.block[x].prev_alloc = IF x = H!EndOf(h1, b) THEN 0 ELSE h1.block[x].prev_alloc
  <2>1. H!HeapType(h1) /\ H!ChunksApart(h1) /\ H!Tiled(h1) /\ b \in H!Blocks(h1) /\ 0 \in {0, 1}
    BY <1>1, <1>10, <1>11 DEF Laid
  <2>. HIDE DEF h2
  <2>2. LET g0 == H!tell_next(h1, b, 0)
        IN  /\ H!SameLayout(h1, g0) /\ g0.free_lists = h1.free_lists
            /\ \A x \in H!Blocks(h1) : g0.block[x].alloc = h1.block[x].alloc
            /\ \A x \in H!Blocks(h1) :
                 g0.block[x].prev_alloc = IF x = H!EndOf(h1, b) THEN 0 ELSE h1.block[x].prev_alloc
    BY <2>1, H!TellNextFields, HeapAssumptions
  <2>3. QED
    BY <2>2 DEF h2
<1>. HIDE DEF h2
<1>16. Holds(m2, g)
  <2>1. H!SameLayout(h2, g)
    BY <1>8, <1>11, <1>15 DEF H!SameLayout, H!SameChunks
  <2>2. g.free_lists = h2.free_lists
    BY <1>8, <1>11, <1>15
  <2>3. \A x \in H!Blocks(h2) :
           /\ g.block[x].alloc = h2.block[x].alloc
           /\ g.block[x].prev_alloc = h2.block[x].prev_alloc
    <3>1. H!Blocks(h2) = H!Blocks(h)
      BY <1>11, <1>15 DEF H!SameLayout
    <3>2. g.block[b].alloc = 0
      BY <1>8 DEF FreeBlocks, H!IsFree
    <3>3. QED
      BY <1>8, <1>11, <1>15, <3>1, <3>2
  <2>4. QED
    BY <1>14, <2>1, <2>2, <2>3, HoldsSame
<1>17. H!Grid(g) /\ Laid(g)
  <2>1. H!HeapType(g)
    BY <1>8 DEF H!SoundBut
  <2>2. Laid(g)
    BY <1>1, <1>8, <2>1, LaidKept
  <2>3. QED
    BY <2>2 DEF Laid
<1>18. n = freeing_up(m2, b)
  <2>1. is_valid(m, p) /\ p # NULL /\ ptr_to_block(p) = b
    BY <1>1, <1>2, HeldValid
  <2>2. get_chunk_index(m, b) = i
    BY <1>1, <1>2, Reads DEF Headers, Read
  <2>3. m.ch_array[i] + m.corr_size_arr[i] = h.ch_array[i].end
    BY <1>1, <1>2, <1>3, ChunkReads
  <2>4. ~(get_next_block(m1, b) < m.ch_array[i] + m.corr_size_arr[i]) => m2 = m1
    <3>1. Mapped(m1, h1) /\ HeaderHeld(m1, h1, b) /\ b \in H!Blocks(h1)
      BY <1>1, <1>11, <1>13 DEF Holds, Headers
    <3>2. /\ get_next_block(m1, b) = H!get_next_block(h1, b)
          /\ is_next_outside_chunk(m1, b) <=> H!is_next_outside_chunk(h1, b)
      BY <1>10, <3>1, NextRead
    <3>3. h1.ch_array[i].end = h.ch_array[i].end
      BY <1>11 DEF H!SameLayout, H!SameChunks
    <3>4. H!EndOf(h1, b) # h1.ch_array[i].end =>
            H!EndOf(h1, b) < h1.ch_array[i].end /\ H!get_next_block(h1, b) = H!EndOf(h1, b)
      BY <1>10, <1>11, <3>1, H!NextBlock, HeapAssumptions DEF Laid
    <3>5. H!EndOf(h1, b) = h1.ch_array[i].end => H!is_next_outside_chunk(h1, b)
      BY <1>10, <1>11, <3>1, H!NextBlock, HeapAssumptions DEF Laid
    <3>6. QED
      BY <2>3, <3>2, <3>3, <3>4, <3>5 DEF tell_next
  <2>. HIDE DEF m2, p
  <2>5. my_free(m, p) = freeing_up(IF get_next_block(m1, b) < m.ch_array[i] + m.corr_size_arr[i]
                                   THEN m2 ELSE m1, b)
    BY <2>1, <2>2 DEF my_free, m1, m2
  <2>6. QED
    BY <2>4, <2>5
<1>. HIDE DEF m2, n, p
<1>19. /\ Holds(n, r) /\ Stored(m2, n, FreeWords(g)) /\ ~is_allocated(n, b)
  BY <1>5, <1>8, <1>16, <1>17, <1>18, FreedUp
<1>20. Keeps(m, n, X)
  <2>1. ASSUME NEW x \in X
        PROVE  /\ x + 8 \notin {b} /\ x + 8 \notin {H!EndOf(h, b) - 16, H!EndOf(h, b) - 8}
               /\ x + 8 \notin {H!EndOf(h, b)} /\ x + 8 \notin FreeWords(g)
    <3>1. x \in H!Blocks(h) /\ x # b /\ ~H!IsFree(h, x)
      BY DEF H!Allocated
    <3>2. x \in H!Allocated(g)
      BY <1>8, <3>1 DEF H!Allocated, H!IsFree, H!SameLayout
    <3>3. QED
      BY <1>1, <1>17, <3>1, <3>2, FreeWordsApart, WordApart
  <2>2. Keeps(m, k1, X) /\ Keeps(k1, m1, X) /\ Keeps(m1, m2, X) /\ Keeps(m2, n, X)
    BY <1>10, <1>13, <1>14, <1>19, <2>1, StoredKeeps
  <2>. HIDE DEF X
  <2>3. Keeps(m, m1, X) /\ Keeps(m1, n, X)
    BY <2>2, KeepsTwice
  <2>4. QED
    BY <2>3, KeepsTwice
<1>21. QED
  BY <1>6, <1>7, <1>19, <1>20 DEF n, r, p, X

-----------------------------------------------------------------------------
(* allocate *)

\* set_chunk_index writes the high half of the second word of a header.
LEMMA IndexSet ==
  ASSUME NEW m, MemType(m), NEW b \in Nat, b + 8 \in DOMAIN m.mem, NEW i \in Nat
  PROVE  LET n == set_chunk_index(m, b, i)
         IN  /\ Stored(m, n, {b + 8}) /\ n.free_lists = m.free_lists
             /\ At(n, b + 8).hi = i
<1>. DEFINE w == [At(m, b + 8) EXCEPT !.hi = i]
<1>1. At(m, b + 8) \in Words
  BY AtType
<1>2. w \in Words /\ w.hi = i
  BY <1>1 DEF Words
<1>3. set_chunk_index(m, b, i) = Store(m, b + 8, w)
  BY DEF set_chunk_index
<1>. HIDE DEF w
<1>4. LET n == Store(m, b + 8, w)
      IN  Stored(m, n, {b + 8}) /\ n.free_lists = m.free_lists /\ At(n, b + 8) = w
  BY <1>2, StoreFields
<1>5. QED
  BY <1>2, <1>3, <1>4

\* A mapped header of size bytes with its flags; the footer goes to at.
Framed(m, b, at, size, a, p) ==
  /\ MemType(m)
  /\ b \in Nat /\ at \in Nat /\ at = b + size - 16
  /\ size \in Nat /\ size % 8 = 0 /\ size >= 32
  /\ a \in {0, 1} /\ p \in {0, 1} /\ At(m, b).lo = size + a + 2 * p
  /\ b \in DOMAIN m.mem /\ at \in DOMAIN m.mem /\ at + 8 \in DOMAIN m.mem

\* n is m with that header's status, and its footer.
FrameSet(m, n, b, at, size, a, p) ==
  /\ Stored(m, n, {b, at, at + 8}) /\ n.free_lists = m.free_lists
  /\ At(n, b).lo = size + a + 2 * p
  /\ At(n, at).lo = size

\* set_free and set_taken: one bit, and the footer.
LEMMA StatusFooter ==
  ASSUME NEW m, NEW b, NEW at, NEW size, NEW a, NEW p, Framed(m, b, at, size, a, p),
         NEW status \in BOOLEAN
  PROVE  FrameSet(m, set_footer(set_status(m, b, status), b), b, at, size, Bit(status), p)
<1>0. /\ MemType(m) /\ b \in Nat /\ at \in Nat /\ at = b + size - 16
      /\ size \in Nat /\ size % 8 = 0 /\ size >= 32
      /\ a \in {0, 1} /\ p \in {0, 1} /\ At(m, b).lo = size + a + 2 * p
      /\ b \in DOMAIN m.mem /\ at \in DOMAIN m.mem /\ at + 8 \in DOMAIN m.mem
  BY DEF Framed
<1>. DEFINE k  == set_status(m, b, status)
            n  == set_footer(k, b)
<1>1. Bit(status) \in {0, 1} /\ size \in Int
  BY <1>0 DEF Bit
<1>2. /\ Stored(m, k, {b}) /\ k.free_lists = m.free_lists
      /\ At(k, b).lo = At(m, b).lo + Bit(status) - (At(m, b).lo % 2)
  BY <1>0, StatusStored
<1>. HIDE DEF k
<1>3. At(m, b).lo % 2 = a
  <2>1. FlagsRead(size, a, p)
    BY <1>0, FlagsOf
  <2>2. (size + a + 2 * p) % 2 = a
    BY <2>1, Zenon DEF FlagsRead
  <2>3. QED
    BY <1>0, <2>2
<1>4. At(k, b).lo = size + Bit(status) + 2 * p
  BY <1>0, <1>1, <1>2, <1>3
<1>5. get_size(k, b) = size
  <2>1. LET v == size + Bit(status) + 2 * p IN v - (v % 4) = size
    <3>1. FlagsRead(size, Bit(status), p)
      BY <1>0, <1>1, FlagsOf
    <3>2. QED
      BY <3>1, Zenon DEF FlagsRead
  <2>2. QED
    BY <1>4, <2>1 DEF get_size
<1>6. MemType(k) /\ DOMAIN k.mem = DOMAIN m.mem
  BY <1>2 DEF Stored
<1>7. b + 8 < at /\ b # at /\ b # at + 8
  BY <1>0
<1>8. is_allocated(k, b) \in BOOLEAN
  BY DEF is_allocated
<1>9. n = store_footer(k, at, size, is_allocated(k, b))
  BY <1>0, <1>5, Names DEF set_footer, footer_of
<1>10. at \in DOMAIN k.mem /\ at + 8 \in DOMAIN k.mem
  BY <1>0, <1>6
<1>. HIDE DEF n
<1>11. /\ Stored(k, n, {at, at + 8}) /\ n.free_lists = k.free_lists
       /\ At(n, at).lo = size
  BY <1>1, <1>6, <1>8, <1>9, <1>10, FooterStored
<1>12. At(n, b).lo = At(k, b).lo
  BY <1>7, <1>11 DEF Stored
<1>13. Stored(m, n, {b} \cup {at, at + 8})
  BY <1>2, <1>11, StoredTwice
<1>14. Stored(m, n, {b, at, at + 8})
  <2>1. {b} \cup {at, at + 8} = {b, at, at + 8}
    OBVIOUS
  <2>2. QED
    BY <1>13, <2>1
<1>15. QED
  BY <1>2, <1>4, <1>11, <1>12, <1>14 DEF n, k, FrameSet

\* The words that split_block and set_taken write: header and footer of each
\* part. low and top are the footers.
CutWords(b, low, right, top) == {b, low, low + 8, right, right + 8, top, top + 8}

\* The upper n bytes of a free block cut off and allocated: k is m with the
\* headers and footers of both parts. The header of the new block is laid over
\* whatever its words hold.
CutOff(m, k, b, low, right, top, n, p) ==
  /\ Stored(m, k, CutWords(b, low, right, top)) /\ k.free_lists = m.free_lists
  /\ At(k, b).lo = right - b + 2 * p
  /\ At(k, right).lo = n + 1
  /\ At(k, right + 8).hi = get_chunk_index(m, b)
  /\ At(k, low).lo = right - b
  /\ At(k, top).lo = n

\* A mapped free block of size bytes, more than n, and the places in it.
Cuttable(m, b, low, right, top, size, n, p) ==
  /\ MemType(m)
  /\ b \in Nat \ {0} /\ size \in Nat /\ n \in Nat
  /\ size % 8 = 0 /\ n % 8 = 0 /\ n >= 32 /\ size - n >= 32
  /\ p \in {0, 1} /\ At(m, b).lo = size + 2 * p
  /\ right \in Nat /\ right = b + (size - n)
  /\ low \in Nat /\ low + 16 = right /\ top \in Nat /\ top = right + n - 16
  /\ CutWords(b, low, right, top) \subseteq DOMAIN m.mem
  /\ right < m.ch_array[get_chunk_index(m, b)] + m.corr_size_arr[get_chunk_index(m, b)]

\* What split_block and set_taken write.
LEMMA CutStored ==
  ASSUME NEW m, NEW b, NEW low, NEW right, NEW top, NEW size, NEW n, NEW p,
         Cuttable(m, b, low, right, top, size, n, p)
  PROVE  LET cut == split_block(m, b, n)
         IN  /\ cut.right = right
             /\ CutOff(m, set_taken(cut.heap, cut.right), b, low, right, top, n, p)
<1>0. /\ MemType(m)
      /\ b \in Nat \ {0} /\ size \in Nat /\ n \in Nat
      /\ size % 8 = 0 /\ n % 8 = 0 /\ n >= 32 /\ size - n >= 32
      /\ p \in {0, 1} /\ At(m, b).lo = size + 2 * p
      /\ right \in Nat /\ right = b + (size - n)
      /\ low \in Nat /\ low + 16 = right /\ top \in Nat /\ top = right + n - 16
      /\ CutWords(b, low, right, top) \subseteq DOMAIN m.mem
      /\ right < m.ch_array[get_chunk_index(m, b)] + m.corr_size_arr[get_chunk_index(m, b)]
  BY DEF Cuttable
<1>01. size - n \in Nat /\ (size - n) % 8 = 0
  BY <1>0, SizeLeft, Zenon
<1>02. LET rest == size - n
       IN  /\ rest \in Int /\ rest >= 32 /\ right = b + rest
           /\ low = b + rest - 16 /\ right - b = rest
  <2>1. /\ b \in Nat /\ size \in Nat /\ n \in Nat /\ size - n >= 32
        /\ right = b + (size - n) /\ low \in Nat /\ low + 16 = right
    BY <1>0
  <2>2. QED
    BY <2>1
<1>. USE <1>0
<1>. DEFINE rest == size - n
            i  == get_chunk_index(m, b)
            W  == CutWords(b, low, right, top)
            m1 == set_size(m, b, rest)
            m2 == set_chunk_index(m1, right, i)
            m3 == set_size(m2, right, n)
            m4 == set_free(m3, b)
            m5 == set_free(m4, right)
            m6 == set_prev_status(m5, right, FALSE)
            k  == set_taken(m6, right)
<1>1. /\ rest \in Nat /\ rest \in Int /\ rest % 8 = 0 /\ rest >= 32 /\ right = b + rest
      /\ low = b + rest - 16 /\ right - b = rest
  BY <1>01, <1>02, Zenon
<1>2. /\ b + 8 < low /\ low + 8 < right /\ right + 8 < top /\ n \in Int
      /\ b \in Nat /\ b # 0 /\ right # 0
  BY <1>1
<1>3. /\ size - ((size + 2 * p) % 4) \in Int /\ (size + 2 * p) % 4 = 2 * p
      /\ (size + 2 * p) - ((size + 2 * p) % 4) = size
  <2>1. LET v == size + 0 + 2 * p IN v % 4 = 0 + 2 * p /\ v - (v % 4) = size /\ v \in Nat
    BY Flags
  <2>2. size + 0 + 2 * p = size + 2 * p /\ 0 + 2 * p = 2 * p /\ 2 * p \in Int
    OBVIOUS
  <2>3. QED
    BY <2>1, <2>2
<1>4. get_size(m, b) = size
  BY <1>3 DEF get_size
<1>. HIDE DEF rest
<1>5. \A a \in W : a \in DOMAIN m.mem
  OBVIOUS
<1>6. /\ b \in W /\ low \in W /\ low + 8 \in W /\ right \in W /\ right + 8 \in W
      /\ top \in W /\ top + 8 \in W
  BY DEF CutWords
<1>. HIDE DEF W
<1>7. /\ Stored(m, m1, {b}) /\ m1.free_lists = m.free_lists /\ At(m1, b).lo = rest + 2 * p
  <2>1. rest \in Int /\ b \in DOMAIN m.mem
    BY <1>1, <1>5, <1>6
  <2>2. LET g == set_size(m, b, rest)
        IN  /\ Stored(m, g, {b}) /\ g.free_lists = m.free_lists
            /\ At(g, b).lo = rest + (At(m, b).lo % 4)
    BY <2>1, SizeSet
  <2>3. At(m, b).lo % 4 = 2 * p
    BY <1>3
  <2>4. QED
    BY <2>2, <2>3
<1>. HIDE DEF m1
<1>8. MemType(m1) /\ DOMAIN m1.mem = DOMAIN m.mem
  BY <1>7 DEF Stored
<1>9. /\ Stored(m1, m2, {right + 8}) /\ m2.free_lists = m1.free_lists /\ At(m2, right + 8).hi = i
  <2>1. i \in Nat
    BY AtType DEF get_chunk_index
  <2>2. right + 8 \in DOMAIN m1.mem
    BY <1>5, <1>6, <1>8
  <2>. HIDE DEF i
  <2>3. LET g == set_chunk_index(m1, right, i)
        IN  Stored(m1, g, {right + 8}) /\ g.free_lists = m1.free_lists /\ At(g, right + 8).hi = i
    BY <1>8, <2>1, <2>2, IndexSet
  <2>4. QED
    BY <2>3
<1>. HIDE DEF m2
<1>10. MemType(m2) /\ DOMAIN m2.mem = DOMAIN m.mem
  BY <1>8, <1>9 DEF Stored
<1>11. PICK a0 \in {0, 1}, p0 \in {0, 1} : At(m2, right).lo % 4 = a0 + 2 * p0
  BY <1>10, AtType, LowBits
<1>12. /\ Stored(m2, m3, {right}) /\ m3.free_lists = m2.free_lists
       /\ At(m3, right).lo = n + a0 + 2 * p0
  <2>1. /\ Stored(m2, m3, {right}) /\ m3.free_lists = m2.free_lists
        /\ At(m3, right).lo = n + (At(m2, right).lo % 4)
    BY <1>2, <1>5, <1>6, <1>10, SizeSet
  <2>2. n + (a0 + 2 * p0) = n + a0 + 2 * p0
    OBVIOUS
  <2>3. QED
    BY <1>11, <2>1, <2>2
<1>. HIDE DEF m3
<1>13. MemType(m3) /\ DOMAIN m3.mem = DOMAIN m.mem
  BY <1>10, <1>12 DEF Stored
<1>14. At(m3, b).lo = rest + 0 + 2 * p
  <2>1. b # right /\ b # right + 8
    BY <1>2
  <2>2. At(m3, b) = At(m1, b)
    BY <1>9, <1>12, <2>1 DEF Stored
  <2>3. rest + 0 + 2 * p = rest + 2 * p
    BY <1>1
  <2>4. QED
    BY <1>7, <2>2, <2>3
<1>15. /\ Stored(m3, m4, {b, low, low + 8}) /\ m4.free_lists = m3.free_lists
       /\ At(m4, b).lo = rest + 2 * p /\ At(m4, low).lo = rest
  <2>1. FrameSet(m3, m4, b, low, rest, Bit(FALSE), p)
    <3>1. b \in DOMAIN m3.mem /\ low \in DOMAIN m3.mem /\ low + 8 \in DOMAIN m3.mem
      BY <1>5, <1>6, <1>13
    <3>2. Framed(m3, b, low, rest, 0, p)
      BY <1>1, <1>2, <1>13, <1>14, <3>1 DEF Framed
    <3>3. m4 = set_footer(set_status(m3, b, FALSE), b)
      BY DEF m4, set_free
    <3>4. QED
      BY <3>2, <3>3, StatusFooter
  <2>2. rest + Bit(FALSE) + 2 * p = rest + 2 * p
    BY <1>1 DEF Bit
  <2>3. QED
    BY <2>1, <2>2 DEF FrameSet
<1>. HIDE DEF m4
<1>16. MemType(m4) /\ DOMAIN m4.mem = DOMAIN m.mem
  BY <1>13, <1>15 DEF Stored
<1>17. At(m4, right).lo = n + a0 + 2 * p0
  <2>1. right # b /\ right # low /\ right # low + 8
    BY <1>2
  <2>2. QED
    BY <1>12, <1>15, <2>1 DEF Stored
<1>18. /\ Stored(m4, m5, {right, top, top + 8}) /\ m5.free_lists = m4.free_lists
       /\ At(m5, right).lo = n + 2 * p0
  <2>1. FrameSet(m4, m5, right, top, n, Bit(FALSE), p0)
    <3>1. right \in DOMAIN m4.mem /\ top \in DOMAIN m4.mem /\ top + 8 \in DOMAIN m4.mem
      BY <1>5, <1>6, <1>16
    <3>2. Framed(m4, right, top, n, a0, p0)
      BY <1>16, <1>17, <3>1 DEF Framed
    <3>3. m5 = set_footer(set_status(m4, right, FALSE), right)
      BY DEF m5, set_free
    <3>4. QED
      BY <3>2, <3>3, StatusFooter
  <2>2. n + Bit(FALSE) + 2 * p0 = n + 2 * p0
    BY DEF Bit
  <2>3. QED
    BY <2>1, <2>2 DEF FrameSet
<1>. HIDE DEF m5
<1>19. MemType(m5) /\ DOMAIN m5.mem = DOMAIN m.mem
  BY <1>16, <1>18 DEF Stored
<1>20. /\ Stored(m5, m6, {right}) /\ m6.free_lists = m5.free_lists /\ At(m6, right).lo = n
  <2>1. /\ Stored(m5, m6, {right}) /\ m6.free_lists = m5.free_lists
        /\ At(m6, right).lo = At(m5, right).lo + 2 * (Bit(FALSE) - ((At(m5, right).lo \div 2) % 2))
    <3>1. right \in DOMAIN m5.mem /\ FALSE \in BOOLEAN
      BY <1>5, <1>6, <1>19
    <3>2. QED
      BY <1>19, <3>1, PrevStatusStored
  <2>2. ((n + 2 * p0) \div 2) % 2 = p0
    <3>1. LET v == n + 0 + 2 * p0 IN (v \div 2) % 2 = p0
      BY Flags
    <3>2. n + 0 + 2 * p0 = n + 2 * p0
      OBVIOUS
    <3>3. QED
      BY <3>1, <3>2
  <2>3. Bit(FALSE) = 0
    BY DEF Bit
  <2>4. (n + 2 * p0) + 2 * (0 - p0) = n
    OBVIOUS
  <2>5. QED
    BY <1>18, <2>1, <2>2, <2>3, <2>4
<1>. HIDE DEF m6
<1>21. MemType(m6) /\ DOMAIN m6.mem = DOMAIN m.mem
  BY <1>19, <1>20 DEF Stored
<1>22. /\ Stored(m6, k, {right, top, top + 8}) /\ k.free_lists = m6.free_lists
       /\ At(k, right).lo = n + 1 /\ At(k, top).lo = n
  <2>1. FrameSet(m6, k, right, top, n, Bit(TRUE), 0)
    <3>1. right \in DOMAIN m6.mem /\ top \in DOMAIN m6.mem /\ top + 8 \in DOMAIN m6.mem
      BY <1>5, <1>6, <1>21
    <3>2. At(m6, right).lo = n + 0 + 2 * 0
      <4>1. n + 0 + 2 * 0 = n
        OBVIOUS
      <4>2. QED
        BY <1>20, <4>1
    <3>3. Framed(m6, right, top, n, 0, 0)
      BY <1>21, <3>1, <3>2 DEF Framed
    <3>4. k = set_footer(set_status(m6, right, TRUE), right)
      BY DEF k, set_taken
    <3>5. QED
      BY <3>3, <3>4, StatusFooter
  <2>2. n + Bit(TRUE) + 2 * 0 = n + 1
    BY DEF Bit
  <2>3. QED
    BY <2>1, <2>2 DEF FrameSet
<1>. HIDE DEF k
<1>23. /\ Stored(m, m1, W) /\ Stored(m1, m2, W) /\ Stored(m2, m3, W) /\ Stored(m3, m4, W)
       /\ Stored(m4, m5, W) /\ Stored(m5, m6, W) /\ Stored(m6, k, W)
  <2>1. /\ {b} \subseteq W /\ {right + 8} \subseteq W /\ {right} \subseteq W
        /\ {b, low, low + 8} \subseteq W /\ {right, top, top + 8} \subseteq W
    BY <1>6
  <2>2. QED
    BY <1>7, <1>9, <1>12, <1>15, <1>18, <1>20, <1>22, <2>1, StoredMore
<1>24. Stored(m, k, W)
  BY <1>23 DEF Stored
<1>25. /\ At(k, b) = At(m4, b) /\ At(k, low) = At(m4, low)
       /\ At(k, right + 8) = At(m2, right + 8)
  <2>1. /\ b # right /\ b # top /\ b # top + 8
        /\ low # right /\ low # top /\ low # top + 8
        /\ right + 8 # right /\ right + 8 # top /\ right + 8 # top + 8
        /\ right + 8 # b /\ right + 8 # low /\ right + 8 # low + 8
    BY <1>2
  <2>2. At(k, b) = At(m6, b) /\ At(k, low) = At(m6, low) /\ At(k, right + 8) = At(m6, right + 8)
    BY <1>22, <2>1 DEF Stored
  <2>3. At(m6, b) = At(m5, b) /\ At(m6, low) = At(m5, low) /\ At(m6, right + 8) = At(m5, right + 8)
    BY <1>20, <2>1 DEF Stored
  <2>4. At(m5, b) = At(m4, b) /\ At(m5, low) = At(m4, low) /\ At(m5, right + 8) = At(m4, right + 8)
    BY <1>18, <2>1 DEF Stored
  <2>5. At(m4, right + 8) = At(m3, right + 8)
    BY <1>15, <2>1 DEF Stored
  <2>6. At(m3, right + 8) = At(m2, right + 8)
    BY <1>12, <2>1 DEF Stored
  <2>7. QED
    BY <2>2, <2>3, <2>4, <2>5, <2>6
<1>26. CutOff(m, k, b, low, right, top, n, p)
  <2>1. k.free_lists = m.free_lists
    BY <1>7, <1>9, <1>12, <1>15, <1>18, <1>20, <1>22
  <2>2. QED
    BY <1>1, <1>9, <1>15, <1>22, <1>24, <1>25, <2>1 DEF CutOff, W
<1>27. get_next_block(m1, b) = right /\ get_chunk_index(m1, b) = i
  <2>1. get_size(m1, b) = rest
    <3>1. LET v == rest + 0 + 2 * p IN v - (v % 4) = rest
      BY <1>1, Flags
    <3>2. rest + 0 + 2 * p = rest + 2 * p
      BY <1>1
    <3>3. QED
      BY <1>7, <3>1, <3>2 DEF get_size
  <2>2. get_chunk_index(m1, b) = i
    <3>1. b + 8 # b
      BY <1>2
    <3>2. QED
      BY <1>7, <3>1 DEF Stored, get_chunk_index
  <2>3. m1.ch_array = m.ch_array /\ m1.corr_size_arr = m.corr_size_arr
    BY <1>7 DEF Stored
  <2>4. right < m1.ch_array[i] + m1.corr_size_arr[i]
    BY <2>3
  <2>. HIDE DEF i
  <2>5. QED
    BY <1>1, <1>2, <2>1, <2>2, <2>4, Names DEF get_next_block
<1>28. split_block(m, b, n) = [heap |-> m6, right |-> right]
  BY <1>4, <1>27 DEF split_block, lay_upper, m1, m2, m3, m4, m5, m6, rest
<1>29. QED
  BY <1>26, <1>28 DEF k

\* my_malloc takes a free block out of its list, and tells its neighbour.
TakenHeld(m, n, h, t, b) ==
  /\ H!Taken(h, t, b) /\ Laid(t) /\ Holds(n, t)
  /\ Keeps(m, n, H!Allocated(h))

\* The first two calls of allocate.
LEMMA TakenAlike ==
  ASSUME NEW h, H!Sound(h), H!Grid(h), NEW m, Holds(m, h), NEW b \in FreeBlocks(h)
  PROVE  TakenHeld(m, remove_from_free_list(tell_next(m, b, TRUE), b),
                   h, H!remove_from_free_list(H!tell_next(h, b, 1), b), b)
<1>. DEFINE k == tell_next(m, b, TRUE)
            n == remove_from_free_list(k, b)
            g == H!tell_next(h, b, 1)
            t == H!remove_from_free_list(g, b)
<1>1. /\ Laid(h) /\ b \in H!Blocks(h) /\ H!IsFree(h, b) /\ H!Listed(h, {})
      /\ H!HeapType(h) /\ H!ChunksApart(h) /\ H!Tiled(h)
  BY SoundLaid DEF H!Sound, H!SoundBut, FreeBlocks
<1>2. Holds(k, g) /\ Stored(m, k, {H!EndOf(h, b)}) /\ Laid(g)
  <2>1. Bit(TRUE) = 1
    BY DEF Bit
  <2>2. /\ Holds(k, H!tell_next(h, b, Bit(TRUE))) /\ Stored(m, k, {H!EndOf(h, b)})
        /\ Laid(H!tell_next(h, b, Bit(TRUE)))
    BY <1>1, ToldNext
  <2>3. QED
    BY <2>1, <2>2
<1>3. /\ H!SameLayout(h, g) /\ g.free_lists = h.free_lists
      /\ \A x \in H!Blocks(h) : g.block[x].alloc = h.block[x].alloc
  <2>1. 1 \in {0, 1}
    OBVIOUS
  <2>2. LET g0 == H!tell_next(h, b, 1)
        IN  /\ H!SameLayout(h, g0) /\ g0.free_lists = h.free_lists
            /\ \A x \in H!Blocks(h) : g0.block[x].alloc = h.block[x].alloc
    BY <1>1, <2>1, H!TellNextFields, HeapAssumptions
  <2>3. QED
    BY <2>2
<1>4. H!Taken(h, t, b)
  BY <1>1, H!TakenFields, HeapAssumptions
<1>. HIDE DEF k, g
<1>5. H!Blocks(g) = H!Blocks(h) /\ \A x \in H!Blocks(h) : H!IsFree(g, x) <=> H!IsFree(h, x)
  BY <1>3 DEF H!SameLayout, H!IsFree
<1>6. H!Listed(g, {})
  BY <1>1, <1>3, <1>5 DEF H!Listed, H!SameLayout
<1>7. RemoveHeld(k, n, g, t)
  <2>1. b \in H!Blocks(g)
    BY <1>1, <1>5
  <2>2. QED
    BY <1>2, <1>6, <2>1, Removed
<1>. HIDE DEF n, t
<1>8. Laid(t)
  BY <1>1, <1>4, LaidKept DEF H!Taken
<1>9. Keeps(m, n, H!Allocated(h))
  <2>1. Stored(k, n, {x + 8 : x \in FreeBlocks(g)})
    BY <1>7 DEF RemoveHeld, LinksOnly
  <2>2. ASSUME NEW x \in H!Allocated(h)
        PROVE  x + 8 \notin {H!EndOf(h, b)} /\ x + 8 \notin {y + 8 : y \in FreeBlocks(g)}
    <3>1. x \in H!Blocks(h) /\ ~H!IsFree(h, x) /\ x \in Nat
      BY <1>1, LaidBlock DEF H!Allocated
    <3>2. x + 8 # H!EndOf(h, b)
      BY <1>1, <3>1, WordApart
    <3>3. x \notin FreeBlocks(g)
      BY <1>5, <3>1 DEF FreeBlocks
    <3>4. \A y \in FreeBlocks(g) : y \in Nat
      BY <1>2, LaidBlock DEF FreeBlocks
    <3>5. QED
      BY <3>1, <3>2, <3>3, <3>4
  <2>3. Keeps(m, k, H!Allocated(h)) /\ Keeps(k, n, H!Allocated(h))
    BY <1>2, <2>1, <2>2, StoredKeeps
  <2>4. QED
    BY <2>3, KeepsTwice
<1>10. QED
  BY <1>4, <1>7, <1>8, <1>9 DEF TakenHeld, RemoveHeld, k, n, g, t

\* Laying out a part of n bytes at the end of a block does to the words what it
\* does to the heap, and writes words of that block alone.
CutHeld(m, k, h, g, b, n) ==
  LET right == H!EndOf(h, b) - n
  IN  /\ Holds(k, g) /\ H!Grid(g)
      /\ right - At(k, right - 16).lo = b
      /\ \E W : /\ Stored(m, k, W)
                /\ \A w \in W : w \in Nat /\ b <= w /\ w < H!EndOf(h, b)

\* split_block, and the status of the part that is handed out.
LEMMA CutAlike ==
  ASSUME NEW h, H!Sound(h), H!Grid(h), NEW b \in FreeBlocks(h), NEW t, H!Taken(h, t, b), Laid(t),
         NEW m, Holds(m, t), NEW n \in Nat, n % 8 = 0, n >= 32, h.block[b].size - n >= 32
  PROVE  LET cut == split_block(m, b, n)
         IN  /\ cut.right = H!EndOf(h, b) - n
             /\ CutHeld(m, set_taken(cut.heap, cut.right), h, H!Cut(t, b, n), b, n)
<1>. DEFINE size  == h.block[b].size
            p     == t.block[b].prev_alloc
            right == H!EndOf(h, b) - n
            low   == right - 16
            top   == H!EndOf(h, b) - 16
            W     == CutWords(b, low, right, top)
            cut   == split_block(m, b, n)
            k     == set_taken(cut.heap, cut.right)
            g     == H!Cut(t, b, n)
            i     == h.block[b].index
<1>1. /\ Laid(h) /\ b \in H!Blocks(h) /\ H!IsFree(h, b) /\ H!Listed(h, {})
  BY SoundLaid DEF H!Sound, H!SoundBut, FreeBlocks
<1>2. /\ H!SameLayout(h, t) /\ H!Listed(t, {b})
      /\ H!Blocks(t) = H!Blocks(h) /\ b \in H!Blocks(t)
      /\ t.block[b].size = size /\ t.block[b].index = i /\ t.block[b].alloc = 0
      /\ \A x \in H!Blocks(h) : H!EndOf(t, x) = H!EndOf(h, x)
  BY <1>1 DEF H!Taken, H!SameLayout, H!EndOf, H!IsFree
<1>3. Mapped(m, t) /\ MemType(m) /\ Headers(m, t) /\ ListsHeld(m, t)
  BY DEF Holds, Mapped
<1>4. /\ b \in Nat \ {0} /\ b % 8 = 0 /\ size \in Nat /\ size % 8 = 0
      /\ H!EndOf(h, b) = b + size /\ p \in {0, 1} /\ i \in H!ChunkIds(t)
      /\ H!EndOf(h, b) <= t.ch_array[i].end
  <2>1. /\ b \in Nat \ {0} /\ b % 8 = 0
        /\ t.block[b].size \in Nat /\ t.block[b].size % 8 = 0
        /\ H!EndOf(t, b) = b + t.block[b].size
        /\ t.block[b].prev_alloc \in {0, 1}
        /\ t.block[b].index \in H!ChunkIds(t)
        /\ H!EndOf(t, b) <= t.ch_array[t.block[b].index].end
    BY <1>2, LaidBlock
  <2>2. QED
    BY <1>1, <1>2, <2>1
<1>5. LET r == H!EndOf(h, b) - n
      IN  /\ r - H!Cut(t, b, n).footer[r - H!SizeofFooter].size = b
          /\ H!CutsOff(h, t, H!Cut(t, b, n), b, n)
  BY <1>1, H!CutFields, HeapAssumptions
<1>6. H!CutsOff(h, t, g, b, n)
  BY <1>5
<1>. HIDE DEF g
<1>7. /\ right \in Nat /\ right = b + (size - n) /\ right % 8 = 0
      /\ low \in Nat /\ low + 16 = right /\ low % 8 = 0
      /\ top \in Nat /\ top = right + n - 16 /\ top % 8 = 0
      /\ top = b + size - 16 /\ right < H!EndOf(h, b)
      /\ b + 16 <= low /\ right + 16 <= top /\ top + 16 = H!EndOf(h, b)
  BY <1>4
<1>8. \A w \in W : w \in Nat /\ w % 8 = 0 /\ b <= w /\ w < H!EndOf(h, b)
  <2>1. b <= b /\ b < H!EndOf(h, b)
    BY <1>4, <1>7
  <2>2. /\ low + 8 \in Nat /\ (low + 8) % 8 = 0 /\ right + 8 \in Nat /\ (right + 8) % 8 = 0
        /\ top + 8 \in Nat /\ (top + 8) % 8 = 0
    BY <1>7
  <2>3. /\ b <= low /\ low < H!EndOf(h, b) /\ b <= low + 8 /\ low + 8 < H!EndOf(h, b)
        /\ b <= right /\ right < H!EndOf(h, b) /\ b <= right + 8 /\ right + 8 < H!EndOf(h, b)
        /\ b <= top /\ top < H!EndOf(h, b) /\ b <= top + 8 /\ top + 8 < H!EndOf(h, b)
    BY <1>4, <1>7
  <2>. HIDE DEF low, right, top
  <2>4. QED
    BY <1>4, <1>7, <2>1, <2>2, <2>3 DEF CutWords
<1>9. W \subseteq DOMAIN m.mem
  <2>1. \A a \in Nat : a % 8 = 0 /\ b <= a /\ a < H!EndOf(t, b) => a \in DOMAIN m.mem
    BY <1>2, <1>3, BlockWords
  <2>. HIDE DEF W
  <2>2. QED
    BY <1>1, <1>2, <1>8, <2>1
<1>10. Read(m, t, b) /\ HeaderHeld(m, t, b)
  BY <1>2, <1>3, Reads DEF Headers
<1>11. get_chunk_index(m, b) = i /\ At(m, b).lo = size + 2 * p
  <2>1. get_chunk_index(m, b) = i
    BY <1>2, <1>10 DEF Read
  <2>2. At(m, b).lo = size + 0 + 2 * p
    BY <1>2, <1>10 DEF HeaderHeld
  <2>3. size + 0 = size
    BY <1>4
  <2>4. QED
    BY <2>1, <2>2, <2>3
<1>12. right < m.ch_array[i] + m.corr_size_arr[i]
  <2>1. m.ch_array[i] + m.corr_size_arr[i] = t.ch_array[i].end
    BY <1>3, <1>4, ChunkReads
  <2>2. t.ch_array[i].end \in Nat /\ H!EndOf(h, b) \in Nat
    BY <1>1, <1>4, LaidChunk, LaidBlock
  <2>. HIDE DEF right
  <2>3. QED
    BY <1>4, <1>7, <2>1, <2>2
<1>13. cut.right = right /\ CutOff(m, k, b, low, right, top, n, p)
  <2>1. n >= 32 /\ size - n >= 32 /\ n % 8 = 0 /\ size % 8 = 0
    BY <1>4
  <2>. HIDE DEF low, right, top, size, p, i, W
  <2>2. CutWords(b, low, right, top) \subseteq DOMAIN m.mem
    BY <1>9 DEF W
  <2>3. right < m.ch_array[get_chunk_index(m, b)] + m.corr_size_arr[get_chunk_index(m, b)]
    BY <1>11, <1>12
  <2>4. Cuttable(m, b, low, right, top, size, n, p)
    BY <1>3, <1>4, <1>7, <1>11, <2>1, <2>2, <2>3 DEF Cuttable
  <2>5. QED
    BY <2>4, CutStored
<1>. HIDE DEF cut, k
<1>14. /\ Stored(m, k, W) /\ k.free_lists = m.free_lists
       /\ At(k, b).lo = right - b + 2 * p
       /\ At(k, right).lo = n + 1
       /\ At(k, right + 8).hi = i
       /\ At(k, low).lo = right - b
       /\ At(k, top).lo = n
  BY <1>11, <1>13 DEF CutOff
<1>15. /\ g.free_lists = t.free_lists /\ H!SameChunks(h, g) /\ H!SameChunks(t, g)
       /\ H!Blocks(g) = H!Blocks(h) \cup {right} /\ right \notin H!Blocks(h)
       /\ g.block[right].size = n /\ g.block[right].index = i
       /\ g.block[right].alloc = 1 /\ g.block[right].prev_alloc = 0
       /\ g.block[b].size = size - n /\ g.block[b].index = i /\ g.block[b].alloc = 0
       /\ g.block[b].prev_alloc = p
       /\ \A x \in H!Blocks(h) \ {b} :
            /\ g.block[x].size = t.block[x].size /\ g.block[x].index = t.block[x].index
            /\ g.block[x].alloc = t.block[x].alloc
            /\ g.block[x].prev_alloc = t.block[x].prev_alloc
  BY <1>1, <1>2, <1>6 DEF H!CutsOff, H!Taken, H!SameLayout, H!SameChunks, H!IsFree
<1>16. ASSUME NEW x \in H!Blocks(h) \ {b}
       PROVE  x \notin W /\ x + 8 \notin W /\ H!EndOf(h, x) - 16 \notin W
  <2>1. /\ x \in Nat /\ H!EndOf(h, x) = x + h.block[x].size
        /\ h.block[x].size \in Nat /\ h.block[x].size >= 32
    BY <1>1, LaidBlock
  <2>2. H!EndOf(h, x) <= b \/ H!EndOf(h, b) <= x
    BY <1>1, Apart
  <2>. HIDE DEF W
  <2>3. \A w \in Int : w \in W => b <= w /\ w < H!EndOf(h, b)
    BY <1>8
  <2>4. H!EndOf(h, b) \in Nat
    BY <1>4
  <2>5. /\ x \in Int /\ x + 8 \in Int /\ H!EndOf(h, x) - 16 \in Int
        /\ ~(b <= x /\ x < H!EndOf(h, b))
        /\ ~(b <= x + 8 /\ x + 8 < H!EndOf(h, b))
        /\ ~(b <= H!EndOf(h, x) - 16 /\ H!EndOf(h, x) - 16 < H!EndOf(h, b))
    BY <1>4, <2>1, <2>2, <2>4
  <2>6. QED
    BY <2>3, <2>5
<1>17. Mapped(k, g)
  <2>1. \A w \in W : InBlocks(t, w)
    BY <1>1, <1>2, <1>8 DEF InBlocks
  <2>. HIDE DEF W
  <2>2. QED
    BY <1>3, <1>14, <1>15, <2>1, MappedKept
<1>18. Headers(k, g)
  <2>1. ASSUME NEW x \in H!Blocks(h) \ {b} PROVE HeaderHeld(k, g, x)
    <3>1. HeaderHeld(m, t, x)
      BY <1>2, <1>3 DEF Headers
    <3>2. H!EndOf(g, x) = H!EndOf(t, x) /\ H!EndOf(t, x) = H!EndOf(h, x)
      BY <1>2, <1>15 DEF H!EndOf
    <3>3. /\ At(k, x) = At(m, x) /\ At(k, x + 8) = At(m, x + 8)
          /\ At(k, H!EndOf(h, x) - 16) = At(m, H!EndOf(h, x) - 16)
      BY <1>14, <1>16 DEF Stored
    <3>4. QED
      BY <1>15, <3>1, <3>2, <3>3 DEF HeaderHeld
  <2>2. HeaderHeld(k, g, b)
    <3>1. H!EndOf(g, b) - 16 = low
      BY <1>4, <1>7, <1>15 DEF H!EndOf
    <3>2. right - b + 2 * p = (size - n) + 0 + 2 * p /\ right - b = size - n
      BY <1>4, <1>7
    <3>3. At(k, b + 8).hi = i
      <4>1. b + 8 \notin W
        <5>. HIDE DEF low, right, top
        <5>1. /\ b + 8 # b /\ b + 8 # low /\ b + 8 # low + 8 /\ b + 8 # right
              /\ b + 8 # right + 8 /\ b + 8 # top /\ b + 8 # top + 8
          BY <1>4, <1>7
        <5>2. QED
          BY <5>1 DEF CutWords
      <4>2. At(k, b + 8) = At(m, b + 8)
        BY <1>14, <4>1 DEF Stored
      <4>3. QED
        BY <1>11, <4>2 DEF get_chunk_index
    <3>. HIDE DEF low, right, top, size, p, i
    <3>4. QED
      <4>1. At(k, b).lo = (size - n) + 0 + 2 * p
        BY <1>14, <3>2
      <4>2. At(k, H!EndOf(g, b) - 16).lo = size - n
        BY <1>14, <3>1, <3>2
      <4>3. /\ g.block[b].size = size - n /\ g.block[b].alloc = 0
            /\ g.block[b].prev_alloc = p /\ g.block[b].index = i
        BY <1>15
      <4>. HIDE DEF k, g
      <4>4. QED
        BY <3>3, <4>1, <4>2, <4>3 DEF HeaderHeld
  <2>3. HeaderHeld(k, g, right)
    <3>1. H!EndOf(g, right) - 16 = top
      <4>1. right + n = H!EndOf(h, b) /\ top = H!EndOf(h, b) - 16
        BY <1>4, <1>7
      <4>2. H!EndOf(g, right) = right + n
        <5>. HIDE DEF right, g
        <5>1. QED
          BY <1>15 DEF H!EndOf
      <4>. HIDE DEF right, top, g
      <4>3. QED
        BY <4>1, <4>2
    <3>2. n + 1 = n + 1 + 2 * 0
      OBVIOUS
    <3>. HIDE DEF low, right, top, size, p, i
    <3>3. QED
      BY <1>14, <1>15, <3>1, <3>2 DEF HeaderHeld
  <2>4. QED
    BY <1>15, <2>1, <2>2, <2>3 DEF Headers
<1>19. ListsHeld(k, g)
  <2>1. ASSUME NEW j \in 0 .. N_LISTS - 1
        PROVE  Spells(k, m.free_lists[j], t.free_lists[j])
    <3>1. Spells(m, m.free_lists[j], t.free_lists[j])
      BY <1>3 DEF ListsHeld
    <3>2. ASSUME NEW l \in DOMAIN t.free_lists[j]
          PROVE  At(k, t.free_lists[j][l] + 8) = At(m, t.free_lists[j][l] + 8)
      <4>1. t.free_lists[j][l] \in H!Blocks(h) \ {b}
        BY <1>2, ListedBlock DEF FreeBlocks
      <4>2. QED
        BY <1>14, <1>16, <4>1 DEF Stored
    <3>3. DOMAIN m.mem \subseteq DOMAIN k.mem
      BY <1>14 DEF Stored
    <3>4. QED
      BY <3>1, <3>2, <3>3, SpellsKept
  <2>2. QED
    BY <1>3, <1>14, <1>15, <2>1 DEF ListsHeld
<1>20. H!Grid(g)
  <2>1. H!Blocks(g) \subseteq H!Blocks(h) \cup {right}
    BY <1>15
  <2>2. right % H!kAlignment = 0
    BY <1>7, Names
  <2>. HIDE DEF right
  <2>3. QED
    BY <1>15, <2>1, <2>2, H!GridKept, HeapAssumptions
<1>21. right - At(k, low).lo = b
  BY <1>4, <1>7, <1>14
<1>22. CutHeld(m, k, h, g, b, n)
  <2>1. Holds(k, g)
    BY <1>17, <1>18, <1>19 DEF Holds
  <2>2. \A w \in W : w \in Nat /\ b <= w /\ w < H!EndOf(h, b)
    BY <1>8
  <2>. HIDE DEF W
  <2>3. QED
    BY <1>14, <1>20, <1>21, <2>1, <2>2 DEF CutHeld
<1>23. QED
  BY <1>13, <1>22 DEF k, cut, g

\* What allocate leaves is what it leaves of the heap, and the links and marks
\* of the blocks allocated before are kept.
Allots(m, r, h, g, n) ==
  /\ r.block = g.block /\ Holds(r.heap, g.heap) /\ H!Grid(g.heap)
  /\ H!Allocates(h, g.heap, g.block, n)
  /\ Keeps(m, r.heap, H!Allocated(h))

\* allocate, whether it hands out all of the block or a part of it.
LEMMA AllocateAlike ==
  ASSUME NEW h, H!Sound(h), H!Grid(h), NEW m, Holds(m, h), NEW b \in FreeBlocks(h),
         NEW n \in Nat, n % 8 = 0, n >= 32, h.block[b].size >= n
  PROVE  Allots(m, allocate(m, b, n), h, H!allocate(h, b, n), n)
<1>. DEFINE r  == allocate(m, b, n)
            g  == H!allocate(h, b, n)
            m1 == remove_from_free_list(tell_next(m, b, TRUE), b)
            t  == H!remove_from_free_list(H!tell_next(h, b, 1), b)
<1>1. /\ Laid(h) /\ b \in H!Blocks(h) /\ H!IsFree(h, b) /\ H!HeapType(h)
  BY SoundLaid DEF H!Sound, H!SoundBut, FreeBlocks
<1>2. /\ h.block[b].size \in Nat /\ h.block[b].size % 8 = 0
      /\ b \in Nat /\ b % 8 = 0 /\ H!EndOf(h, b) = b + h.block[b].size
  BY <1>1, LaidBlock
<1>3. get_size(m, b) = h.block[b].size /\ H!get_size(h, b) = h.block[b].size
  <2>1. HeaderHeld(m, h, b)
    BY <1>1 DEF Holds, Headers
  <2>2. QED
    BY <1>1, <2>1, Reads DEF Read, H!get_size
<1>4. TakenHeld(m, m1, h, t, b)
  BY TakenAlike
<1>. HIDE DEF m1, t
<1>5. H!Taken(h, t, b) /\ Laid(t) /\ Holds(m1, t) /\ Keeps(m, m1, H!Allocated(h))
  BY <1>4 DEF TakenHeld
<1>6. LET a == H!allocate(h, b, n).block
      IN  /\ H!Allocates(h, H!allocate(h, b, n).heap, a, n)
          /\ a \in {b, H!EndOf(h, b) - n}
  BY <1>1, H!AllocateSound, HeapAssumptions
<1>7. H!Allocates(h, g.heap, g.block, n) /\ g.block \in {b, H!EndOf(h, b) - n}
  BY <1>6
<1>8. H!Grid(g.heap)
  <2>1. n % H!kAlignment = 0
    BY Names
  <2>2. g.block \in {b, H!EndOf(h, b) - n}
    BY <1>7
  <2>. HIDE DEF g
  <2>3. QED
    BY <1>1, <1>7, <2>1, <2>2, H!GridAllocated, HeapAssumptions
<1>9. CASE h.block[b].size - n < 40
  <2>. DEFINE k == set_status(m1, b, TRUE)
              u == [t EXCEPT !.block[b].alloc = 1]
  <2>1. r = [heap |-> k, block |-> b]
    BY <1>3, <1>9, Names DEF allocate, m1
  <2>2. g = [heap |-> u, block |-> b]
    BY <1>3, <1>9, Names DEF H!allocate, t
  <2>3. b \in H!Blocks(t) /\ H!HeapType(t) /\ H!Listed(t, {b})
    BY <1>1, <1>5 DEF H!Taken, H!SameLayout
  <2>4. H!AllocSet(t, u, b, 1)
    <3>1. 1 \in {0, 1}
      OBVIOUS
    <3>2. QED
      BY <2>3, <3>1, H!SetAlloc, HeapAssumptions
  <2>. HIDE DEF u
  <2>5. Holds(k, u) /\ Stored(m1, k, {b})
    <3>1. Bit(TRUE) = 1
      BY DEF Bit
    <3>2. H!AllocSet(t, u, b, Bit(TRUE))
      BY <2>4, <3>1
    <3>3. QED
      BY <1>5, <2>3, <3>2, StatusSet
  <2>6. Keeps(m1, k, H!Allocated(h))
    <3>1. ASSUME NEW x \in H!Allocated(h) PROVE x + 8 \notin {b}
      <4>1. x \in H!Blocks(h)
        BY DEF H!Allocated
      <4>2. QED
        BY <1>1, <4>1, WordApart
    <3>2. QED
      BY <2>5, <3>1, StoredKeeps
  <2>. HIDE DEF k, g, r
  <2>7. Keeps(m, k, H!Allocated(h))
    BY <1>5, <2>6, KeepsTwice
  <2>8. QED
    BY <1>7, <1>8, <2>1, <2>2, <2>5, <2>7 DEF Allots, r, g
<1>10. CASE ~(h.block[b].size - n < 40)
  <2>. DEFINE cut   == split_block(m1, b, n)
              k     == set_taken(cut.heap, cut.right)
              right == H!EndOf(h, b) - n
              c     == H!Cut(t, b, n)
              v     == freeing_up(k, b)
              u     == H!freeing_up(c, b)
  <2>1. h.block[b].size - n >= 32
    BY <1>2, <1>10
  <2>2. cut.right = right /\ CutHeld(m1, k, h, c, b, n)
    <3>1. LET c0 == split_block(m1, b, n)
          IN  /\ c0.right = H!EndOf(h, b) - n
              /\ CutHeld(m1, set_taken(c0.heap, c0.right), h, H!Cut(t, b, n), b, n)
      BY <1>5, <2>1, CutAlike
    <3>2. QED
      BY <3>1
  <2>3. LET q == H!EndOf(h, b) - n
        IN  /\ H!split_block(t, b, n).right = q
            /\ q - H!Cut(t, b, n).footer[q - H!SizeofFooter].size = b
            /\ H!CutsOff(h, t, H!Cut(t, b, n), b, n)
    BY <1>1, <1>5, <2>1, H!CutFields, HeapAssumptions
  <2>4. r = [heap |-> v, block |-> right]
    <3>1. r = hand_out(cut)
      BY <1>3, <1>10, Names DEF allocate, m1
    <3>2. right - At(k, right - 16).lo = b
      BY <2>2 DEF CutHeld
    <3>. HIDE DEF cut, right
    <3>3. QED
      BY <2>2, <3>1, <3>2, Names DEF hand_out, list_rest, k
  <2>5. g = [heap |-> u, block |-> right]
    <3>1. H!split_block(t, b, n).right = right
      BY <2>3
    <3>2. right - c.footer[right - H!SizeofFooter].size = b
      BY <2>3
    <3>3. ~(H!get_size(h, b) - n < H!kMinAllocationSize + H!kMetadataSize + H!SizeofFooter)
      BY <1>3, <1>10, Names
    <3>. HIDE DEF right
    <3>4. LET d    == H!split_block(t, b, n)
              e    == H!Cut(t, b, n)
              left == d.right - e.footer[d.right - H!SizeofFooter].size
          IN  g = [heap |-> H!freeing_up(e, left), block |-> d.right]
      BY <3>3, Zenon DEF H!allocate, H!Cut, t
    <3>5. QED
      BY <3>1, <3>2, <3>4, Zenon
  <2>6. H!CutsOff(h, t, c, b, n)
    BY <2>3
  <2>. HIDE DEF c, k, cut
  <2>7. /\ H!SoundBut(c, {b}, {b, H!EndOf(c, b)}) /\ b \in FreeBlocks(c)
        /\ \A x \in H!Blocks(h) : c.block[x].alloc = h.block[x].alloc /\ x \in H!Blocks(c)
    BY <2>6 DEF H!CutsOff, FreeBlocks
  <2>8. Holds(k, c) /\ H!Grid(c)
    BY <2>2 DEF CutHeld
  <2>9. Holds(v, u) /\ Stored(k, v, FreeWords(c))
    BY <2>7, <2>8, FreedUp
  <2>10. Laid(c)
    BY <2>7, <2>8, SoundLaid
  <2>11. Keeps(m1, k, H!Allocated(h))
    <3>1. PICK W : /\ Stored(m1, k, W)
                   /\ \A w \in W : w \in Nat /\ b <= w /\ w < H!EndOf(h, b)
      BY <2>2 DEF CutHeld
    <3>2. ASSUME NEW x \in H!Allocated(h) PROVE x + 8 \notin W
      <4>1. x \in H!Blocks(h) /\ x # b
        BY <1>1 DEF H!Allocated
      <4>2. /\ x \in Nat /\ H!EndOf(h, x) = x + h.block[x].size
            /\ h.block[x].size \in Nat /\ h.block[x].size >= 32
        BY <1>1, <4>1, LaidBlock
      <4>3. H!EndOf(h, x) <= b \/ H!EndOf(h, b) <= x
        BY <1>1, <4>1, Apart
      <4>4. H!EndOf(h, b) \in Nat
        BY <1>1, LaidBlock
      <4>5. ~(b <= x + 8 /\ x + 8 < H!EndOf(h, b))
        BY <1>2, <4>2, <4>3, <4>4
      <4>6. QED
        BY <3>1, <4>5
    <3>3. QED
      BY <3>1, <3>2, StoredKeeps
  <2>12. Keeps(k, v, H!Allocated(h))
    <3>1. ASSUME NEW x \in H!Allocated(h) PROVE x + 8 \notin FreeWords(c)
      <4>1. x \in H!Allocated(c)
        BY <2>7 DEF H!Allocated, H!IsFree
      <4>2. QED
        BY <2>10, <4>1, FreeWordsApart
    <3>2. QED
      BY <2>9, <3>1, StoredKeeps
  <2>. HIDE DEF v, u, g, r, right
  <2>13. Keeps(m, v, H!Allocated(h))
    <3>1. Keeps(m, k, H!Allocated(h))
      BY <1>5, <2>11, KeepsTwice
    <3>2. QED
      BY <2>12, <3>1, KeepsTwice
  <2>14. QED
    BY <1>7, <1>8, <2>4, <2>5, <2>9, <2>13 DEF Allots, r, g
<1>11. QED
  BY <1>9, <1>10

-----------------------------------------------------------------------------
(* A chunk from the OS *)

\* The words of a chunk.
LEMMA ChunkWords ==
  ASSUME NEW base \in Nat, base % 8 = 0, NEW len \in Nat, len % 8 = 0, NEW a \in Int
  PROVE  a \in {base + 8 * k : k \in 0 .. len \div 8 - 1}
           <=> a % 8 = 0 /\ base <= a /\ a < base + len
<1>1. PICK q \in Nat : base = 8 * q
  <2>1. base = 8 * (base \div 8) /\ base \div 8 \in Nat
    OBVIOUS
  <2>2. QED
    BY <2>1
<1>2. PICK r \in Nat : len = 8 * r /\ len \div 8 = r
  <2>1. len = 8 * (len \div 8) /\ len \div 8 \in Nat
    OBVIOUS
  <2>2. QED
    BY <2>1
<1>3. ASSUME a \in {base + 8 * k : k \in 0 .. len \div 8 - 1}
      PROVE  a % 8 = 0 /\ base <= a /\ a < base + len
  <2>1. PICK k \in 0 .. r - 1 : a = base + 8 * k
    BY <1>2, <1>3
  <2>2. a = 8 * (q + k) /\ k \in Int /\ 0 <= k /\ k <= r - 1
    BY <1>1, <2>1
  <2>3. a % 8 = 0
    BY <2>2
  <2>4. base <= a /\ a < base + len
    BY <1>2, <2>1, <2>2
  <2>5. QED
    BY <2>3, <2>4
<1>4. ASSUME a % 8 = 0, base <= a, a < base + len
      PROVE  a \in {base + 8 * k : k \in 0 .. len \div 8 - 1}
  <2>1. a = 8 * (a \div 8) /\ a \div 8 \in Int
    BY <1>4
  <2>2. PICK t \in Int : a = 8 * t
    BY <2>1
  <2>3. t - q >= 0 /\ t - q <= r - 1
    BY <1>1, <1>2, <1>4, <2>2
  <2>4. t - q \in 0 .. r - 1 /\ a = base + 8 * (t - q)
    BY <1>1, <2>2, <2>3
  <2>5. QED
    BY <1>2, <2>4
<1>5. QED
  BY <1>3, <1>4

\* More words are mapped, and one more chunk is recorded.
Grown(m, n, base, len) ==
  LET i == m.index_last_chunk_from_OS + 1
  IN  /\ MemType(n)
      /\ n.index_last_chunk_from_OS = i
      /\ n.ch_array = [j \in 0 .. i |-> IF j = i THEN base ELSE m.ch_array[j]]
      /\ n.corr_size_arr = [j \in 0 .. i |-> IF j = i THEN len ELSE m.corr_size_arr[j]]
      /\ n.free_lists = m.free_lists
      /\ n.alloc_block_end = m.alloc_block_end /\ n.fault = m.fault
      /\ DOMAIN n.mem = DOMAIN m.mem \cup {a \in Nat : a % 8 = 0 /\ base <= a /\ a < base + len}
      /\ \A a : At(n, a) = At(m, a)

\* What the OS maps is zeroed, as a word that is not mapped is read.
LEMMA MappedGrown ==
  ASSUME NEW m, MemType(m), NEW base \in Nat, base % 8 = 0, NEW len \in Nat, len % 8 = 0
  PROVE  LET i     == m.index_last_chunk_from_OS + 1
             words == {base + kAlignment * k : k \in 0 .. len \div kAlignment - 1}
         IN  Grown(m, [m EXCEPT
                         !.index_last_chunk_from_OS = i,
                         !.ch_array      = [j \in 0 .. i |-> IF j = i THEN base ELSE @[j]],
                         !.corr_size_arr = [j \in 0 .. i |-> IF j = i THEN len ELSE @[j]],
                         !.mem           = [a \in DOMAIN @ \cup words |->
                                              IF a \in DOMAIN @ THEN @[a] ELSE Word(0)]],
                   base, len)
<1>. DEFINE i     == m.index_last_chunk_from_OS + 1
            words == {base + 8 * k : k \in 0 .. len \div 8 - 1}
            there == {a \in Nat : a % 8 = 0 /\ base <= a /\ a < base + len}
            f     == [a \in DOMAIN m.mem \cup words |->
                        IF a \in DOMAIN m.mem THEN m.mem[a] ELSE Word(0)]
            c     == [j \in 0 .. i |-> IF j = i THEN base ELSE m.ch_array[j]]
            l     == [j \in 0 .. i |-> IF j = i THEN len ELSE m.corr_size_arr[j]]
            n     == [m EXCEPT !.index_last_chunk_from_OS = i, !.ch_array = c,
                               !.corr_size_arr = l, !.mem = f]
<1>1. words = there
  <2>1. words \subseteq Int
    <3>1. ASSUME NEW k \in 0 .. len \div 8 - 1 PROVE base + 8 * k \in Int
      OBVIOUS
    <3>2. QED
      BY <3>1
  <2>2. \A a \in Int : a \in words <=> a % 8 = 0 /\ base <= a /\ a < base + len
    BY ChunkWords
  <2>3. \A a \in Int : a \in there <=> a % 8 = 0 /\ base <= a /\ a < base + len
    OBVIOUS
  <2>4. there \subseteq Int
    OBVIOUS
  <2>. HIDE DEF words, there
  <2>5. QED
    BY <2>1, <2>2, <2>3, <2>4
<1>2. there \subseteq Nat
  OBVIOUS
<1>. HIDE DEF words, there
<1>3. /\ m = [index_last_chunk_from_OS |-> m.index_last_chunk_from_OS,
              ch_array        |-> m.ch_array,
              corr_size_arr   |-> m.corr_size_arr,
              free_lists      |-> m.free_lists,
              alloc_block_end |-> m.alloc_block_end,
              mem             |-> m.mem,
              fault           |-> m.fault]
      /\ m.mem \in [DOMAIN m.mem -> Words]
      /\ DOMAIN m.mem \subseteq Nat
  BY DEF MemType
<1>4. Word(0) \in Words
  BY DEF Word, Words
<1>5. f \in [DOMAIN f -> Words] /\ DOMAIN f = DOMAIN m.mem \cup words /\ DOMAIN f \subseteq Nat
  <2>1. \A a \in DOMAIN m.mem : m.mem[a] \in Words
    BY <1>3
  <2>2. QED
    BY <1>1, <1>2, <1>3, <1>4, <2>1
<1>6. \A a : (IF a \in DOMAIN f THEN f[a] ELSE Word(0))
               = IF a \in DOMAIN m.mem THEN m.mem[a] ELSE Word(0)
  OBVIOUS
<1>. HIDE DEF f, c, l, i
<1>7. /\ n = [index_last_chunk_from_OS |-> i,
              ch_array        |-> c,
              corr_size_arr   |-> l,
              free_lists      |-> m.free_lists,
              alloc_block_end |-> m.alloc_block_end,
              mem             |-> f,
              fault           |-> m.fault]
  <2>. DEFINE n1 == [m EXCEPT !.index_last_chunk_from_OS = i]
              n2 == [n1 EXCEPT !.ch_array = c]
              n3 == [n2 EXCEPT !.corr_size_arr = l]
              n4 == [n3 EXCEPT !.mem = f]
  <2>1. n1 = [index_last_chunk_from_OS |-> i,
              ch_array        |-> m.ch_array,
              corr_size_arr   |-> m.corr_size_arr,
              free_lists      |-> m.free_lists,
              alloc_block_end |-> m.alloc_block_end,
              mem             |-> m.mem,
              fault           |-> m.fault]
    BY <1>3
  <2>. HIDE DEF n1
  <2>2. n2 = [index_last_chunk_from_OS |-> i,
              ch_array        |-> c,
              corr_size_arr   |-> m.corr_size_arr,
              free_lists      |-> m.free_lists,
              alloc_block_end |-> m.alloc_block_end,
              mem             |-> m.mem,
              fault           |-> m.fault]
    BY <2>1
  <2>. HIDE DEF n2
  <2>3. n3 = [index_last_chunk_from_OS |-> i,
              ch_array        |-> c,
              corr_size_arr   |-> l,
              free_lists      |-> m.free_lists,
              alloc_block_end |-> m.alloc_block_end,
              mem             |-> m.mem,
              fault           |-> m.fault]
    BY <2>2
  <2>. HIDE DEF n3
  <2>4. n4 = [index_last_chunk_from_OS |-> i,
              ch_array        |-> c,
              corr_size_arr   |-> l,
              free_lists      |-> m.free_lists,
              alloc_block_end |-> m.alloc_block_end,
              mem             |-> f,
              fault           |-> m.fault]
    BY <2>3
  <2>. HIDE DEF n4
  <2>5. n = n4
    BY DEF n4, n3, n2, n1
  <2>6. QED
    BY <2>4, <2>5
<1>. HIDE DEF n
<1>8. /\ n.index_last_chunk_from_OS = i /\ n.ch_array = c /\ n.corr_size_arr = l
      /\ n.free_lists = m.free_lists /\ n.alloc_block_end = m.alloc_block_end
      /\ n.mem = f /\ n.fault = m.fault
  BY <1>7
<1>9. MemType(n)
  BY <1>5, <1>7, <1>8 DEF MemType
<1>10. \A a : At(n, a) = At(m, a)
  BY <1>6, <1>8 DEF At
<1>11. Grown(m, n, base, len)
  BY <1>1, <1>5, <1>8, <1>9, <1>10 DEF Grown, there, c, l, i
<1>12. QED
  BY <1>11, Names DEF n, f, words, c, l, i

\* The words that NewChunk writes before the block is listed.
HeadWords(base, start, top) == {base, base + 8, start, start + 8, top, top + 8}

\* Zeroed words for a Chunk and one block of size bytes behind it.
Fresh(m, base, start, top, size) ==
  /\ MemType(m)
  /\ base \in Nat /\ base + 16 = start /\ start \in Nat /\ start # 0
  /\ size \in Nat /\ size % 8 = 0 /\ size >= 32 /\ top \in Nat /\ top = start + size - 16
  /\ HeadWords(base, start, top) \subseteq DOMAIN m.mem
  /\ At(m, start) = Word(0)

\* The Chunk, and the header and footer of its one free block.
Headed(m, k, base, start, top, size, i) ==
  /\ Stored(m, k, HeadWords(base, start, top)) /\ k.free_lists = m.free_lists
  /\ At(k, base).lo = start /\ At(k, base + 8).lo = start + size
  /\ At(k, start).lo = size + 2 /\ At(k, start + 8).hi = i
  /\ At(k, top).lo = size

\* The stores of NewChunk before the block is listed.
LEMMA ChunkLaid ==
  ASSUME NEW m, NEW base, NEW start, NEW top, NEW size, Fresh(m, base, start, top, size), NEW i \in Nat
  PROVE  LET chunk  == Store(Store(m, base, Word(start)), base + 8, Word(start + size))
             header == set_chunk_index(set_next_off(
                         set_prev_status(set_size(chunk, start, size), start, TRUE), start, NULL),
                         start, i)
         IN  Headed(m, set_footer(header, start), base, start, top, size, i)
<1>. DEFINE m1 == Store(m, base, Word(start))
            m2 == Store(m1, base + 8, Word(start + size))
            m3 == set_size(m2, start, size)
            m4 == set_prev_status(m3, start, TRUE)
            m5 == set_next_off(m4, start, NULL)
            m6 == set_chunk_index(m5, start, i)
            k  == set_footer(m6, start)
            W  == HeadWords(base, start, top)
<1>0. /\ MemType(m)
      /\ base \in Nat /\ base + 16 = start /\ start \in Nat /\ start # 0
      /\ size \in Nat /\ size % 8 = 0 /\ size >= 32 /\ top \in Nat /\ top = start + size - 16
      /\ HeadWords(base, start, top) \subseteq DOMAIN m.mem
      /\ At(m, start) = Word(0)
  BY DEF Fresh
<1>1. /\ base + 8 < start /\ start + 8 < top /\ size \in Int /\ start + size \in Int
      /\ base \in Int /\ start \in Int /\ top \in Int
  BY <1>0
<1>2. \A w \in Int : Word(w) \in Words /\ Word(w).lo = w
  BY DEF Word, Words
<1>3. \A a \in W : a \in DOMAIN m.mem
  BY <1>0
<1>4. base \in W /\ base + 8 \in W /\ start \in W /\ start + 8 \in W /\ top \in W /\ top + 8 \in W
  BY DEF HeadWords
<1>. HIDE DEF W
<1>5. Stored(m, m1, {base}) /\ m1.free_lists = m.free_lists /\ At(m1, base).lo = start
  <2>1. LET g == Store(m, base, Word(start))
        IN  Stored(m, g, {base}) /\ g.free_lists = m.free_lists /\ At(g, base) = Word(start)
    BY <1>0, <1>1, <1>2, <1>3, <1>4, StoreFields
  <2>2. QED
    BY <1>1, <1>2, <2>1
<1>. HIDE DEF m1
<1>6. MemType(m1) /\ DOMAIN m1.mem = DOMAIN m.mem
  BY <1>5 DEF Stored
<1>7. /\ Stored(m1, m2, {base + 8}) /\ m2.free_lists = m1.free_lists
      /\ At(m2, base + 8).lo = start + size
  <2>1. base + 8 \in DOMAIN m1.mem /\ Word(start + size) \in Words
    BY <1>1, <1>2, <1>3, <1>4, <1>6
  <2>2. LET g == Store(m1, base + 8, Word(start + size))
        IN  /\ Stored(m1, g, {base + 8}) /\ g.free_lists = m1.free_lists
            /\ At(g, base + 8) = Word(start + size)
    BY <1>6, <2>1, StoreFields
  <2>3. QED
    BY <1>1, <1>2, <2>2
<1>. HIDE DEF m2
<1>8. MemType(m2) /\ DOMAIN m2.mem = DOMAIN m.mem
  BY <1>6, <1>7 DEF Stored
<1>9. At(m2, start).lo = 0
  <2>1. start # base /\ start # base + 8
    BY <1>0, <1>1
  <2>2. At(m2, start) = At(m, start)
    BY <1>5, <1>7, <2>1 DEF Stored
  <2>3. QED
    BY <1>0, <1>2, <2>2
<1>10. Stored(m2, m3, {start}) /\ m3.free_lists = m2.free_lists /\ At(m3, start).lo = size
  <2>1. LET g == set_size(m2, start, size)
        IN  /\ Stored(m2, g, {start}) /\ g.free_lists = m2.free_lists
            /\ At(g, start).lo = size + (At(m2, start).lo % 4)
    BY <1>1, <1>3, <1>4, <1>8, SizeSet
  <2>2. size + (0 % 4) = size
    BY <1>0
  <2>3. QED
    BY <1>9, <2>1, <2>2
<1>. HIDE DEF m3
<1>11. MemType(m3) /\ DOMAIN m3.mem = DOMAIN m.mem
  BY <1>8, <1>10 DEF Stored
<1>12. Stored(m3, m4, {start}) /\ m4.free_lists = m3.free_lists /\ At(m4, start).lo = size + 2
  <2>1. start \in DOMAIN m3.mem /\ TRUE \in BOOLEAN
    BY <1>3, <1>4, <1>11
  <2>2. LET g == set_prev_status(m3, start, TRUE)
        IN  /\ Stored(m3, g, {start}) /\ g.free_lists = m3.free_lists
            /\ At(g, start).lo = At(m3, start).lo + 2 * (Bit(TRUE) - ((At(m3, start).lo \div 2) % 2))
    BY <1>11, <2>1, PrevStatusStored
  <2>3. (size \div 2) % 2 = 0
    <3>1. LET v == size + 0 + 2 * 0 IN (v \div 2) % 2 = 0
      BY <1>0, Flags
    <3>2. size + 0 + 2 * 0 = size
      BY <1>0
    <3>3. QED
      BY <3>1, <3>2
  <2>4. size + 2 * (Bit(TRUE) - 0) = size + 2
    BY <1>0 DEF Bit
  <2>5. QED
    BY <1>10, <2>2, <2>3, <2>4
<1>. HIDE DEF m4
<1>13. MemType(m4) /\ DOMAIN m4.mem = DOMAIN m.mem
  BY <1>11, <1>12 DEF Stored
<1>14. Stored(m4, m5, {start + 8}) /\ m5.free_lists = m4.free_lists
  <2>1. start + 8 \in DOMAIN m4.mem /\ NULL \in Nat
    BY <1>3, <1>4, <1>13, Names
  <2>2. LinkSet(m4, set_next_off(m4, start, NULL), start, NULL)
    BY <1>0, <1>13, <2>1, SetNextOff
  <2>3. QED
    BY <2>2 DEF LinkSet
<1>. HIDE DEF m5
<1>15. MemType(m5) /\ DOMAIN m5.mem = DOMAIN m.mem
  BY <1>13, <1>14 DEF Stored
<1>16. Stored(m5, m6, {start + 8}) /\ m6.free_lists = m5.free_lists /\ At(m6, start + 8).hi = i
  <2>1. start + 8 \in DOMAIN m5.mem
    BY <1>3, <1>4, <1>15
  <2>2. LET g == set_chunk_index(m5, start, i)
        IN  Stored(m5, g, {start + 8}) /\ g.free_lists = m5.free_lists /\ At(g, start + 8).hi = i
    BY <1>0, <1>15, <2>1, IndexSet
  <2>3. QED
    BY <2>2
<1>. HIDE DEF m6
<1>17. MemType(m6) /\ DOMAIN m6.mem = DOMAIN m.mem
  BY <1>15, <1>16 DEF Stored
<1>18. At(m6, start).lo = size + 2
  <2>1. start # start + 8
    BY <1>0
  <2>2. QED
    BY <1>12, <1>14, <1>16, <2>1 DEF Stored
<1>19. Stored(m6, k, {top, top + 8}) /\ k.free_lists = m6.free_lists /\ At(k, top).lo = size
  <2>1. get_size(m6, start) = size
    <3>1. LET v == size + 0 + 2 * 1 IN v - (v % 4) = size
      BY <1>0, Flags
    <3>2. size + 0 + 2 * 1 = size + 2
      BY <1>0
    <3>3. QED
      BY <1>18, <3>1, <3>2 DEF get_size
  <2>2. k = store_footer(m6, top, size, is_allocated(m6, start))
    BY <1>0, <2>1, Names DEF set_footer, footer_of
  <2>3. is_allocated(m6, start) \in BOOLEAN
    BY DEF is_allocated
  <2>4. top \in DOMAIN m6.mem /\ top + 8 \in DOMAIN m6.mem
    BY <1>3, <1>4, <1>17
  <2>. HIDE DEF k
  <2>5. QED
    BY <1>1, <1>17, <2>2, <2>3, <2>4, FooterStored
<1>. HIDE DEF k
<1>20. Stored(m, k, W)
  <2>1. /\ {base} \subseteq W /\ {base + 8} \subseteq W /\ {start} \subseteq W
        /\ {start + 8} \subseteq W /\ {top, top + 8} \subseteq W
    BY <1>4
  <2>2. /\ Stored(m, m1, W) /\ Stored(m1, m2, W) /\ Stored(m2, m3, W) /\ Stored(m3, m4, W)
        /\ Stored(m4, m5, W) /\ Stored(m5, m6, W) /\ Stored(m6, k, W)
    BY <1>5, <1>7, <1>10, <1>12, <1>14, <1>16, <1>19, <2>1, StoredMore
  <2>3. QED
    BY <2>2 DEF Stored
<1>21. /\ At(k, base) = At(m1, base) /\ At(k, base + 8) = At(m2, base + 8)
       /\ At(k, start) = At(m6, start) /\ At(k, start + 8) = At(m6, start + 8)
  <2>1. /\ base # base + 8 /\ base # start /\ base # start + 8 /\ base # top /\ base # top + 8
        /\ base + 8 # start /\ base + 8 # start + 8 /\ base + 8 # top /\ base + 8 # top + 8
        /\ start # top /\ start # top + 8 /\ start + 8 # top /\ start + 8 # top + 8
    BY <1>1
  <2>2. /\ At(k, base) = At(m6, base) /\ At(k, base + 8) = At(m6, base + 8)
        /\ At(k, start) = At(m6, start) /\ At(k, start + 8) = At(m6, start + 8)
    BY <1>19, <2>1 DEF Stored
  <2>3. At(m6, base) = At(m4, base) /\ At(m6, base + 8) = At(m4, base + 8)
    BY <1>14, <1>16, <2>1 DEF Stored
  <2>4. At(m4, base) = At(m2, base) /\ At(m4, base + 8) = At(m2, base + 8)
    BY <1>10, <1>12, <2>1 DEF Stored
  <2>5. At(m2, base) = At(m1, base)
    BY <1>7, <2>1 DEF Stored
  <2>6. QED
    BY <2>2, <2>3, <2>4, <2>5
<1>22. k.free_lists = m.free_lists
  BY <1>5, <1>7, <1>10, <1>12, <1>14, <1>16, <1>19
<1>23. Headed(m, k, base, start, top, size, i)
  BY <1>5, <1>7, <1>16, <1>18, <1>19, <1>20, <1>21, <1>22 DEF Headed, W
<1>24. QED
  BY <1>23 DEF m1, m2, m3, m4, m5, m6, k

\* A chunk above all others: what is written there touches no block, and no
\* Chunk, that was there before.
LEMMA HeadApart ==
  ASSUME NEW h, H!Sound(h), H!Grid(h), NEW base, NEW len, H!Above(h, base, len),
         NEW w \in HeadWords(base, base + 16, base + len - 16)
  PROVE  /\ w \in Nat /\ base <= w
         /\ \A x \in H!Blocks(h) : w # x /\ w # x + 8 /\ w # H!EndOf(h, x) - 16
         /\ \A i \in H!ChunkIds(h) : w # h.ch_array[i].base /\ w # h.ch_array[i].base + 8
<1>1. /\ Laid(h) /\ H!HeapType(h) /\ H!Tiled(h)
  BY SoundLaid DEF H!Sound, H!SoundBut
<1>2. base \in Nat /\ len \in Nat /\ len >= 48
  BY DEF H!Above
<1>3. w \in Nat /\ base <= w
  BY <1>2 DEF HeadWords
<1>4. ASSUME NEW x \in H!Blocks(h)
      PROVE  w # x /\ w # x + 8 /\ w # H!EndOf(h, x) - 16
  <2>1. H!EndOf(h, x) <= base
    BY <1>1, H!BlocksBelow, HeapAssumptions
  <2>2. /\ x \in Nat /\ H!EndOf(h, x) = x + h.block[x].size
        /\ h.block[x].size \in Nat /\ h.block[x].size >= 32
    BY <1>1, LaidBlock
  <2>3. QED
    BY <1>2, <1>3, <2>1, <2>2
<1>5. ASSUME NEW i \in H!ChunkIds(h)
      PROVE  w # h.ch_array[i].base /\ w # h.ch_array[i].base + 8
  <2>1. h.ch_array[i].end <= base
    BY DEF H!Above
  <2>2. /\ h.ch_array[i].base \in Nat /\ h.ch_array[i].end \in Nat /\ h.ch_array[i].start \in Nat
        /\ h.ch_array[i].start = h.ch_array[i].base + 16 /\ h.ch_array[i].start < h.ch_array[i].end
    BY <1>1, LaidChunk
  <2>3. QED
    BY <1>2, <1>3, <2>1, <2>2
<1>6. QED
  BY <1>3, <1>4, <1>5

\* With them the memory holds the heap with one more chunk.
LEMMA ChunkHeld ==
  ASSUME NEW h, H!Sound(h), H!Grid(h), NEW m, Holds(m, h),
         NEW base, NEW len, H!Above(h, base, len), base + len <= MmapTop,
         NEW g, H!Maps(h, g, base, len), NEW m1, Grown(m, m1, base, len),
         NEW k, Headed(m1, k, base, base + 16, base + len - 16, len - 16,
                       h.index_last_chunk_from_OS + 1)
  PROVE  Holds(k, g) /\ H!Grid(g)
<1>. DEFINE n     == h.index_last_chunk_from_OS + 1
            start == base + 16
            top   == base + len - 16
            size  == len - 16
            W     == HeadWords(base, start, top)
<1>1. /\ Laid(h) /\ H!HeapType(h) /\ H!Listed(h, {})
  BY SoundLaid DEF H!Sound, H!SoundBut
<1>2. /\ base \in Nat /\ base > 0 /\ base % 8 = 0 /\ len \in Nat /\ len % 8 = 0 /\ len >= 48
      /\ n < MAX_REQ /\ \A i \in H!ChunkIds(h) : h.ch_array[i].end <= base
  BY Names DEF H!Above
<1>3. /\ start \in Nat /\ start % 8 = 0 /\ top \in Nat /\ size \in Nat
      /\ base < start /\ (base + len) % 8 = 0 /\ base + len \in Nat
  BY <1>2
<1>4. Mapped(m, h) /\ MemType(m) /\ Headers(m, h) /\ ListsHeld(m, h)
  BY DEF Holds, Mapped
<1>5. /\ H!HeapType(g) /\ g.free_lists = h.free_lists
      /\ g.index_last_chunk_from_OS = n /\ n \in Nat /\ H!ChunkIds(g) = H!ChunkIds(h) \cup {n}
      /\ g.ch_array[n] = [base |-> base, start |-> base + H!SizeofChunk, end |-> base + len]
      /\ g.corr_size_arr[n] = len
      /\ \A i \in H!ChunkIds(h) : /\ g.ch_array[i] = h.ch_array[i]
                                  /\ g.corr_size_arr[i] = h.corr_size_arr[i]
      /\ H!Blocks(g) = H!Blocks(h) \cup {base + H!SizeofChunk}
      /\ g.block[base + H!SizeofChunk]
           = [size |-> len - H!SizeofChunk, alloc |-> 0, prev_alloc |-> 1, index |-> n]
      /\ \A x \in H!Blocks(h) : g.block[x] = h.block[x]
  BY DEF H!Maps
<1>6. /\ g.ch_array[n].base = base /\ g.ch_array[n].start = start /\ g.ch_array[n].end = base + len
      /\ H!Blocks(g) = H!Blocks(h) \cup {start}
      /\ g.block[start].size = size /\ g.block[start].alloc = 0
      /\ g.block[start].prev_alloc = 1 /\ g.block[start].index = n
  BY <1>5, Names
<1>7. /\ MemType(m1)
      /\ m1.index_last_chunk_from_OS = m.index_last_chunk_from_OS + 1
      /\ m1.ch_array = [j \in 0 .. m.index_last_chunk_from_OS + 1 |->
                          IF j = m.index_last_chunk_from_OS + 1 THEN base ELSE m.ch_array[j]]
      /\ m1.corr_size_arr = [j \in 0 .. m.index_last_chunk_from_OS + 1 |->
                               IF j = m.index_last_chunk_from_OS + 1 THEN len ELSE m.corr_size_arr[j]]
      /\ m1.free_lists = m.free_lists
      /\ DOMAIN m1.mem = DOMAIN m.mem \cup {a \in Nat : a % 8 = 0 /\ base <= a /\ a < base + len}
      /\ \A a : At(m1, a) = At(m, a)
  BY DEF Grown
<1>8. m.index_last_chunk_from_OS + 1 = n /\ 0 .. n = H!ChunkIds(g)
  BY <1>4, <1>5 DEF Mapped, H!ChunkIds
<1>9. /\ Stored(m1, k, W) /\ k.free_lists = m1.free_lists
      /\ At(k, base).lo = start /\ At(k, base + 8).lo = start + size
      /\ At(k, start).lo = size + 2 /\ At(k, start + 8).hi = n
      /\ At(k, top).lo = size
  BY DEF Headed
<1>10. \A w \in W :
         /\ w \in Nat /\ base <= w
         /\ \A x \in H!Blocks(h) : w # x /\ w # x + 8 /\ w # H!EndOf(h, x) - 16
         /\ \A i \in H!ChunkIds(h) : w # h.ch_array[i].base /\ w # h.ch_array[i].base + 8
  BY HeadApart
<1>. HIDE DEF W, n, start, top, size
<1>11. Mapped(k, g)
  <2>1. MemType(k)
    BY <1>9 DEF Stored
  <2>2. k.index_last_chunk_from_OS = g.index_last_chunk_from_OS
    BY <1>5, <1>7, <1>8, <1>9 DEF Stored
  <2>3. k.ch_array = [i \in H!ChunkIds(g) |-> g.ch_array[i].base]
    <3>1. k.ch_array = [j \in H!ChunkIds(g) |-> IF j = n THEN base ELSE m.ch_array[j]]
      BY <1>7, <1>8, <1>9 DEF Stored
    <3>2. ASSUME NEW j \in H!ChunkIds(g)
          PROVE  (IF j = n THEN base ELSE m.ch_array[j]) = g.ch_array[j].base
      <4>1. CASE j = n
        BY <1>6, <4>1
      <4>2. CASE j # n
        <5>1. j \in H!ChunkIds(h) /\ g.ch_array[j] = h.ch_array[j]
          BY <1>5, <4>2
        <5>2. m.ch_array[j] = h.ch_array[j].base
          BY <1>4, <5>1 DEF Mapped
        <5>3. QED
          BY <4>2, <5>1, <5>2
      <4>3. QED
        BY <4>1, <4>2
    <3>3. QED
      BY <3>1, <3>2
  <2>4. k.corr_size_arr = g.corr_size_arr
    <3>1. k.corr_size_arr = [j \in H!ChunkIds(g) |-> IF j = n THEN len ELSE m.corr_size_arr[j]]
      BY <1>7, <1>8, <1>9 DEF Stored
    <3>2. g.corr_size_arr = [j \in H!ChunkIds(g) |-> g.corr_size_arr[j]]
      BY <1>5 DEF H!HeapType
    <3>3. ASSUME NEW j \in H!ChunkIds(g)
          PROVE  (IF j = n THEN len ELSE m.corr_size_arr[j]) = g.corr_size_arr[j]
      <4>1. j # n => g.corr_size_arr[j] = h.corr_size_arr[j]
        BY <1>5
      <4>2. m.corr_size_arr = h.corr_size_arr
        BY <1>4 DEF Mapped
      <4>3. QED
        BY <1>5, <4>1, <4>2
    <3>4. QED
      BY <3>1, <3>2, <3>3
  <2>5. ASSUME NEW i \in H!ChunkIds(g)
        PROVE  /\ At(k, g.ch_array[i].base).lo = g.ch_array[i].start
               /\ At(k, g.ch_array[i].base + 8).lo = g.ch_array[i].end
    <3>1. CASE i = n
      <4>1. start + size = base + len
        BY <1>2 DEF start, size
      <4>2. QED
        BY <1>6, <1>9, <3>1, <4>1
    <3>2. CASE i # n
      <4>1. i \in H!ChunkIds(h) /\ g.ch_array[i] = h.ch_array[i]
        BY <1>5, <3>2
      <4>2. /\ At(m, h.ch_array[i].base).lo = h.ch_array[i].start
            /\ At(m, h.ch_array[i].base + 8).lo = h.ch_array[i].end
        BY <1>4, <4>1 DEF Mapped
      <4>3. h.ch_array[i].base \notin W /\ h.ch_array[i].base + 8 \notin W
        BY <1>10, <4>1
      <4>4. /\ At(k, h.ch_array[i].base) = At(m, h.ch_array[i].base)
            /\ At(k, h.ch_array[i].base + 8) = At(m, h.ch_array[i].base + 8)
        BY <1>7, <1>9, <4>3 DEF Stored
      <4>5. QED
        BY <4>1, <4>2, <4>4
    <3>3. QED
      BY <3>1, <3>2
  <2>6. DOMAIN k.mem = {a \in 0 .. MmapTop :
                          /\ a % 8 = 0
                          /\ \E i \in H!ChunkIds(g) : g.ch_array[i].base <= a /\ a < g.ch_array[i].end}
    <3>1. DOMAIN m.mem = {a \in 0 .. MmapTop :
                            /\ a % 8 = 0
                            /\ \E i \in H!ChunkIds(h) : h.ch_array[i].base <= a /\ a < h.ch_array[i].end}
      BY <1>4 DEF Mapped
    <3>2. DOMAIN k.mem = DOMAIN m.mem \cup {a \in Nat : a % 8 = 0 /\ base <= a /\ a < base + len}
      BY <1>7, <1>9 DEF Stored
    <3>3. ASSUME NEW a
          PROVE  (\E i \in H!ChunkIds(g) : g.ch_array[i].base <= a /\ a < g.ch_array[i].end)
                   <=> \/ \E i \in H!ChunkIds(h) : h.ch_array[i].base <= a /\ a < h.ch_array[i].end
                       \/ base <= a /\ a < base + len
      <4>1. ASSUME NEW i \in H!ChunkIds(h) PROVE i \in H!ChunkIds(g) /\ g.ch_array[i] = h.ch_array[i]
        BY <1>5
      <4>2. n \in H!ChunkIds(g) /\ \A i \in H!ChunkIds(g) : i = n \/ i \in H!ChunkIds(h)
        BY <1>5
      <4>3. QED
        BY <1>6, <4>1, <4>2
    <3>4. \A a \in Nat : a < base + len => a \in 0 .. MmapTop
      BY <1>3, HeapAssumptions
    <3>5. 0 .. MmapTop \subseteq Nat
      BY HeapAssumptions
    <3>6. QED
      BY <3>1, <3>2, <3>3, <3>4, <3>5
  <2>7. QED
    BY <2>1, <2>2, <2>3, <2>4, <2>5, <2>6 DEF Mapped
<1>12. ASSUME NEW x \in H!Blocks(h)
       PROVE  x \notin W /\ x + 8 \notin W /\ H!EndOf(h, x) - 16 \notin W
  BY <1>10
<1>13. Headers(k, g)
  <2>1. ASSUME NEW x \in H!Blocks(h) PROVE HeaderHeld(k, g, x)
    <3>1. HeaderHeld(m, h, x)
      BY <1>4 DEF Headers
    <3>2. HeaderHeld(m1, h, x)
      BY <1>7, <3>1 DEF HeaderHeld
    <3>3. g.block[x] = h.block[x]
      BY <1>5
    <3>4. QED
      BY <1>9, <1>12, <3>2, <3>3, HeaderKept
  <2>2. HeaderHeld(k, g, start)
    <3>1. H!EndOf(g, start) - 16 = top
      BY <1>2, <1>6 DEF H!EndOf, start, size, top
    <3>2. size + 2 = size + 0 + 2 * 1
      BY <1>3
    <3>3. QED
      BY <1>6, <1>9, <3>1, <3>2 DEF HeaderHeld
  <2>3. QED
    BY <1>6, <2>1, <2>2 DEF Headers
<1>14. ListsHeld(k, g)
  <2>1. ASSUME NEW j \in 0 .. N_LISTS - 1
        PROVE  Spells(k, m.free_lists[j], h.free_lists[j])
    <3>1. Spells(m, m.free_lists[j], h.free_lists[j])
      BY <1>4 DEF ListsHeld
    <3>2. ASSUME NEW l \in DOMAIN h.free_lists[j]
          PROVE  At(k, h.free_lists[j][l] + 8) = At(m, h.free_lists[j][l] + 8)
      <4>1. h.free_lists[j][l] \in H!Blocks(h)
        BY <1>1, ListedBlock DEF FreeBlocks
      <4>2. QED
        BY <1>7, <1>9, <1>12, <4>1 DEF Stored
    <3>3. DOMAIN m.mem \subseteq DOMAIN k.mem
      BY <1>7, <1>9 DEF Stored
    <3>4. QED
      BY <3>1, <3>2, <3>3, SpellsKept
  <2>2. QED
    BY <1>4, <1>5, <1>7, <1>9, <2>1 DEF ListsHeld
<1>15. H!Grid(g)
  <2>1. \A b \in H!Blocks(g) : b % 8 = 0
    BY <1>3, <1>6, Names DEF H!Grid
  <2>2. ASSUME NEW i \in H!ChunkIds(g)
        PROVE  g.ch_array[i].end % 8 = 0 /\ g.ch_array[i].end <= MmapTop
    <3>1. CASE i = n
      BY <1>3, <1>6, <3>1
    <3>2. CASE i # n
      BY <1>5, <3>2, Names DEF H!Grid
    <3>3. QED
      BY <3>1, <3>2
  <2>3. QED
    BY <2>1, <2>2, Names DEF H!Grid
<1>16. QED
  BY <1>11, <1>13, <1>14, <1>15 DEF Holds

\* NewChunk does to the words what it does to the heap.
LEMMA NewChunkAlike ==
  ASSUME NEW h, H!Sound(h), H!Grid(h), NEW m, Holds(m, h),
         NEW base, NEW len, H!Above(h, base, len), base + len <= MmapTop
  PROVE  /\ Holds(NewChunk(m, base, len), H!NewChunk(h, base, len))
         /\ Keeps(m, NewChunk(m, base, len), H!Allocated(h))
<1>. DEFINE n      == m.index_last_chunk_from_OS + 1
            start  == base + 16
            top    == base + len - 16
            size   == len - 16
            words  == {base + kAlignment * k : k \in 0 .. len \div kAlignment - 1}
            mapped == [m EXCEPT
                         !.index_last_chunk_from_OS = n,
                         !.ch_array      = [j \in 0 .. n |-> IF j = n THEN base ELSE @[j]],
                         !.corr_size_arr = [j \in 0 .. n |-> IF j = n THEN len ELSE @[j]],
                         !.mem           = [a \in DOMAIN @ \cup words |->
                                              IF a \in DOMAIN @ THEN @[a] ELSE Word(0)]]
            chunk  == Store(Store(mapped, base, Word(start)), base + 8, Word(start + size))
            header == set_chunk_index(set_next_off(
                        set_prev_status(set_size(chunk, start, size), start, TRUE), start, NULL),
                        start, n)
            k      == set_footer(header, start)
            v      == freeing_up(k, start)
<1>1. /\ Laid(h) /\ H!HeapType(h)
  BY SoundLaid DEF H!Sound, H!SoundBut
<1>2. /\ base \in Nat /\ base > 0 /\ base % 8 = 0 /\ len \in Nat /\ len % 8 = 0 /\ len >= 48
  BY Names DEF H!Above
<1>3. /\ start \in Nat /\ start # 0 /\ size \in Nat /\ size % 8 = 0 /\ size >= 32
      /\ top \in Nat /\ top = start + size - 16 /\ len - (start - base) = size
      /\ base + 16 = start /\ start % 8 = 0
  BY <1>2
<1>4. round_up(base + 16, 8) = start /\ round_up(size, 8) = size
  <2>1. \A q \in Nat : q % 8 = 0 => round_up(q, 8) = q
    <3>1. \A q \in Nat : q % H!kAlignment = 0 => H!round_up(q, H!kAlignment) = q
      BY H!RoundUpAligned, HeapAssumptions
    <3>2. QED
      BY <3>1, Names
  <2>2. QED
    BY <1>3, <2>1
<1>5. MemType(m) /\ n = h.index_last_chunk_from_OS + 1 /\ n \in Nat
  <2>1. m.index_last_chunk_from_OS = h.index_last_chunk_from_OS /\ MemType(m)
    BY DEF Holds, Mapped
  <2>2. h.index_last_chunk_from_OS \in -1 .. MAX_REQ - 1 /\ MAX_REQ \in Nat
    BY <1>1, HeapAssumptions DEF H!HeapType
  <2>3. QED
    BY <2>1, <2>2
<1>6. Grown(m, mapped, base, len)
  BY <1>2, <1>5, MappedGrown
<1>7. NewChunk(m, base, len) = v
  <2>1. round_up(base + SizeofChunk, kAlignment) = start
    BY <1>4, Names
  <2>2. round_up(len - (start - base), kAlignment) = size
    BY <1>3, <1>4, Names
  <2>. HIDE DEF start, size
  <2>3. QED
    BY <2>1, <2>2 DEF NewChunk
<1>. HIDE DEF mapped
<1>8. Fresh(mapped, base, start, top, size)
  <2>1. MemType(mapped) /\ \A a : At(mapped, a) = At(m, a)
    BY <1>6 DEF Grown
  <2>2. At(m, start) = Word(0)
    <3>1. start \notin DOMAIN m.mem
      <4>1. ASSUME start \in DOMAIN m.mem PROVE FALSE
        <5>1. PICK i \in H!ChunkIds(h) : start < h.ch_array[i].end
          BY <4>1 DEF Holds, Mapped
        <5>2. h.ch_array[i].end <= base /\ h.ch_array[i].end \in Nat
          BY <1>1, LaidChunk DEF H!Above
        <5>3. QED
          BY <1>2, <5>1, <5>2
      <4>2. QED
        BY <4>1
    <3>2. QED
      BY <3>1 DEF At
  <2>3. HeadWords(base, start, top) \subseteq DOMAIN mapped.mem
    <3>1. /\ base % 8 = 0 /\ (base + 8) % 8 = 0 /\ start % 8 = 0 /\ (start + 8) % 8 = 0
          /\ top % 8 = 0 /\ (top + 8) % 8 = 0
      BY <1>2
    <3>2. /\ base <= base + 8 /\ base + 8 < base + len /\ base <= start /\ start + 8 < base + len
          /\ base <= top /\ top + 8 < base + len /\ base < base + len /\ base <= base
          /\ start < base + len /\ top < base + len /\ base <= start + 8 /\ base <= top + 8
      BY <1>2
    <3>3. /\ base \in Nat /\ base + 8 \in Nat /\ start \in Nat /\ start + 8 \in Nat
          /\ top \in Nat /\ top + 8 \in Nat
      BY <1>2, <1>3
    <3>4. {a \in Nat : a % 8 = 0 /\ base <= a /\ a < base + len} \subseteq DOMAIN mapped.mem
      BY <1>6 DEF Grown
    <3>. HIDE DEF start, top
    <3>5. \A a \in Nat : a % 8 = 0 /\ base <= a /\ a < base + len => a \in DOMAIN mapped.mem
      BY <3>4
    <3>6. HeadWords(base, start, top) = {base, base + 8, start, start + 8, top, top + 8}
      BY DEF HeadWords
    <3>7. QED
      BY <3>1, <3>2, <3>3, <3>5, <3>6
  <2>. HIDE DEF start, top, size
  <2>4. QED
    BY <1>2, <1>3, <2>1, <2>2, <2>3 DEF Fresh
<1>9. Headed(mapped, k, base, start, top, size, n)
  <2>. HIDE DEF start, top, size, n
  <2>1. QED
    BY <1>5, <1>8, ChunkLaid
<1>. HIDE DEF chunk, header, k
<1>10. PICK g : /\ H!Maps(h, g, base, len)
                /\ H!NewChunk(h, base, len) = H!freeing_up(g, base + H!SizeofChunk)
  BY H!NewChunkFields, HeapAssumptions
<1>11. Holds(k, g) /\ H!Grid(g)
  BY <1>5, <1>6, <1>9, <1>10, ChunkHeld
<1>12. /\ H!SoundBut(g, {start}, {start, H!EndOf(g, start)}) /\ start \in FreeBlocks(g)
       /\ H!Allocated(g) = H!Allocated(h)
  <2>1. LET s == base + H!SizeofChunk
        IN  /\ H!SoundBut(g, {s}, {s, H!EndOf(g, s)})
            /\ s \in H!Blocks(g) /\ H!IsFree(g, s)
            /\ H!SameAllocated(h, g)
    BY <1>10, H!MapsSound, HeapAssumptions
  <2>2. QED
    BY <2>1, Names DEF FreeBlocks, H!SameAllocated
<1>13. Holds(v, H!freeing_up(g, start)) /\ Stored(k, v, FreeWords(g))
  <2>. HIDE DEF start
  <2>1. QED
    BY <1>11, <1>12, FreedUp
<1>14. H!NewChunk(h, base, len) = H!freeing_up(g, start)
  BY <1>10, Names
<1>15. Keeps(m, v, H!Allocated(h))
  <2>1. Keeps(m, mapped, H!Allocated(h))
    BY <1>6 DEF Grown, Keeps
  <2>2. Keeps(mapped, k, H!Allocated(h))
    <3>1. Stored(mapped, k, HeadWords(base, base + 16, base + len - 16))
      BY <1>9 DEF Headed
    <3>2. ASSUME NEW x \in H!Allocated(h) PROVE x + 8 \notin HeadWords(base, base + 16, base + len - 16)
      <4>1. x \in H!Blocks(h)
        BY DEF H!Allocated
      <4>2. QED
        BY <4>1, HeadApart
    <3>3. QED
      BY <3>1, <3>2, StoredKeeps
  <2>3. Keeps(k, v, H!Allocated(h))
    <3>1. Laid(g)
      BY <1>11, <1>12, SoundLaid
    <3>2. ASSUME NEW x \in H!Allocated(h) PROVE x + 8 \notin FreeWords(g)
      BY <1>12, <3>1, FreeWordsApart
    <3>3. QED
      BY <1>13, <3>2, StoredKeeps
  <2>. HIDE DEF v
  <2>4. Keeps(m, k, H!Allocated(h))
    BY <2>1, <2>2, KeepsTwice
  <2>5. QED
    BY <2>3, <2>4, KeepsTwice
<1>. HIDE DEF v
<1>16. QED
  BY <1>7, <1>13, <1>14, <1>15

\* n holds a sound heap with what is allocated in h, and its blocks in the list
\* of allocated blocks are linked as in m.
Asked(m, n, h) ==
  /\ Keeps(m, n, H!Allocated(h))
  /\ \E g : H!Sound(g) /\ H!Grid(g) /\ H!SameAllocated(h, g) /\ Holds(n, g)

\* A recorded fault changes no word.
LEMMA FaultedHeld ==
  ASSUME NEW m, NEW h, Holds(m, h), NEW how
  PROVE  /\ Holds(Faulted(m, how), h)
         /\ \A a : At(Faulted(m, how), a) = At(m, a)
         /\ DOMAIN Faulted(m, how).mem = DOMAIN m.mem
         /\ Faulted(m, how).alloc_block_end = m.alloc_block_end
         /\ Faulted(m, how).fault \in {m.fault, how}
<1>. DEFINE n == [m EXCEPT !.fault = how]
<1>1. MemType(m)
  BY DEF Holds, Mapped
<1>2. n = [index_last_chunk_from_OS |-> m.index_last_chunk_from_OS,
           ch_array        |-> m.ch_array,
           corr_size_arr   |-> m.corr_size_arr,
           free_lists      |-> m.free_lists,
           alloc_block_end |-> m.alloc_block_end,
           mem             |-> m.mem,
           fault           |-> how]
  BY <1>1 DEF MemType
<1>3. Faulted(m, how) \in {m, n}
  BY DEF Faulted
<1>. HIDE DEF n
<1>4. MemType(n) /\ n.mem = m.mem /\ n.fault = how /\ n.alloc_block_end = m.alloc_block_end
  BY <1>1, <1>2 DEF MemType
<1>5. \A a : At(n, a) = At(m, a)
  BY <1>4 DEF At
<1>6. Mapped(n, h) /\ Headers(n, h)
  BY <1>2, <1>4, <1>5 DEF Holds, Mapped, Headers, HeaderHeld
<1>7. ListsHeld(n, h)
  <2>1. n.free_lists = m.free_lists
    BY <1>2
  <2>2. ASSUME NEW i \in 0 .. N_LISTS - 1 PROVE Spells(n, m.free_lists[i], h.free_lists[i])
    <3>1. Spells(m, m.free_lists[i], h.free_lists[i])
      BY DEF Holds, ListsHeld
    <3>2. QED
      BY <1>4, <1>5, <3>1, SpellsKept
  <2>3. QED
    BY <2>1, <2>2 DEF Holds, ListsHeld
<1>8. QED
  BY <1>3, <1>4, <1>5, <1>6, <1>7 DEF Holds

\* What get_chunk_from_OS may leave.
LEMMA ChunkAsked ==
  ASSUME NEW h, H!Sound(h), H!Grid(h), NEW m, Holds(m, h),
         NEW multiple \in Int, NEW n \in get_chunk_from_OS(m, multiple)
  PROVE  Asked(m, n, h)
<1>. DEFINE len == multiple * kMemorySize
<1>1. H!SameAllocated(h, h)
  BY DEF H!SameAllocated
<1>2. CASE n = m
  <2>1. Keeps(m, m, H!Allocated(h))
    BY DEF Keeps
  <2>2. QED
    BY <1>1, <1>2, <2>1 DEF Asked
<1>3. CASE n = Faulted(m, "table")
  <2>1. Keeps(m, n, H!Allocated(h)) /\ Holds(n, h)
    BY <1>3, FaultedHeld DEF Keeps
  <2>2. QED
    BY <1>1, <2>1 DEF Asked
<1>4. ASSUME multiple >= 1, NEW base \in MmapBases, Room(m, base, len),
             ~(m.index_last_chunk_from_OS + 1 >= MAX_REQ), n = NewChunk(m, base, len)
      PROVE  Asked(m, n, h)
  <2>1. Laid(h) /\ m.index_last_chunk_from_OS = h.index_last_chunk_from_OS
        /\ h.index_last_chunk_from_OS \in Int /\ MAX_REQ \in Int
    <3>1. Laid(h) /\ m.index_last_chunk_from_OS = h.index_last_chunk_from_OS
      BY SoundLaid DEF H!Sound, Holds, Mapped
    <3>2. h.index_last_chunk_from_OS \in -1 .. MAX_REQ - 1
      BY DEF H!Sound, H!SoundBut, H!HeapType
    <3>3. QED
      BY <3>1, <3>2, HeapAssumptions
  <2>2. len \in Nat /\ len % H!kAlignment = 0 /\ len >= 48
    <3>1. multiple \in Nat
      BY <1>4
    <3>2. QED
      BY <1>4, <3>1, H!Units, HeapAssumptions
  <2>3. base \in Nat /\ base > 0 /\ base % H!kAlignment = 0
    BY HeapAssumptions
  <2>4. ASSUME NEW i \in H!ChunkIds(h) PROVE h.ch_array[i].end <= base
    <3>1. Mapped(m, h)
      BY DEF Holds
    <3>2. i \in ChunkIds(m) /\ m.ch_array[i] + m.corr_size_arr[i] = h.ch_array[i].end
      BY <2>1, <3>1, ChunkReads
    <3>3. h.ch_array[i].end \in Nat
      BY <2>1, LaidChunk
    <3>4. base >= h.ch_array[i].end
      BY <1>4, <3>2 DEF Room
    <3>5. QED
      BY <2>3, <3>3, <3>4
  <2>5. base + len <= MmapTop
    BY <1>4 DEF Room
  <2>6. H!Above(h, base, len)
    <3>1. h.index_last_chunk_from_OS + 1 < MAX_REQ
      BY <1>4, <2>1
    <3>. HIDE DEF len
    <3>2. QED
      BY <2>2, <2>3, <2>4, <3>1 DEF H!Above
  <2>. HIDE DEF len
  <2>7. LET g == H!NewChunk(h, base, len)
        IN  /\ H!Sound(g) /\ H!SameAllocated(h, g) /\ g.fault = h.fault
            /\ H!MapsChunk(h, g, base, len)
    BY <2>6, H!NewChunkSound, HeapAssumptions
  <2>8. PICK g : g = H!NewChunk(h, base, len)
    OBVIOUS
  <2>9. /\ H!Sound(g) /\ H!SameAllocated(h, g) /\ g.fault = h.fault
        /\ H!MapsChunk(h, g, base, len)
    BY <2>7, <2>8
  <2>10. H!Grid(g)
    <3>1. H!Requested(h, g)
      BY <2>2, <2>3, <2>5, <2>6, <2>9 DEF H!Requested
    <3>2. QED
      BY <3>1, H!GridRequested, HeapAssumptions
  <2>11. Holds(n, g) /\ Keeps(m, n, H!Allocated(h))
    BY <1>4, <2>5, <2>6, <2>8, NewChunkAlike
  <2>12. QED
    BY <2>9, <2>10, <2>11 DEF Asked
<1>5. QED
  <2>1. SUFFICES ASSUME n # m, n # Faulted(m, "table") PROVE Asked(m, n, h)
    BY <1>2, <1>3
  <2>2. PICK base \in IF multiple < 1 THEN {} ELSE {a \in MmapBases : Room(m, a, len)} :
          n = IF m.index_last_chunk_from_OS + 1 >= MAX_REQ THEN Faulted(m, "table")
              ELSE NewChunk(m, base, len)
    BY <2>1 DEF get_chunk_from_OS
  <2>3. multiple >= 1 /\ base \in MmapBases /\ Room(m, base, len)
    BY <2>2
  <2>. HIDE DEF len
  <2>4. n = NewChunk(m, base, len) /\ ~(m.index_last_chunk_from_OS + 1 >= MAX_REQ)
    BY <2>1, <2>2
  <2>5. QED
    BY <1>4, <2>3, <2>4 DEF len

\* Two requests, one after the other.
LEMMA AskedTwice ==
  ASSUME NEW m, NEW n, NEW h, Asked(m, n, h)
  PROVE  \E g : /\ H!Sound(g) /\ H!Grid(g) /\ H!SameAllocated(h, g) /\ Holds(n, g)
                /\ \A k : Asked(n, k, g) => Asked(m, k, h)
<1>1. PICK g : H!Sound(g) /\ H!Grid(g) /\ H!SameAllocated(h, g) /\ Holds(n, g)
  BY DEF Asked
<1>2. H!Allocated(g) = H!Allocated(h)
  BY <1>1 DEF H!SameAllocated
<1>3. ASSUME NEW k, Asked(n, k, g) PROVE Asked(m, k, h)
  <2>1. Keeps(m, k, H!Allocated(h))
    BY <1>2, <1>3, KeepsTwice DEF Asked
  <2>2. PICK f : H!Sound(f) /\ H!Grid(f) /\ H!SameAllocated(g, f) /\ Holds(k, f)
    BY <1>3 DEF Asked
  <2>3. H!SameAllocated(h, f)
    BY <1>1, <2>2 DEF H!SameAllocated
  <2>4. QED
    BY <2>1, <2>2, <2>3 DEF Asked
<1>4. QED
  BY <1>1, <1>3

\* The requests of my_malloc.
LEMMA RequestsAsked ==
  ASSUME NEW h, H!Sound(h), H!Grid(h), NEW m, Holds(m, h), NEW n \in Nat,
         NEW m1 \in first_chunk(m, n), NEW m2 \in another_chunk(m1, n)
  PROVE  Asked(m, m2, h)
<1>1. \A q \in Int : q \div kMemorySize \in Int
  <2>1. kMemorySize \in Int /\ kMemorySize > 0
    BY HeapAssumptions, Names
  <2>2. QED
    BY <2>1
<1>2. n + SizeofChunk + kMemorySize - 1 \in Int /\ n + kMemorySize - 1 \in Int
  BY HeapAssumptions, Names
<1>. DEFINE l1 == (n + SizeofChunk + kMemorySize - 1) \div kMemorySize
            l2 == (n + kMemorySize - 1) \div kMemorySize
<1>3. l1 \in Int /\ l2 \in Int
  BY <1>1, <1>2
<1>4. m1 = m \/ m1 \in get_chunk_from_OS(m, l1)
  BY DEF first_chunk
<1>5. m2 = m1 \/ m2 \in get_chunk_from_OS(m1, l2)
  BY DEF another_chunk
<1>. HIDE DEF l1, l2
<1>6. ASSUME NEW k, NEW g, Holds(k, g), H!Sound(g), H!Grid(g) PROVE Asked(k, k, g)
  BY <1>6 DEF Asked, Keeps, H!SameAllocated
<1>7. Asked(m, m1, h)
  BY <1>3, <1>4, <1>6, ChunkAsked
<1>8. PICK g : /\ H!Sound(g) /\ H!Grid(g) /\ H!SameAllocated(h, g) /\ Holds(m1, g)
               /\ \A k : Asked(m1, k, g) => Asked(m, k, h)
  BY <1>7, AskedTwice
<1>9. Asked(m1, m2, g)
  BY <1>3, <1>5, <1>6, <1>8, ChunkAsked
<1>10. QED
  BY <1>8, <1>9

-----------------------------------------------------------------------------
(* The search for a block *)

\* What a free list offers is a free block, and large enough.
LEMMA ListFitsAlike ==
  ASSUME NEW h, H!Sound(h), H!Grid(h), NEW m, Holds(m, h), NEW i \in 0 .. N_LISTS - 1, NEW n,
         NEW b \in list_fit(m, m.free_lists[i], n)
  PROVE  b \in FreeBlocks(h) /\ h.block[b].size >= n
<1>1. Laid(h) /\ H!Listed(h, {}) /\ Mapped(m, h)
  BY SoundLaid DEF H!Sound, H!SoundBut, Holds
<1>2. IsFiniteSet(DOMAIN m.mem) /\ Spells(m, m.free_lists[i], h.free_lists[i])
  BY <1>1, BlockWords DEF Holds, ListsHeld
<1>3. Chain(m, m.free_lists[i]) = h.free_lists[i]
  BY <1>2, ChainSpelled
<1>4. PICK k \in DOMAIN h.free_lists[i] : b = h.free_lists[i][k] /\ get_size(m, b) >= n
  BY <1>3 DEF list_fit
<1>5. b \in FreeBlocks(h)
  BY <1>1, <1>4, ListedBlock
<1>6. get_size(m, b) = h.block[b].size
  BY <1>1, <1>5, Reads DEF FreeBlocks, Holds, Headers, Read
<1>7. QED
  BY <1>4, <1>5, <1>6

\* The block that my_malloc settles on is free, and large enough.
LEMMA ChosenAlike ==
  ASSUME NEW h, H!Sound(h), H!Grid(h), NEW m1, NEW n \in Nat, NEW m2 \in another_chunk(m1, n),
         Holds(m2, h), NEW b \in chosen(m1, m2, n)
  PROVE  b \in FreeBlocks(h) /\ h.block[b].size >= n
<1>1. \A i \in calculate_index(n) .. N_LISTS - 1 : i \in 0 .. N_LISTS - 1
  <2>1. H!calculate_index(n) \in H!FreeLists
    BY H!IndexInRange, HeapAssumptions
  <2>2. calculate_index(n) \in 0 .. N_LISTS - 1
    BY <2>1, Names DEF H!FreeLists
  <2>3. QED
    BY <2>2, HeapAssumptions
<1>2. N_LISTS - 1 \in 0 .. N_LISTS - 1
  BY HeapAssumptions
<1>3. CASE best_fit(m1, n) # {}
  <2>1. m2 = m1
    BY <1>3 DEF another_chunk
  <2>2. b \in best_fit(m2, n)
    BY <1>3, <2>1 DEF chosen
  <2>3. PICK i \in calculate_index(n) .. N_LISTS - 1 : b \in list_fit(m2, m2.free_lists[i], n)
    BY <2>2 DEF best_fit
  <2>4. i \in 0 .. N_LISTS - 1
    BY <1>1, <2>3
  <2>5. QED
    BY <2>3, <2>4, ListFitsAlike
<1>4. CASE best_fit(m1, n) = {}
  <2>1. b \in list_fit(m2, m2.free_lists[N_LISTS - 1], n)
    BY <1>4 DEF chosen
  <2>2. QED
    BY <1>2, <2>1, ListFitsAlike
<1>5. QED
  BY <1>3, <1>4

-----------------------------------------------------------------------------
(* Words that no header, footer or link of a list is read from *)

\* n is m for whoever reads a low half, or a high half but for the mark.
SameReads(m, n) ==
  /\ MemType(n)
  /\ n.index_last_chunk_from_OS = m.index_last_chunk_from_OS
  /\ n.ch_array = m.ch_array /\ n.corr_size_arr = m.corr_size_arr
  /\ n.free_lists = m.free_lists
  /\ DOMAIN n.mem = DOMAIN m.mem
  /\ \A a : At(n, a).lo = At(m, a).lo /\ At(n, a).hi = At(m, a).hi

\* It holds the heap that m holds.
LEMMA HoldsReads ==
  ASSUME NEW m, NEW h, Holds(m, h), NEW n, SameReads(m, n)
  PROVE  Holds(n, h) /\ \A head, s : Spells(m, head, s) => Spells(n, head, s)
<1>1. \A head, s : Spells(m, head, s) => Spells(n, head, s)
  BY SpellsKept DEF SameReads
<1>2. Mapped(n, h) /\ Headers(n, h)
  BY DEF SameReads, Holds, Mapped, Headers, HeaderHeld
<1>3. ListsHeld(n, h)
  BY <1>1 DEF SameReads, Holds, ListsHeld
<1>4. QED
  BY <1>1, <1>2, <1>3 DEF Holds

\* Words of the payloads of allocated blocks.
Payload(h) ==
  {w \in Nat : \E b \in H!Allocated(h) : b + 16 <= w /\ w < H!EndOf(h, b) - 16}

\* What is stored there changes no header and no link.
LEMMA PayloadStored ==
  ASSUME NEW h, H!Sound(h), H!Grid(h), NEW m, Holds(m, h), NEW W, W \subseteq Payload(h),
         NEW n, Stored(m, n, W), n.free_lists = m.free_lists
  PROVE  /\ Holds(n, h)
         /\ \A x \in H!Blocks(h) : At(n, x) = At(m, x) /\ At(n, x + 8) = At(m, x + 8)
<1>1. Laid(h) /\ H!Listed(h, {}) /\ Mapped(m, h) /\ Headers(m, h) /\ ListsHeld(m, h)
  BY SoundLaid DEF H!Sound, H!SoundBut, Holds
<1>2. ASSUME NEW w \in W
      PROVE  /\ InBlocks(h, w)
             /\ \A x \in H!Blocks(h) : w # x /\ w # x + 8 /\ w # H!EndOf(h, x) - 16
  <2>1. PICK b \in H!Allocated(h) : w \in Nat /\ b + 16 <= w /\ w < H!EndOf(h, b) - 16
    BY DEF Payload
  <2>2. b \in H!Blocks(h)
    BY DEF H!Allocated
  <2>3. /\ b \in Nat /\ H!EndOf(h, b) = b + h.block[b].size
        /\ h.block[b].size \in Nat /\ h.block[b].size >= 32
    BY <1>1, <2>2, LaidBlock
  <2>4. InBlocks(h, w)
    BY <2>1, <2>2, <2>3 DEF InBlocks
  <2>5. ASSUME NEW x \in H!Blocks(h)
        PROVE  w # x /\ w # x + 8 /\ w # H!EndOf(h, x) - 16
    <3>1. /\ x \in Nat /\ H!EndOf(h, x) = x + h.block[x].size
          /\ h.block[x].size \in Nat /\ h.block[x].size >= 32
      BY <1>1, LaidBlock
    <3>2. x = b \/ H!EndOf(h, x) <= b \/ H!EndOf(h, b) <= x
      BY <1>1, <2>2, Apart
    <3>3. QED
      BY <2>1, <2>3, <3>1, <3>2
  <2>6. QED
    BY <2>4, <2>5
<1>3. Mapped(n, h)
  <2>1. H!SameChunks(h, h)
    BY DEF H!SameChunks
  <2>2. QED
    BY <1>1, <1>2, <2>1, MappedKept
<1>4. ASSUME NEW x \in H!Blocks(h)
      PROVE  /\ HeaderHeld(n, h, x)
             /\ At(n, x) = At(m, x) /\ At(n, x + 8) = At(m, x + 8)
  <2>1. x \notin W /\ x + 8 \notin W /\ H!EndOf(h, x) - 16 \notin W
    BY <1>2
  <2>2. HeaderHeld(m, h, x)
    BY <1>1 DEF Headers
  <2>3. HeaderHeld(n, h, x)
    BY <2>1, <2>2, HeaderKept
  <2>4. QED
    BY <2>1, <2>3 DEF Stored
<1>5. ListsHeld(n, h)
  <2>1. ASSUME NEW i \in 0 .. N_LISTS - 1 PROVE Spells(n, m.free_lists[i], h.free_lists[i])
    <3>1. Spells(m, m.free_lists[i], h.free_lists[i]) /\ DOMAIN n.mem = DOMAIN m.mem
      BY <1>1 DEF ListsHeld, Stored
    <3>2. \A k \in DOMAIN h.free_lists[i] : h.free_lists[i][k] \in H!Blocks(h)
      BY <1>1, ListedBlock DEF FreeBlocks
    <3>3. QED
      BY <1>4, <3>1, <3>2, SpellsKept
  <2>2. QED
    BY <1>1, <2>1 DEF ListsHeld
<1>6. QED
  BY <1>3, <1>4, <1>5 DEF Holds, Headers

-----------------------------------------------------------------------------
(* The list of allocated blocks *)

\* A new head of that list.
LEMMA EndSet ==
  ASSUME NEW m, MemType(m), NEW head
  PROVE  LET n == [m EXCEPT !.alloc_block_end = head]
         IN  /\ SameReads(m, n) /\ n.alloc_block_end = head /\ n.fault = m.fault
             /\ \A a : At(n, a) = At(m, a)
<1>. DEFINE n == [m EXCEPT !.alloc_block_end = head]
<1>1. n = [index_last_chunk_from_OS |-> m.index_last_chunk_from_OS,
           ch_array        |-> m.ch_array,
           corr_size_arr   |-> m.corr_size_arr,
           free_lists      |-> m.free_lists,
           alloc_block_end |-> head,
           mem             |-> m.mem,
           fault           |-> m.fault]
  BY DEF MemType
<1>. HIDE DEF n
<1>2. MemType(n) /\ n.mem = m.mem
  BY <1>1 DEF MemType
<1>3. \A a : At(n, a) = At(m, a)
  BY <1>2 DEF At
<1>4. SameReads(m, n)
  BY <1>1, <1>2, <1>3 DEF SameReads
<1>5. QED
  BY <1>1, <1>3, <1>4 DEF n

\* Links of allocated blocks are in no free list.
LEMMA AllocLinks ==
  ASSUME NEW h, H!Sound(h), H!Grid(h), NEW m, Holds(m, h), NEW X, X \subseteq H!Allocated(h),
         NEW n, LinksOnly(m, n, X), n.free_lists = m.free_lists
  PROVE  Holds(n, h)
<1>1. Laid(h) /\ H!Listed(h, {}) /\ Mapped(m, h) /\ Headers(m, h) /\ ListsHeld(m, h)
  BY SoundLaid DEF H!Sound, H!SoundBut, Holds
<1>2. X \subseteq H!Blocks(h)
  BY DEF H!Allocated
<1>3. /\ Headers(n, h)
      /\ \A w \in {x + 8 : x \in X} : InBlocks(h, w)
      /\ \A x \in H!Blocks(h) \ X : At(n, x + 8) = At(m, x + 8)
  BY <1>1, <1>2, LinksHeaders
<1>4. Mapped(n, h)
  <2>. DEFINE W == {x + 8 : x \in X}
  <2>1. H!SameChunks(h, h)
    BY DEF H!SameChunks
  <2>2. Stored(m, n, W) /\ \A w \in W : InBlocks(h, w)
    BY <1>3 DEF LinksOnly
  <2>. HIDE DEF W
  <2>3. QED
    BY <1>1, <2>1, <2>2, MappedKept
<1>5. ListsHeld(n, h)
  <2>1. ASSUME NEW i \in 0 .. N_LISTS - 1 PROVE Spells(n, m.free_lists[i], h.free_lists[i])
    <3>1. Spells(m, m.free_lists[i], h.free_lists[i]) /\ DOMAIN n.mem = DOMAIN m.mem
      BY <1>1 DEF ListsHeld, LinksOnly, Stored
    <3>2. ASSUME NEW k \in DOMAIN h.free_lists[i]
          PROVE  h.free_lists[i][k] \in H!Blocks(h) \ X
      <4>1. h.free_lists[i][k] \in FreeBlocks(h)
        BY <1>1, ListedBlock
      <4>2. QED
        BY <4>1 DEF FreeBlocks, H!Allocated
    <3>3. QED
      BY <1>3, <3>1, <3>2, SpellsKept
  <2>2. QED
    BY <1>1, <2>1 DEF ListsHeld
<1>6. QED
  BY <1>3, <1>4, <1>5 DEF Holds

\* m holds h, and A is the list of its allocated blocks, linked.
Collected(m, h, A) ==
  /\ H!Sound(h) /\ H!Grid(h) /\ Holds(m, h)
  /\ Spells(m, m.alloc_block_end, A) /\ Elements(A) = H!Allocated(h)

\* remove_from_alloc_list takes a block out of the list, and no other word.
LEMMA AllocRemoved ==
  ASSUME NEW m, NEW h, NEW A, Collected(m, h, A), NEW k \in DOMAIN A
  PROVE  LET n == remove_from_alloc_list(m, A[k])
         IN  /\ Holds(n, h) /\ Spells(n, n.alloc_block_end, DropAt(A, k)) /\ n.fault = m.fault
             /\ \A x \in H!Allocated(h) : At(n, x + 8).mark = At(m, x + 8).mark
<1>. DEFINE b == A[k]
            u == Unlinked(m, m.alloc_block_end, b)
            n == [u.heap EXCEPT !.alloc_block_end = u.head]
<1>1. /\ Laid(h) /\ H!Sound(h) /\ H!Grid(h) /\ Holds(m, h) /\ Mapped(m, h) /\ MemType(m)
      /\ Spells(m, m.alloc_block_end, A) /\ Elements(A) = H!Allocated(h)
  BY SoundLaid DEF Collected, H!Sound, Holds, Mapped
<1>2. IsFiniteSet(DOMAIN m.mem)
  BY <1>1, BlockWords
<1>3. Unlinks(m, A, b, k, u)
  BY <1>1, <1>2, UnlinkedSpelled
<1>4. b # NULL
  BY <1>1 DEF Spells
<1>5. remove_from_alloc_list(m, b) = n
  BY <1>4 DEF remove_from_alloc_list, with_alloc_list
<1>. HIDE DEF u, b
<1>6. /\ LinksOnly(m, u.heap, H!Allocated(h)) /\ u.heap.free_lists = m.free_lists
      /\ Spells(u.heap, u.head, DropAt(A, k))
  BY <1>1, <1>3 DEF Unlinks
<1>7. Holds(u.heap, h)
  BY <1>1, <1>6, AllocLinks
<1>8. MemType(u.heap) /\ u.heap.fault = m.fault
  BY <1>6 DEF LinksOnly, Stored
<1>9. /\ SameReads(u.heap, n) /\ n.alloc_block_end = u.head /\ n.fault = u.heap.fault
      /\ \A a : At(n, a) = At(u.heap, a)
  BY <1>8, EndSet
<1>. HIDE DEF n
<1>10. Holds(n, h) /\ Spells(n, u.head, DropAt(A, k))
  BY <1>6, <1>7, <1>9, HoldsReads
<1>11. \A x \in H!Allocated(h) : At(n, x + 8).mark = At(m, x + 8).mark
  BY <1>6, <1>9 DEF LinksOnly
<1>12. QED
  BY <1>5, <1>8, <1>9, <1>10, <1>11 DEF b

\* A turn of sweep that frees an allocated block: the block leaves the list, and
\* is free; the others stay as they were, their marks included.
SweepsOne(m, n, h, g, A, k) ==
  /\ Collected(n, g, DropAt(A, k))
  /\ H!Allocated(g) = H!Allocated(h) \ {A[k]}
  /\ \A x \in H!Allocated(g) : g.block[x].size = h.block[x].size
  /\ \A x \in H!Allocated(g) : At(n, x + 8).mark = At(m, x + 8).mark
  /\ ~is_allocated(n, A[k])
  /\ n.fault \in {m.fault, "table"}

\* remove_from_alloc_list, and my_free.
LEMMA SweptAlike ==
  ASSUME NEW m, NEW h, NEW A, Collected(m, h, A), NEW k \in DOMAIN A
  PROVE  \E g : SweepsOne(m, my_free(remove_from_alloc_list(m, A[k]), A[k] + kMetadataSize), h, g, A, k)
<1>. DEFINE b == A[k]
            v == remove_from_alloc_list(m, b)
            n == my_free(v, b + kMetadataSize)
            T == DropAt(A, k)
<1>1. /\ H!Sound(h) /\ H!Grid(h) /\ Holds(m, h)
      /\ Spells(m, m.alloc_block_end, A) /\ Elements(A) = H!Allocated(h)
  BY DEF Collected
<1>2. b \in H!Allocated(h)
  BY <1>1 DEF Elements
<1>3. /\ Holds(v, h) /\ Spells(v, v.alloc_block_end, T) /\ v.fault = m.fault
      /\ \A x \in H!Allocated(h) : At(v, x + 8).mark = At(m, x + 8).mark
  <2>1. LET q == remove_from_alloc_list(m, A[k])
        IN  /\ Holds(q, h) /\ Spells(q, q.alloc_block_end, DropAt(A, k)) /\ q.fault = m.fault
            /\ \A x \in H!Allocated(h) : At(q, x + 8).mark = At(m, x + 8).mark
    BY AllocRemoved
  <2>2. QED
    BY <2>1
<1>. HIDE DEF v
<1>4. Elements(T) = H!Allocated(h) \ {b}
  <2>1. A \in Seq(Nat \ {NULL}) /\ \A i, j \in DOMAIN A : A[i] = A[j] => i = j
    BY <1>1 DEF Spells
  <2>2. LET t == DropAt(A, k) IN Elements(t) = Elements(A) \ {A[k]}
    BY <2>1, DropAtElements
  <2>3. QED
    BY <1>1, <2>2
<1>5. PICK g : g = H!release(h, b + kMetadataSize)
  OBVIOUS
<1>6. /\ Holds(n, g) /\ H!Sound(g) /\ H!Grid(g)
      /\ H!Allocated(g) = H!Allocated(h) \ {b}
      /\ \A x \in H!Allocated(g) : g.block[x].size = h.block[x].size
      /\ Keeps(v, n, H!Allocated(h) \ {b})
      /\ ~is_allocated(n, b)
  <2>1. LET n0 == my_free(v, b + kMetadataSize)
            g0 == H!release(h, b + kMetadataSize)
        IN  /\ Holds(n0, g0) /\ H!Sound(g0) /\ H!Grid(g0)
            /\ H!Allocated(g0) = H!Allocated(h) \ {b}
            /\ \A x \in H!Allocated(g0) : g0.block[x].size = h.block[x].size
            /\ Keeps(v, n0, H!Allocated(h) \ {b})
            /\ ~is_allocated(n0, b)
    BY <1>1, <1>2, <1>3, Freed
  <2>2. QED
    BY <1>5, <2>1
<1>. HIDE DEF n, b
<1>7. Spells(n, n.alloc_block_end, T)
  <2>1. \A j \in DOMAIN T : T[j] \in H!Allocated(h) \ {b}
    BY <1>4 DEF Elements
  <2>2. /\ DOMAIN v.mem \subseteq DOMAIN n.mem /\ n.alloc_block_end = v.alloc_block_end
        /\ \A j \in DOMAIN T : At(n, T[j] + 8).lo = At(v, T[j] + 8).lo
    BY <1>6, <2>1 DEF Keeps
  <2>. HIDE DEF T
  <2>3. QED
    BY <1>3, <2>2, SpellsKept
<1>8. \A x \in H!Allocated(g) : At(n, x + 8).mark = At(m, x + 8).mark
  BY <1>3, <1>6 DEF Keeps
<1>9. Collected(n, g, T)
  BY <1>4, <1>6, <1>7 DEF Collected
<1>10. SweepsOne(m, n, h, g, A, k)
  BY <1>3, <1>6, <1>8, <1>9 DEF SweepsOne, Keeps, b
<1>11. QED
  BY <1>10 DEF n, v, b

\* A header put after a list.
LEMMA SpellsSnoc ==
  ASSUME NEW m, NEW head, NEW s, Spells(m, head, s), NEW b \in Nat \ {NULL}, b \notin Elements(s),
         b \in DOMAIN m.mem, b + 8 \in DOMAIN m.mem,
         NEW n, DOMAIN n.mem = DOMAIN m.mem,
         \A k \in DOMAIN s : k # Len(s) => At(n, s[k] + 8).lo = At(m, s[k] + 8).lo,
         s # << >> => At(n, s[Len(s)] + 8).lo = b - s[Len(s)],
         get_next_through_off(n, b) = NULL
  PROVE  Spells(n, IF s = << >> THEN b ELSE head, Append(s, b)) /\ Elements(Append(s, b)) = Elements(s) \cup {b}
<1>. DEFINE t == Append(s, b)
<1>1. /\ s \in Seq(Nat \ {NULL}) /\ Len(s) \in Nat /\ DOMAIN s = 1 .. Len(s)
      /\ head = IF s = << >> THEN NULL ELSE s[1]
      /\ \A k \in DOMAIN s : s[k] \in DOMAIN m.mem /\ s[k] + 8 \in DOMAIN m.mem
      /\ \A j, k \in DOMAIN s : s[j] = s[k] => j = k
      /\ \A k \in DOMAIN s :
           get_next_through_off(m, s[k]) = IF k = Len(s) THEN NULL ELSE s[k + 1]
  BY DEF Spells
<1>2. /\ t \in Seq(Nat \ {NULL}) /\ Len(t) = Len(s) + 1 /\ DOMAIN t = 1 .. Len(s) + 1
      /\ t[Len(s) + 1] = b /\ \A k \in DOMAIN s : t[k] = s[k]
  BY <1>1
<1>. HIDE DEF t
<1>. DEFINE L == Len(s)
            M == Len(t)
<1>i. /\ L \in Nat /\ M = L + 1
      /\ \A k : k \in DOMAIN s <=> k \in Int /\ 1 <= k /\ k <= L
  BY <1>1, <1>2
<1>3. \A k \in DOMAIN t : (k = Len(s) + 1 /\ t[k] = b) \/ (k \in DOMAIN s /\ t[k] = s[k])
  <2>1. TAKE k \in DOMAIN t
  <2>2. k = Len(s) + 1 \/ k \in 1 .. Len(s)
    <3>1. k \in 1 .. Len(s) + 1 /\ Len(s) \in Nat
      BY <1>1, <1>2
    <3>2. QED
      BY <3>1
  <2>3. QED
    BY <1>1, <1>2, <2>2
<1>4. \A k \in DOMAIN s : s[k] # b /\ k \in DOMAIN t
  BY <1>1, <1>2 DEF Elements
<1>5. \A j, k \in DOMAIN t : t[j] = t[k] => j = k
  BY <1>1, <1>3, <1>4
<1>6. \A k \in DOMAIN t : t[k] \in DOMAIN n.mem /\ t[k] + 8 \in DOMAIN n.mem
  BY <1>1, <1>3
<1>7. ASSUME NEW k \in DOMAIN t
      PROVE  get_next_through_off(n, t[k]) = IF k = Len(t) THEN NULL ELSE t[k + 1]
  <2>1. CASE k = Len(s) + 1
    BY <1>2, <2>1
  <2>2. CASE k \in DOMAIN s /\ k # Len(s)
    <3>1. get_next_through_off(n, s[k]) = get_next_through_off(m, s[k])
      BY <2>2 DEF get_next_through_off
    <3>2. k + 1 \in DOMAIN s /\ k # M
      <4>. HIDE DEF L, M
      <4>1. k \in DOMAIN s /\ k # L
        BY <2>2 DEF L
      <4>2. QED
        BY <1>i, <4>1
    <3>3. QED
      BY <1>1, <1>2, <2>2, <3>1, <3>2
  <2>3. CASE k \in DOMAIN s /\ k = Len(s)
    <3>1. s # << >> /\ s[k] \in Nat /\ s[k] # NULL /\ s[k] # b
      BY <1>1, <1>4, <2>3
    <3>2. At(n, s[k] + 8).lo = b - s[k]
      BY <2>3, <3>1
    <3>3. get_next_through_off(n, s[k]) = b
      BY <3>1, <3>2 DEF get_next_through_off
    <3>4. t[k] = s[k] /\ t[k + 1] = b
      BY <1>2, <2>3
    <3>5. k # M
      <4>. HIDE DEF M
      <4>1. QED
        BY <1>i, <2>3
    <3>6. QED
      BY <3>3, <3>4, <3>5
  <2>4. QED
    BY <1>3, <2>1, <2>2, <2>3
<1>8. t # << >>
  BY <1>1, <1>2
<1>9. (IF s = << >> THEN b ELSE head) = t[1]
  <2>1. CASE s = << >>
    <3>1. Len(s) + 1 = 1
      BY <2>1
    <3>2. QED
      BY <2>1, <3>1, <1>2
  <2>2. CASE s # << >>
    <3>1. 1 \in DOMAIN s
      BY <2>2, <1>1
    <3>2. QED
      BY <2>2, <3>1, <1>1, <1>2
  <2>3. QED
    BY <2>1, <2>2
<1>10. Elements(t) = Elements(s) \cup {b}
  <2>1. Len(s) + 1 \in DOMAIN t
    BY <1>1, <1>2
  <2>2. QED
    BY <1>2, <1>3, <1>4, <2>1 DEF Elements
<1>11. Spells(n, IF s = << >> THEN b ELSE head, t)
  BY <1>2, <1>5, <1>6, <1>7, <1>8, <1>9 DEF Spells
<1>12. QED
  BY <1>10, <1>11 DEF t

\* append_to_alloc_list links the last block to a. If a's own link happened to
\* be empty, all allocated blocks are in the list then.
Appends(r, n, g, A, a) ==
  /\ Holds(n, g) /\ n.fault = r.fault
  /\ DOMAIN n.mem = DOMAIN r.mem
  /\ At(n, a + 8) = At(r, a + 8)
  /\ get_next_through_off(n, a) = NULL => Collected(n, g, Append(A, a))

\* append_to_alloc_list, to an empty list or to another.
LEMMA AllocAppended ==
  ASSUME NEW g, H!Sound(g), H!Grid(g), NEW r, Holds(r, g),
         NEW A, Spells(r, r.alloc_block_end, A), NEW a, a \notin Elements(A),
         H!Allocated(g) = Elements(A) \cup {a}
  PROVE  Appends(r, append_to_alloc_list(r, a), g, A, a)
<1>. DEFINE n == append_to_alloc_list(r, a)
<1>1. Laid(g) /\ Mapped(r, g) /\ MemType(r) /\ IsFiniteSet(DOMAIN r.mem)
  BY SoundLaid, BlockWords DEF H!Sound, Holds, Mapped
<1>2. a \in H!Blocks(g) /\ a \in Nat \ {NULL} /\ a \in DOMAIN r.mem /\ a + 8 \in DOMAIN r.mem
  <2>1. a \in H!Blocks(g)
    BY DEF H!Allocated
  <2>2. /\ a \in Nat \ {0} /\ a % 8 = 0 /\ g.block[a].size \in Nat /\ g.block[a].size >= 32
        /\ H!EndOf(g, a) = a + g.block[a].size
    BY <1>1, <2>1, LaidBlock
  <2>3. a + 8 \in Nat /\ (a + 8) % 8 = 0 /\ a <= a + 8 /\ a + 8 < H!EndOf(g, a) /\ a < H!EndOf(g, a)
    BY <2>2
  <2>4. a \in DOMAIN r.mem /\ a + 8 \in DOMAIN r.mem
    BY <1>1, <2>1, <2>2, <2>3, BlockWords
  <2>5. QED
    BY <2>1, <2>2, <2>4 DEF NULL
<1>3. Chain(r, r.alloc_block_end) = A /\ ~Lost(r, r.alloc_block_end)
  BY <1>1, ChainSpelled
<1>4. A \in Seq(Nat \ {NULL}) /\ r.alloc_block_end = IF A = << >> THEN NULL ELSE A[1]
  BY DEF Spells
<1>5. CASE A = << >>
  <2>1. n = [r EXCEPT !.alloc_block_end = a]
    BY <1>4, <1>5 DEF append_to_alloc_list
  <2>2. /\ SameReads(r, n) /\ n.alloc_block_end = a /\ n.fault = r.fault
        /\ \A x : At(n, x) = At(r, x)
    BY <1>1, <2>1, EndSet
  <2>. HIDE DEF n
  <2>3. Holds(n, g) /\ DOMAIN n.mem = DOMAIN r.mem
    BY <2>2, HoldsReads DEF SameReads
  <2>4. ASSUME get_next_through_off(n, a) = NULL
        PROVE  Spells(n, a, Append(A, a)) /\ Elements(Append(A, a)) = Elements(A) \cup {a}
    <3>1. /\ \A k \in DOMAIN A : k # Len(A) => At(n, A[k] + 8).lo = At(r, A[k] + 8).lo
          /\ A # << >> => At(n, A[Len(A)] + 8).lo = a - A[Len(A)]
      BY <1>5, <2>2
    <3>2. /\ Spells(n, IF A = << >> THEN a ELSE r.alloc_block_end, Append(A, a))
          /\ Elements(Append(A, a)) = Elements(A) \cup {a}
      BY <1>2, <2>3, <2>4, <3>1, SpellsSnoc
    <3>3. QED
      BY <1>5, <3>2
  <2>5. get_next_through_off(n, a) = NULL => Collected(n, g, Append(A, a))
    BY <2>2, <2>3, <2>4 DEF Collected
  <2>6. Appends(r, n, g, A, a)
    BY <2>2, <2>3, <2>5 DEF Appends
  <2>7. QED
    BY <2>6 DEF n
<1>6. CASE A # << >>
  <2>. DEFINE l == A[Len(A)]
  <2>1. Len(A) \in DOMAIN A /\ l \in Elements(A) /\ l \in Nat \ {NULL} /\ 1 \in DOMAIN A
    BY <1>4, <1>6 DEF Elements
  <2>2. r.alloc_block_end # NULL
    BY <1>4, <1>6, <2>1
  <2>3. n = set_next_off(r, l, a)
    BY <1>3, <2>2 DEF append_to_alloc_list
  <2>4. l + 8 \in DOMAIN r.mem
    BY <2>1 DEF Spells
  <2>5. LinkSet(r, n, l, a)
    BY <1>1, <1>2, <2>1, <2>3, <2>4, SetNextOff
  <2>6. \A k \in DOMAIN A : A[k] \in Nat /\ (k # Len(A) => A[k] # l)
    BY <1>4, <2>1 DEF Spells
  <2>. HIDE DEF n, l
  <2>7. {l} \subseteq H!Allocated(g) /\ {l} \subseteq Nat /\ l # a /\ l \in {l} /\ l \in Nat
    BY <2>1
  <2>8. /\ LinksOnly(r, n, {l}) /\ n.free_lists = r.free_lists
        /\ \A x \in Nat : x # l => At(n, x + 8) = At(r, x + 8)
    BY <2>5, <2>7, LinkSetOnly
  <2>9. Holds(n, g)
    BY <2>7, <2>8, AllocLinks
  <2>10. /\ DOMAIN n.mem = DOMAIN r.mem /\ n.fault = r.fault
         /\ n.alloc_block_end = r.alloc_block_end
    BY <2>5 DEF LinkSet, Stored
  <2>11. At(n, a + 8) = At(r, a + 8)
    BY <1>2, <2>7, <2>8
  <2>12. ASSUME get_next_through_off(n, a) = NULL
         PROVE  Collected(n, g, Append(A, a))
    <3>1. \A k \in DOMAIN A : k # Len(A) => At(n, A[k] + 8).lo = At(r, A[k] + 8).lo
      BY <2>6, <2>8
    <3>2. At(n, l + 8).lo = a - l
      BY <1>2, <2>5 DEF LinkSet
    <3>3. A # << >> => At(n, A[Len(A)] + 8).lo = a - A[Len(A)]
      BY <3>2 DEF l
    <3>4. /\ Spells(n, IF A = << >> THEN a ELSE r.alloc_block_end, Append(A, a))
          /\ Elements(Append(A, a)) = Elements(A) \cup {a}
      BY <1>2, <2>10, <2>12, <3>1, <3>3, SpellsSnoc
    <3>5. Spells(n, n.alloc_block_end, Append(A, a))
      BY <1>6, <2>10, <3>4
    <3>6. QED
      BY <2>9, <3>4, <3>5 DEF Collected
  <2>13. Appends(r, n, g, A, a)
    BY <2>9, <2>10, <2>11, <2>12 DEF Appends
  <2>14. QED
    BY <2>13 DEF n
<1>7. QED
  BY <1>5, <1>6

-----------------------------------------------------------------------------
(* The walk by sizes *)

BlocksIn(h, i) == {b \in H!Blocks(h) : h.block[b].index = i}

\* A turn of the walk of find_block: the right neighbour, if the chunk has one.
LEMMA TurnAlike ==
  ASSUME NEW h, H!Sound(h), H!Grid(h), NEW m, Holds(m, h), NEW i \in H!ChunkIds(h),
         NEW b \in BlocksIn(h, i)
  PROVE  LET next == IF get_next_block(m, b) < EndOfChunk(m, i) THEN get_next_block(m, b) ELSE NULL
         IN  /\ H!EndOf(h, b) = h.ch_array[i].end => next = NULL
             /\ H!EndOf(h, b) # h.ch_array[i].end =>
                  next = H!EndOf(h, b) /\ next \in BlocksIn(h, i) /\ b < next /\ next # NULL
<1>1. /\ Laid(h) /\ Mapped(m, h) /\ Headers(m, h)
      /\ H!HeapType(h) /\ H!ChunksApart(h) /\ H!Tiled(h)
  BY SoundLaid DEF H!Sound, H!SoundBut, Holds
<1>2. b \in H!Blocks(h) /\ h.block[b].index = i
  BY DEF BlocksIn
<1>3. get_next_block(m, b) = H!get_next_block(h, b)
  BY <1>1, <1>2, NextRead DEF Headers
<1>4. EndOfChunk(m, i) = h.ch_array[i].end /\ h.ch_array[i].end \in Nat
  BY <1>1, ChunkReads, LaidChunk
<1>5. b \in Nat \ {0} /\ H!EndOf(h, b) \in Nat /\ b < H!EndOf(h, b)
  <2>1. /\ b \in Nat \ {0} /\ H!EndOf(h, b) = b + h.block[b].size
        /\ h.block[b].size \in Nat /\ h.block[b].size >= 32
    BY <1>1, <1>2, LaidBlock
  <2>2. QED
    BY <2>1
<1>6. CASE H!EndOf(h, b) = h.ch_array[i].end
  <2>1. H!get_next_block(h, b) = IF i + 1 \in H!ChunkIds(h) THEN h.ch_array[i + 1].start ELSE H!NULL
    BY <1>2, <1>6, H!NextChunk, HeapAssumptions
  <2>2. i + 1 \in H!ChunkIds(h) => /\ h.ch_array[i + 1].start > h.ch_array[i].end
                                   /\ h.ch_array[i + 1].start \in Nat
    BY H!ChunkAbove, HeapAssumptions
  <2>3. QED
    BY <1>3, <1>4, <1>6, <2>1, <2>2, Names
<1>7. CASE H!EndOf(h, b) # h.ch_array[i].end
  <2>1. /\ H!EndOf(h, b) < h.ch_array[i].end
        /\ H!get_next_block(h, b) = H!EndOf(h, b)
        /\ H!EndOf(h, b) \in H!Blocks(h) /\ h.block[H!EndOf(h, b)].index = i
    BY <1>1, <1>2, <1>7, H!NextBlock, HeapAssumptions
  <2>2. QED
    BY <1>3, <1>4, <1>5, <1>7, <2>1, Names DEF BlocksIn
<1>8. QED
  BY <1>6, <1>7

\* The walk meets the blocks of its chunk, each of them next to the one before,
\* and ends with the chunk.
Walked(h, i, s) ==
  /\ s \in Seq(BlocksIn(h, i)) /\ s # << >> /\ Elements(s) = BlocksIn(h, i)
  /\ H!EndOf(h, s[Len(s)]) = h.ch_array[i].end
  /\ \A k \in DOMAIN s \ {1} : k - 1 \in DOMAIN s /\ H!EndOf(h, s[k - 1]) = s[k]

\* The walk of find_block and print_heap through a chunk.
LEMMA WalkAlike ==
  ASSUME NEW h, H!Sound(h), H!Grid(h), NEW m, Holds(m, h), NEW i \in H!ChunkIds(h)
  PROVE  Walked(h, i, BlocksOf(m, i))
<1>. DEFINE W     == BlocksIn(h, i)
            next  == [b \in DOMAIN m.mem |->
                        IF get_next_block(m, b) < EndOfChunk(m, i)
                        THEN get_next_block(m, b) ELSE NULL]
            p     == h.ch_array[i].start
            limit == Cardinality(DOMAIN m.mem)
            end   == h.ch_array[i].end
            s     == Follow(next, p, limit)
<1>1. /\ Laid(h) /\ Mapped(m, h) /\ Headers(m, h) /\ H!Tiled(h)
  BY SoundLaid DEF H!Sound, H!SoundBut, Holds
<1>2. BlocksOf(m, i) = s
  <2>1. StartOf(m, i) = p
    BY <1>1, ChunkReads
  <2>2. QED
    BY <2>1 DEF BlocksOf
<1>3. /\ W \subseteq DOMAIN m.mem /\ IsFiniteSet(DOMAIN m.mem) /\ W \subseteq Nat \ {NULL}
      /\ DOMAIN next = DOMAIN m.mem
  <2>1. ASSUME NEW b \in W PROVE b \in DOMAIN m.mem /\ b \in Nat \ {NULL}
    <3>1. b \in H!Blocks(h)
      BY DEF BlocksIn
    <3>2. /\ b \in Nat \ {0} /\ b % 8 = 0 /\ H!EndOf(h, b) = b + h.block[b].size
          /\ h.block[b].size \in Nat /\ h.block[b].size >= 32
      BY <1>1, <3>1, LaidBlock
    <3>3. b <= b /\ b < H!EndOf(h, b)
      BY <3>2
    <3>4. QED
      BY <1>1, <3>1, <3>2, <3>3, BlockWords DEF NULL
  <2>2. QED
    BY <1>1, <2>1, BlockWords
<1>4. IsFiniteSet(W) /\ limit \in Nat /\ Cardinality(W) <= limit
  <2>. HIDE DEF W
  <2>1. QED
    BY <1>3, FS_Subset, FS_CardinalityType
<1>5. ASSUME NEW b \in W
      PROVE  /\ H!EndOf(h, b) = end => next[b] = NULL
             /\ H!EndOf(h, b) # end =>
                  next[b] = H!EndOf(h, b) /\ next[b] \in W /\ b < next[b] /\ next[b] # NULL
  <2>1. LET nx == IF get_next_block(m, b) < EndOfChunk(m, i) THEN get_next_block(m, b) ELSE NULL
        IN  /\ H!EndOf(h, b) = h.ch_array[i].end => nx = NULL
            /\ H!EndOf(h, b) # h.ch_array[i].end =>
                 nx = H!EndOf(h, b) /\ nx \in BlocksIn(h, i) /\ b < nx /\ nx # NULL
    BY TurnAlike
  <2>2. next[b] = IF get_next_block(m, b) < EndOfChunk(m, i) THEN get_next_block(m, b) ELSE NULL
    BY <1>3
  <2>. HIDE DEF next
  <2>3. QED
    BY <2>1, <2>2
<1>6. p \in W
  BY <1>1, LaidChunk DEF BlocksIn
<1>7. ASSUME NEW b \in W \ {p} PROVE \E a \in W : next[a] = b
  <2>1. b \in H!Blocks(h) /\ h.block[b].index = i
    BY DEF BlocksIn
  <2>2. PICK a \in H!Blocks(h) : H!EndOf(h, a) = b /\ h.block[a].index = i
    BY <1>1, <2>1 DEF H!Tiled, H!InChunk
  <2>3. a \in W
    BY <2>2 DEF BlocksIn
  <2>4. b # end
    <3>1. /\ H!EndOf(h, b) = b + h.block[b].size /\ b \in Nat
          /\ h.block[b].size \in Nat /\ h.block[b].size >= 32
          /\ H!EndOf(h, b) <= h.ch_array[h.block[b].index].end
      BY <1>1, <2>1, LaidBlock
    <3>2. QED
      BY <2>1, <3>1
  <2>. HIDE DEF W, next, end
  <2>5. QED
    BY <1>5, <2>2, <2>3, <2>4
<1>8. \A b \in W : next[b] = NULL \/ (next[b] \in W /\ b < next[b])
  <2>. HIDE DEF W, next, end
  <2>1. QED
    BY <1>5
<1>9. /\ s \in Seq(W) /\ s # << >>
      /\ Path(next, p, W, s) /\ Elements(s) = W
      /\ next[s[Len(s)]] = NULL
  <2>. HIDE DEF W, next, p, limit
  <2>1. LET t == Follow(next, p, limit)
        IN  /\ t \in Seq(W) /\ t # << >>
            /\ Path(next, p, W, t) /\ Elements(t) = W
            /\ \A j, k \in DOMAIN t : j < k => t[j] < t[k]
            /\ \A k \in DOMAIN t \ {1} : t[k - 1] < t[k]
            /\ next[t[Len(t)]] = NULL
    BY <1>3, <1>4, <1>6, <1>7, <1>8, FollowMeets
  <2>2. QED
    BY <2>1
<1>. HIDE DEF s, W, next
<1>10. s \in Seq(W) /\ Len(s) \in DOMAIN s /\ \A k \in DOMAIN s : s[k] \in W
  BY <1>9
<1>11. H!EndOf(h, s[Len(s)]) = end
  BY <1>5, <1>9, <1>10
<1>12. ASSUME NEW k \in DOMAIN s \ {1}
       PROVE  k - 1 \in DOMAIN s /\ H!EndOf(h, s[k - 1]) = s[k]
  <2>1. k - 1 \in DOMAIN s /\ (k - 1) + 1 = k
    BY <1>10
  <2>2. s[k] = next[s[k - 1]]
    BY <1>9, <2>1 DEF Path
  <2>3. s[k] # NULL
    BY <1>3, <1>10
  <2>4. QED
    BY <1>5, <1>10, <2>1, <2>2, <2>3
<1>13. QED
  BY <1>2, <1>9, <1>10, <1>11, <1>12 DEF Walked, W

\* The walks through the chunks meet all blocks.
LEMMA BlocksMet ==
  ASSUME NEW h, H!Sound(h), H!Grid(h), NEW m, Holds(m, h)
  PROVE  UNION {Elements(BlocksOf(m, i)) : i \in ChunkIds(m)} = H!Blocks(h)
<1>1. Laid(h) /\ Mapped(m, h)
  BY SoundLaid DEF H!Sound, Holds
<1>2. ChunkIds(m) = H!ChunkIds(h)
  BY <1>1, ChunkReads
<1>3. \A i \in H!ChunkIds(h) : Elements(BlocksOf(m, i)) = BlocksIn(h, i)
  BY WalkAlike DEF Walked
<1>4. \A b \in H!Blocks(h) : h.block[b].index \in H!ChunkIds(h)
  BY <1>1, LaidBlock
<1>5. QED
  BY <1>2, <1>3, <1>4 DEF BlocksIn

\* A pointer handed out lies in its block.
LEMMA BlockFound ==
  ASSUME NEW h, H!Sound(h), H!Grid(h), NEW m, Holds(m, h), NEW b \in H!Blocks(h)
  PROVE  find_block(m, b + kMetadataSize) = {b}
<1>1. Laid(h) /\ Headers(m, h)
  BY SoundLaid DEF H!Sound, Holds
<1>2. find_block(m, b + 16) = {x \in H!Blocks(h) : x <= b + 16 /\ b + 16 < x + get_size(m, x)}
  BY BlocksMet DEF find_block
<1>3. \A x \in H!Blocks(h) :
        /\ x \in Nat /\ h.block[x].size \in Nat /\ h.block[x].size >= 32
        /\ H!EndOf(h, x) = x + h.block[x].size /\ x + get_size(m, x) = H!EndOf(h, x)
  BY <1>1, LaidBlock, Reads DEF Headers, Read
<1>4. \A x \in H!Blocks(h) : x = b \/ H!EndOf(h, x) <= b \/ H!EndOf(h, b) <= x
  BY <1>1, Apart
<1>5. ASSUME NEW x \in H!Blocks(h)
      PROVE  x <= b + 16 /\ b + 16 < x + get_size(m, x) <=> x = b
  BY <1>3, <1>4
<1>6. QED
  BY <1>2, <1>5, Names

\* Before the first call the memory holds a heap without a chunk.
LEMMA InitCollected ==
  Collected(InitMemory, H!InitHeap, << >>) /\ H!Allocated(H!InitHeap) = {} /\ InitMemory.fault = "none"
<1>. DEFINE m == InitMemory
            h == H!InitHeap
<1>1. H!Sound(h) /\ H!Blocks(h) = {} /\ H!ChunkIds(h) = {} /\ H!Grid(h)
  BY H!InitHeapSound, H!GridInit, HeapAssumptions
<1>2. DOMAIN m.mem = {} /\ m.index_last_chunk_from_OS = -1 /\ m.alloc_block_end = 0
  BY DEF InitMemory, first_index, NULL
<1>3. MemType(m)
  BY <1>2 DEF MemType, InitMemory
<1>4. Mapped(m, h)
  <2>1. h.index_last_chunk_from_OS = -1 /\ DOMAIN h.corr_size_arr = {}
    BY DEF H!InitHeap, H!first_index
  <2>2. m.ch_array = [i \in H!ChunkIds(h) |-> h.ch_array[i].base]
    BY <1>1 DEF InitMemory
  <2>3. m.corr_size_arr = h.corr_size_arr
    BY DEF InitMemory, H!InitHeap
  <2>4. QED
    BY <1>1, <1>2, <1>3, <2>1, <2>2, <2>3 DEF Mapped
<1>5. Headers(m, h)
  BY <1>1 DEF Headers
<1>6. \A k : Spells(k, 0, << >>)
  BY DEF Spells, NULL
<1>7. ListsHeld(m, h)
  BY <1>6 DEF ListsHeld, InitMemory, H!InitHeap, NULL
<1>8. H!Allocated(h) = {} /\ Elements(<< >>) = {}
  BY <1>1 DEF H!Allocated, Elements
<1>9. InitMemory.fault = "none"
  BY DEF InitMemory
<1>10. QED
  BY <1>1, <1>2, <1>4, <1>5, <1>6, <1>7, <1>8, <1>9 DEF Collected, Holds
=============================================================================
