---------------------------- MODULE RawListProofs ----------------------------
(***************************************************************************)
(* The memory of src/mymalloc-raw.c: where its blocks and chunks are, what *)
(* a write of a field leaves alone, how its lists in order of address      *)
(* change, and why unlinking, linking, joining and splitting blocks and    *)
(* laying out a chunk from the OS keep the memory sound. No function ever  *)
(* writes anything but words in it, whatever goes wrong.                   *)
(***************************************************************************)
EXTENDS RawMalloc, RawInvariant, WalkProofs, FiniteSetTheorems, TLAPS

-----------------------------------------------------------------------------
(* Words *)

\* A word holds 0, a fencepost in either half, and every address and size.
LEMMA WordFacts ==
  /\ 0 \in Words /\ FENCEPOST \in Words /\ FENCEPOST * HalfWord \in Words
  /\ \A n \in 0 .. MmapTop : n \in Words
  /\ Words \subseteq Nat
<1>. DEFINE W == HalfWord * HalfWord
<1>1. HalfWord \in Nat /\ HalfWord >= 1 /\ FENCEPOST \in Nat /\ FENCEPOST <= HalfWord - 1
  BY WordAssumption
<1>2. W \in Nat /\ W >= HalfWord /\ FENCEPOST * HalfWord \in Nat
  BY <1>1
<1>3. FENCEPOST * HalfWord <= W - 1
  BY <1>1
<1>4. MmapTop \in Nat /\ MmapTop < W
  BY WordAssumption
<1>. HIDE DEF W
<1>5. Words = 0 .. W - 1
  BY DEF Words, W
<1>6. QED
  BY <1>1, <1>2, <1>3, <1>4, <1>5

\* Arithmetic wraps to a word, and leaves a word as it is.
LEMMA WrapFacts ==
  ASSUME NEW n \in Int
  PROVE  Wrap(n) \in Words /\ (n \in Words => Wrap(n) = n)
<1>. DEFINE W == HalfWord * HalfWord
<1>1. W \in Nat /\ W > 0
  BY WordAssumption
<1>2. Words = 0 .. W - 1 /\ Wrap(n) = n % W
  BY DEF Words, Wrap
<1>. HIDE DEF W
<1>3. QED
  BY <1>1, <1>2

\* What is below a word is a word.
LEMMA WordBelow ==
  ASSUME NEW w \in Words, NEW k \in Nat, k <= w
  PROVE  k \in Words
<1>. DEFINE W == HalfWord * HalfWord
<1>1. W \in Nat
  BY WordAssumption
<1>2. Words = 0 .. W - 1
  BY DEF Words
<1>. HIDE DEF W
<1>3. QED
  BY <1>1, <1>2

\* What is read is a word.
LEMMA GetType ==
  ASSUME NEW h, HeapType(h), NEW p, NEW f
  PROVE  Get(h, p, f) \in Words
BY WordFacts DEF Get, HeapType

\* And a number.
LEMMA GetNat ==
  ASSUME NEW h, HeapType(h), NEW p, NEW f
  PROVE  Get(h, p, f) \in Nat
<1>1. Get(h, p, f) \in Words
  BY GetType
<1>2. QED
  BY <1>1, WordFacts

-----------------------------------------------------------------------------
(* Writing a field *)

\* g is h but for the values of words.
Frame(h, g) ==
  /\ HeapType(g)
  /\ g.first_map = h.first_map /\ g.maps = h.maps /\ g.fault = h.fault
  /\ DOMAIN g.mem = DOMAIN h.mem

\* A write inside of the memory changes one word.
LEMMA SetWrites ==
  ASSUME NEW h, HeapType(h), NEW p, NEW f, p + f \in DOMAIN h.mem, NEW v \in Words
  PROVE  /\ Frame(h, Set(h, p, f, v))
         /\ \A q, k : Get(Set(h, p, f, v), q, k) = IF q + k = p + f THEN v ELSE Get(h, q, k)
<1>. DEFINE g == Set(h, p, f, v)
<1>1. g = [h EXCEPT !.mem[p + f] = v]
  BY DEF Set
<1>2. g.mem = [h.mem EXCEPT ![p + f] = v]
  BY <1>1 DEF HeapType
<1>3. g = [first_map |-> h.first_map, mem |-> g.mem, maps |-> h.maps, fault |-> h.fault]
  BY <1>1 DEF HeapType
<1>4. h.mem \in [DOMAIN h.mem -> Words]
  BY DEF HeapType
<1>. HIDE DEF g
<1>5. g.mem \in [DOMAIN h.mem -> Words] /\ DOMAIN g.mem = DOMAIN h.mem
  BY <1>2, <1>4
<1>6. Frame(h, g)
  BY <1>3, <1>5 DEF Frame, HeapType
<1>7. ASSUME NEW q, NEW k PROVE Get(g, q, k) = IF q + k = p + f THEN v ELSE Get(h, q, k)
  BY <1>2, <1>4, <1>5 DEF Get
<1>8. QED
  BY <1>6, <1>7 DEF g

\* A write anywhere keeps the types.
LEMMA SetType ==
  ASSUME NEW h, HeapType(h), NEW p, NEW f, NEW v \in Words
  PROVE  HeapType(Set(h, p, f, v)) /\ HeapType(SetIf(h, p, f, v))
<1>1. CASE p + f \in DOMAIN h.mem
  BY <1>1, SetWrites DEF Frame, SetIf
<1>2. CASE p + f \notin DOMAIN h.mem
  <2>1. Set(h, p, f, v) = [h EXCEPT !.fault = "wild"]
    BY <1>2 DEF Set
  <2>2. HeapType(Set(h, p, f, v))
    BY <2>1 DEF HeapType
  <2>3. QED
    BY <2>2 DEF SetIf
<1>3. QED
  BY <1>1, <1>2

BlockFields == {SIZE, NEXT, PREV}
ChunkFields == {NEXT, PREV, FREE, ALLOC, CHUNK_SIZE}

\* The headers of the chunks C and of the blocks B lie in the memory, apart.
Slots(h, C, B) ==
  /\ C \subseteq Words \ {NULL} /\ B \subseteq Words \ {NULL}
  /\ \A b \in B : {b, b + 8, b + 16} \subseteq DOMAIN h.mem
  /\ \A c \in C : {c, c + 8, c + 16, c + 24, c + 32, c + 40} \subseteq DOMAIN h.mem
  /\ \A a, b \in B : a < b => a + 24 <= b
  /\ \A c, d \in C : c < d => c + 48 <= d
  /\ \A c \in C, b \in B : c + 48 <= b \/ b + 24 <= c

\* The fields of a header.
LEMMA FieldNames ==
  /\ SIZE \in BlockFields /\ NEXT \in BlockFields /\ PREV \in BlockFields
  /\ FREE \in {FREE, ALLOC} /\ ALLOC \in {FREE, ALLOC}
BY DEF BlockFields

\* Blocks are neither chunks nor NULL.
LEMMA SlotsApart ==
  ASSUME NEW h, NEW C, NEW B, Slots(h, C, B)
  PROVE  NULL \notin C /\ NULL \notin B /\ \A x \in B : x # NULL /\ x \notin C
<1>1. ASSUME NEW x \in B, x \in C PROVE FALSE
  <2>1. x + 48 <= x \/ x + 24 <= x
    BY <1>1 DEF Slots
  <2>2. x \in Words
    BY DEF Slots
  <2>3. x \in Nat
    BY <2>2, WordFacts
  <2>4. QED
    BY <2>1, <2>3
<1>2. NULL \notin C /\ NULL \notin B
  BY DEF Slots
<1>3. QED
  BY <1>1, <1>2

\* g is h with the field f of x set to v, as far as the headers tell.
Writes(h, g, C, B, x, f, v) ==
  /\ Frame(h, g)
  /\ \A b \in B : \A k \in BlockFields :
       Get(g, b, k) = IF b = x /\ k = f THEN v ELSE Get(h, b, k)
  /\ \A c \in C : \A k \in ChunkFields :
       Get(g, c, k) = IF c = x /\ k = f THEN v ELSE Get(h, c, k)

\* A field of a block is written alone.
LEMMA BlockWrite ==
  ASSUME NEW h, HeapType(h), NEW C, NEW B, Slots(h, C, B),
         NEW b \in B, NEW f \in BlockFields, NEW v \in Words
  PROVE  Set(h, b, f, v) = SetIf(h, b, f, v) /\ Writes(h, SetIf(h, b, f, v), C, B, b, f, v)
<1>. DEFINE g == Set(h, b, f, v)
<1>1. b + f \in DOMAIN h.mem /\ b \in Nat /\ b # NULL
  BY WordFacts DEF Slots, BlockFields, SIZE, NEXT, PREV
<1>2. Frame(h, g) /\ \A q, k : Get(g, q, k) = IF q + k = b + f THEN v ELSE Get(h, q, k)
  BY <1>1, SetWrites
<1>3. SetIf(h, b, f, v) = g
  BY <1>1 DEF SetIf
<1>. HIDE DEF g
<1>4. ASSUME NEW x \in B, NEW k \in BlockFields
      PROVE  Get(g, x, k) = IF x = b /\ k = f THEN v ELSE Get(h, x, k)
  <2>1. x \in Nat /\ (x < b => x + 24 <= b) /\ (b < x => b + 24 <= x)
    BY WordFacts DEF Slots
  <2>2. x + k = b + f <=> x = b /\ k = f
    BY <1>1, <2>1 DEF BlockFields, SIZE, NEXT, PREV
  <2>3. QED
    BY <1>2, <2>2
<1>5. ASSUME NEW c \in C, NEW k \in ChunkFields
      PROVE  Get(g, c, k) = IF c = b /\ k = f THEN v ELSE Get(h, c, k)
  <2>1. c \in Nat /\ (c + 48 <= b \/ b + 24 <= c)
    BY WordFacts DEF Slots
  <2>2. c + k # b + f /\ c # b
    BY <1>1, <2>1 DEF BlockFields, ChunkFields, SIZE, NEXT, PREV, FREE, ALLOC, CHUNK_SIZE
  <2>3. QED
    BY <1>2, <2>2
<1>6. QED
  BY <1>2, <1>3, <1>4, <1>5 DEF Writes, g

\* A field of a chunk is written alone.
LEMMA ChunkWrite ==
  ASSUME NEW h, HeapType(h), NEW C, NEW B, Slots(h, C, B),
         NEW c \in C, NEW f \in ChunkFields, NEW v \in Words
  PROVE  Set(h, c, f, v) = SetIf(h, c, f, v) /\ Writes(h, SetIf(h, c, f, v), C, B, c, f, v)
<1>. DEFINE g == Set(h, c, f, v)
<1>1. c + f \in DOMAIN h.mem /\ c \in Nat /\ c # NULL
  BY WordFacts DEF Slots, ChunkFields, NEXT, PREV, FREE, ALLOC, CHUNK_SIZE
<1>2. Frame(h, g) /\ \A q, k : Get(g, q, k) = IF q + k = c + f THEN v ELSE Get(h, q, k)
  BY <1>1, SetWrites
<1>3. SetIf(h, c, f, v) = g
  BY <1>1 DEF SetIf
<1>. HIDE DEF g
<1>4. ASSUME NEW b \in B, NEW k \in BlockFields
      PROVE  Get(g, b, k) = IF b = c /\ k = f THEN v ELSE Get(h, b, k)
  <2>1. b \in Nat /\ (c + 48 <= b \/ b + 24 <= c)
    BY WordFacts DEF Slots
  <2>2. b + k # c + f /\ c # b
    BY <1>1, <2>1 DEF BlockFields, ChunkFields, SIZE, NEXT, PREV, FREE, ALLOC, CHUNK_SIZE
  <2>3. QED
    BY <1>2, <2>2
<1>5. ASSUME NEW d \in C, NEW k \in ChunkFields
      PROVE  Get(g, d, k) = IF d = c /\ k = f THEN v ELSE Get(h, d, k)
  <2>1. d \in Nat /\ (d < c => d + 48 <= c) /\ (c < d => c + 48 <= d)
    BY WordFacts DEF Slots
  <2>2. d + k = c + f <=> d = c /\ k = f
    BY <1>1, <2>1 DEF ChunkFields, NEXT, PREV, FREE, ALLOC, CHUNK_SIZE
  <2>3. QED
    BY <1>2, <2>2
<1>6. QED
  BY <1>2, <1>3, <1>4, <1>5 DEF Writes, g

\* Writing through NULL is skipped, and no header is at NULL.
LEMMA NullWrite ==
  ASSUME NEW h, HeapType(h), NEW C, NEW B, Slots(h, C, B), NEW f, NEW v
  PROVE  Writes(h, SetIf(h, NULL, f, v), C, B, NULL, f, v)
BY DEF SetIf, Writes, Frame, Slots

\* The headers stay where they are.
LEMMA SlotsKept ==
  ASSUME NEW h, NEW g, NEW C, NEW B, Slots(h, C, B), Frame(h, g)
  PROVE  Slots(g, C, B)
BY DEF Slots, Frame

-----------------------------------------------------------------------------
(* Lists in order of address *)

\* There is one first element above b.
LEMMA AfterUnique ==
  ASSUME NEW S, S \subseteq Nat \ {NULL}, NEW b \in Nat,
         NEW n, NEW k, After(S, b, n), After(S, b, k)
  PROVE  n = k
<1>1. \A x \in S : x \in Nat /\ x # NULL
  OBVIOUS
<1>2. ASSUME NEW x \in S, NEW y \in S, After(S, b, x), After(S, b, y) PROVE x = y
  <2>1. b < x /\ b < y /\ (y <= b \/ x <= y) /\ (x <= b \/ y <= x)
    BY <1>1, <1>2 DEF After
  <2>2. QED
    BY <1>1, <2>1
<1>3. ASSUME NEW x \in S, After(S, b, x), After(S, b, NULL) PROVE FALSE
  <2>1. b < x /\ x <= b
    BY <1>1, <1>3 DEF After
  <2>2. QED
    BY <1>1, <2>1
<1>4. (n \in S \/ n = NULL) /\ (k \in S \/ k = NULL)
  BY DEF After
<1>5. QED
  BY <1>2, <1>3, <1>4

\* The element before b is the one that b comes after.
LEMMA NextIsAfter ==
  ASSUME NEW h, NEW S, S \subseteq Nat \ {NULL}, Linked(h, S), NEW a \in S, NEW b \in S
  PROVE  Get(h, a, NEXT) = b <=> Get(h, b, PREV) = a
<1>. DEFINE n == Get(h, a, NEXT)
            p == Get(h, b, PREV)
<1>1. \A x \in S : x \in Nat /\ x # NULL
  OBVIOUS
<1>2. After(S, a, n) /\ Before(S, b, p)
  BY DEF Linked
<1>. HIDE DEF n, p
<1>3. ASSUME n = b PROVE p = a
  <2>1. a < b /\ \A x \in S : x <= a \/ b <= x
    BY <1>1, <1>2, <1>3 DEF After
  <2>2. p # NULL
    <3>1. ASSUME p = NULL PROVE FALSE
      <4>1. b <= a
        BY <1>1, <1>2, <3>1 DEF Before
      <4>2. QED
        BY <1>1, <2>1, <4>1
    <3>2. QED
      BY <3>1
  <2>3. p \in S /\ p < b /\ (a <= p \/ b <= a) /\ (p <= a \/ b <= p)
    BY <1>2, <2>1, <2>2 DEF Before
  <2>4. QED
    BY <1>1, <2>1, <2>3
<1>4. ASSUME p = a PROVE n = b
  <2>1. a < b /\ \A x \in S : x <= a \/ b <= x
    BY <1>1, <1>2, <1>4 DEF Before
  <2>2. n # NULL
    <3>1. ASSUME n = NULL PROVE FALSE
      <4>1. b <= a
        BY <1>1, <1>2, <3>1 DEF After
      <4>2. QED
        BY <1>1, <2>1, <4>1
    <3>2. QED
      BY <3>1
  <2>3. n \in S /\ a < n /\ (b <= a \/ n <= b) /\ (n <= a \/ b <= n)
    BY <1>2, <2>1, <2>2 DEF After
  <2>4. QED
    BY <1>1, <2>1, <2>3
<1>5. QED
  BY <1>3, <1>4 DEF n, p

\* g is h with b taken out between its neighbours in S.
CutOut(h, g, S, b) ==
  \A x \in S \ {b} :
    /\ Get(g, x, NEXT) = IF x = Get(h, b, PREV) THEN Get(h, b, NEXT) ELSE Get(h, x, NEXT)
    /\ Get(g, x, PREV) = IF x = Get(h, b, NEXT) THEN Get(h, b, PREV) ELSE Get(h, x, PREV)

\* Without b, what was before b comes before what was after b.
LEMMA CutOrder ==
  ASSUME NEW S, S \subseteq Nat \ {NULL}, NEW b \in S,
         NEW p, NEW n, Before(S, b, p), After(S, b, n)
  PROVE  /\ p # NULL => After(S \ {b}, p, n)
         /\ n # NULL => Before(S \ {b}, n, p)
         /\ p = NULL => After(S \ {b}, NULL, n)
<1>1. \A x \in S : x \in Nat /\ x # NULL
  OBVIOUS
<1>2. b \in Nat
  BY <1>1
<1>3. ASSUME p # NULL PROVE After(S \ {b}, p, n)
  <2>1. p \in S \ {b} /\ p < b /\ \A x \in S \ {b} : x <= p \/ b < x
    BY <1>1, <1>2, <1>3 DEF Before
  <2>2. CASE n = NULL
    <3>1. \A x \in S \ {b} : x <= b
      BY <1>1, <1>2, <2>2 DEF After
    <3>2. \A x \in S \ {b} : x <= p
      BY <1>1, <1>2, <2>1, <3>1
    <3>3. QED
      BY <2>2, <3>2 DEF After
  <2>3. CASE n # NULL
    <3>1. n \in S \ {b} /\ b < n /\ \A x \in S : x <= b \/ n <= x
      BY <1>1, <1>2, <2>3 DEF After
    <3>2. p < n /\ \A x \in S \ {b} : x <= p \/ n <= x
      BY <1>1, <1>2, <2>1, <3>1
    <3>3. QED
      BY <3>1, <3>2 DEF After
  <2>4. QED
    BY <2>2, <2>3
<1>4. ASSUME n # NULL PROVE Before(S \ {b}, n, p)
  <2>1. n \in S \ {b} /\ b < n /\ \A x \in S \ {b} : x < b \/ n <= x
    BY <1>1, <1>2, <1>4 DEF After
  <2>2. CASE p = NULL
    <3>1. \A x \in S \ {b} : b <= x
      BY <1>1, <1>2, <2>2 DEF Before
    <3>2. \A x \in S \ {b} : n <= x
      BY <1>1, <1>2, <2>1, <3>1
    <3>3. QED
      BY <2>2, <3>2 DEF Before
  <2>3. CASE p # NULL
    <3>1. p \in S \ {b} /\ p < b /\ \A x \in S : x <= p \/ b <= x
      BY <1>1, <1>2, <2>3 DEF Before
    <3>2. p < n /\ \A x \in S \ {b} : x <= p \/ n <= x
      BY <1>1, <1>2, <2>1, <3>1
    <3>3. QED
      BY <3>1, <3>2 DEF Before
  <2>4. QED
    BY <2>2, <2>3
<1>5. ASSUME p = NULL PROVE After(S \ {b}, NULL, n)
  <2>1. \A x \in S \ {b} : b < x
    <3>1. ASSUME NEW x \in S, x # b PROVE b < x
      <4>1. b <= x
        BY <1>1, <1>5 DEF Before
      <4>2. QED
        BY <1>1, <1>2, <3>1, <4>1
    <3>2. QED
      BY <3>1
  <2>2. CASE n = NULL
    <3>1. \A x \in S \ {b} : x <= b
      BY <1>1, <1>2, <2>2 DEF After
    <3>2. S \ {b} = {}
      BY <1>1, <1>2, <2>1, <3>1
    <3>3. QED
      BY <2>2, <3>2 DEF After
  <2>3. CASE n # NULL
    <3>1. n \in S \ {b} /\ b < n /\ \A x \in S : x <= b \/ n <= x
      BY <1>1, <1>2, <2>3 DEF After
    <3>2. NULL < n /\ \A x \in S \ {b} : n <= x
      BY <1>1, <1>2, <2>1, <3>1 DEF NULL
    <3>3. QED
      BY <3>1, <3>2 DEF After
  <2>4. QED
    BY <2>2, <2>3
<1>6. QED
  BY <1>3, <1>4, <1>5

\* Taking an element out keeps the others linked.
LEMMA CutLinked ==
  ASSUME NEW h, NEW g, NEW S, S \subseteq Nat \ {NULL}, Linked(h, S), NEW b \in S,
         CutOut(h, g, S, b)
  PROVE  Linked(g, S \ {b})
<1>. DEFINE p == Get(h, b, PREV)
            n == Get(h, b, NEXT)
<1>1. Before(S, b, p) /\ After(S, b, n)
  BY DEF Linked
<1>2. \A x \in S : x \in Nat /\ x # NULL
  OBVIOUS
<1>. HIDE DEF p, n
<1>0. \A x, y \in S : Get(h, x, NEXT) = y <=> Get(h, y, PREV) = x
  BY NextIsAfter
<1>3. ASSUME NEW x \in S \ {b} PROVE After(S \ {b}, x, Get(g, x, NEXT))
  <2>1. CASE x = p
    <3>1. Get(g, x, NEXT) = n
      BY <2>1 DEF CutOut, p, n
    <3>2. QED
      BY <1>1, <1>2, <2>1, <3>1, CutOrder
  <2>2. CASE x # p
    <3>1. Get(g, x, NEXT) = Get(h, x, NEXT)
      BY <2>2 DEF CutOut, p
    <3>2. Get(h, x, NEXT) # b
      <4>1. x \in S /\ x # b
        OBVIOUS
      <4>2. Get(h, x, NEXT) = b <=> Get(h, b, PREV) = x
        BY <4>1, <1>0
      <4>3. QED
        BY <2>2, <4>2 DEF p, n
    <3>3. After(S, x, Get(h, x, NEXT))
      BY DEF Linked
    <3>4. QED
      BY <3>1, <3>2, <3>3 DEF After
  <2>3. QED
    BY <2>1, <2>2
<1>4. ASSUME NEW x \in S \ {b} PROVE Before(S \ {b}, x, Get(g, x, PREV))
  <2>1. CASE x = n
    <3>1. Get(g, x, PREV) = p
      BY <2>1 DEF CutOut, p, n
    <3>2. QED
      BY <1>1, <1>2, <2>1, <3>1, CutOrder
  <2>2. CASE x # n
    <3>1. Get(g, x, PREV) = Get(h, x, PREV)
      BY <2>2 DEF CutOut, n
    <3>2. Get(h, x, PREV) # b
      <4>1. x \in S /\ x # b
        OBVIOUS
      <4>2. Get(h, b, NEXT) = x <=> Get(h, x, PREV) = b
        BY <4>1, <1>0
      <4>3. QED
        BY <2>2, <4>2 DEF p, n
    <3>3. Before(S, x, Get(h, x, PREV))
      BY DEF Linked
    <3>4. QED
      BY <3>1, <3>2, <3>3 DEF Before
  <2>3. QED
    BY <2>1, <2>2
<1>5. QED
  BY <1>3, <1>4 DEF Linked

\* The head of a list an element is taken out of.
LEMMA CutHead ==
  ASSUME NEW h, NEW S, S \subseteq Nat \ {NULL}, Linked(h, S), NEW b \in S,
         NEW first, After(S, NULL, first)
  PROVE  After(S \ {b}, NULL, IF Get(h, b, PREV) = NULL THEN Get(h, b, NEXT) ELSE first)
<1>. DEFINE p == Get(h, b, PREV)
            n == Get(h, b, NEXT)
<1>1. Before(S, b, p) /\ After(S, b, n)
  BY DEF Linked
<1>. HIDE DEF p, n
<1>2. \A x \in S : x \in Nat /\ x # NULL
  OBVIOUS
<1>3. CASE p = NULL
  BY <1>1, <1>3, CutOrder DEF p, n
<1>4. CASE p # NULL
  <2>1. p \in S /\ p < b
    BY <1>1, <1>4 DEF Before
  <2>2. first # NULL
    BY <1>2 DEF After, NULL
  <2>3. first \in S /\ \A x \in S : first <= x
    BY <1>2, <2>2 DEF After, NULL
  <2>4. first # b
    BY <1>2, <2>1, <2>3
  <2>5. After(S \ {b}, NULL, first)
    BY <1>2, <2>3, <2>4 DEF After, NULL
  <2>6. QED
    BY <1>4, <2>5 DEF p, n
<1>5. QED
  BY <1>3, <1>4

\* g is h with b put in between p and n.
PutIn(h, g, S, b, p, n) ==
  /\ Get(g, b, NEXT) = n /\ Get(g, b, PREV) = p
  /\ \A x \in S :
       /\ Get(g, x, NEXT) = IF x = p THEN b ELSE Get(h, x, NEXT)
       /\ Get(g, x, PREV) = IF x = n THEN b ELSE Get(h, x, PREV)

\* Putting an element in where it belongs keeps all linked.
LEMMA PutLinked ==
  ASSUME NEW h, NEW g, NEW S, S \subseteq Nat \ {NULL}, Linked(h, S),
         NEW b \in Nat \ {NULL}, b \notin S,
         NEW p, NEW n, Before(S, b, p), After(S, b, n), PutIn(h, g, S, b, p, n)
  PROVE  Linked(g, S \cup {b})
<1>0. b \in Nat /\ \A x \in S : x \in Nat /\ x # NULL /\ x # b
  OBVIOUS
<1>1. ASSUME NEW x \in S PROVE After(S \cup {b}, x, Get(g, x, NEXT))
  <2>1. After(S, x, Get(h, x, NEXT))
    BY DEF Linked
  <2>2. CASE x = p
    <3>1. Get(g, x, NEXT) = b
      BY <2>2 DEF PutIn
    <3>2. x < b /\ \A y \in S : y <= x \/ b <= y
      BY <1>0, <2>2 DEF Before
    <3>3. QED
      BY <3>1, <3>2 DEF After
  <2>3. CASE x # p
    <3>. DEFINE k == Get(h, x, NEXT)
    <3>1. Get(g, x, NEXT) = k
      BY <2>3 DEF PutIn
    <3>. HIDE DEF k
    <3>2. b < x \/ (p \in S /\ x < p /\ p < b)
      <4>1. p = NULL => b <= x
        BY DEF Before
      <4>2. p # NULL => p \in S /\ p < b /\ (x <= p \/ b <= x)
        BY DEF Before
      <4>3. p = NULL => b < x
        BY <1>0, <4>1
      <4>4. ASSUME p # NULL PROVE b < x \/ (p \in S /\ x < p /\ p < b)
        <5>1. p \in Nat /\ x \in Nat /\ x # b
          BY <1>0, <4>2, <4>4
        <5>2. QED
          BY <1>0, <2>3, <4>2, <4>4, <5>1
      <4>5. QED
        BY <4>3, <4>4
    <3>3. k = NULL \/ k \in S
      BY <2>1 DEF After, k
    <3>4. b <= x \/ (k \in S /\ k <= b)
      <4>1. ASSUME p \in S, x < p, p < b PROVE k \in S /\ k <= b
        <5>1. k # NULL
          <6>1. k = NULL => p <= x
            BY <1>0, <2>1, <4>1 DEF After, k
          <6>2. QED
            BY <1>0, <4>1, <6>1
        <5>2. k \in S /\ (p <= x \/ k <= p)
          BY <2>1, <4>1, <5>1 DEF After, k
        <5>3. QED
          BY <1>0, <4>1, <5>2
      <4>2. QED
        BY <1>0, <3>2, <4>1
    <3>5. QED
      BY <1>0, <2>1, <3>1, <3>3, <3>4 DEF After, k
  <2>4. QED
    BY <2>2, <2>3
<1>2. ASSUME NEW x \in S PROVE Before(S \cup {b}, x, Get(g, x, PREV))
  <2>1. Before(S, x, Get(h, x, PREV))
    BY DEF Linked
  <2>2. CASE x = n
    <3>1. Get(g, x, PREV) = b
      BY <2>2 DEF PutIn
    <3>2. b < x /\ \A y \in S : y <= b \/ x <= y
      BY <1>0, <2>2 DEF After
    <3>3. QED
      BY <3>1, <3>2 DEF Before
  <2>3. CASE x # n
    <3>. DEFINE k == Get(h, x, PREV)
    <3>1. Get(g, x, PREV) = k
      BY <2>3 DEF PutIn
    <3>. HIDE DEF k
    <3>2. x < b \/ (n \in S /\ n < x /\ b < n)
      <4>1. n = NULL => x <= b
        BY DEF After
      <4>2. n # NULL => n \in S /\ b < n /\ (x <= b \/ n <= x)
        BY DEF After
      <4>3. n = NULL => x < b
        BY <1>0, <4>1
      <4>4. ASSUME n # NULL PROVE x < b \/ (n \in S /\ n < x /\ b < n)
        <5>1. n \in Nat /\ x \in Nat /\ x # b
          BY <1>0, <4>2, <4>4
        <5>2. QED
          BY <1>0, <2>3, <4>2, <4>4, <5>1
      <4>5. QED
        BY <4>3, <4>4
    <3>3. k = NULL \/ k \in S
      BY <2>1 DEF Before, k
    <3>4. x <= b \/ (k \in S /\ b <= k)
      <4>1. ASSUME n \in S, n < x, b < n PROVE k \in S /\ b <= k
        <5>1. k # NULL
          <6>1. k = NULL => x <= n
            BY <1>0, <2>1, <4>1 DEF Before, k
          <6>2. QED
            BY <1>0, <4>1, <6>1
        <5>2. k \in S /\ (n <= k \/ x <= n)
          BY <2>1, <4>1, <5>1 DEF Before, k
        <5>3. QED
          BY <1>0, <4>1, <5>2
      <4>2. QED
        BY <1>0, <3>2, <4>1
    <3>5. QED
      BY <1>0, <2>1, <3>1, <3>3, <3>4 DEF Before, k
  <2>4. QED
    BY <2>2, <2>3
<1>3. After(S \cup {b}, b, n) /\ Before(S \cup {b}, b, p)
  BY <1>0 DEF After, Before
<1>4. QED
  BY <1>1, <1>2, <1>3 DEF Linked, PutIn

\* The head of a list an element is put into.
LEMMA PutHead ==
  ASSUME NEW S, S \subseteq Nat \ {NULL}, NEW b \in Nat \ {NULL}, b \notin S,
         NEW p, Before(S, b, p), NEW first, After(S, NULL, first)
  PROVE  After(S \cup {b}, NULL, IF p = NULL THEN b ELSE first)
<1>0. b \in Nat /\ 0 < b /\ \A x \in S : x \in Nat /\ x # NULL /\ 0 < x
  BY DEF NULL
<1>1. CASE p = NULL
  BY <1>0, <1>1 DEF After, Before, NULL
<1>2. CASE p # NULL
  <2>1. p \in S /\ p < b
    BY <1>2 DEF Before
  <2>2. first \in S /\ \A x \in S : first <= x
    BY <1>0, <2>1 DEF After, NULL
  <2>3. QED
    BY <1>0, <1>2, <2>1, <2>2 DEF After, NULL
<1>3. QED
  BY <1>1, <1>2

\* A list that is not written to stays linked.
LEMMA LinkedKept ==
  ASSUME NEW h, NEW g, NEW S, Linked(h, S),
         \A x \in S : Get(g, x, NEXT) = Get(h, x, NEXT) /\ Get(g, x, PREV) = Get(h, x, PREV)
  PROVE  Linked(g, S)
BY DEF Linked

\* A loop along a list meets its elements, in order, and ends.
LEMMA ChainMeets ==
  ASSUME NEW h, HeapType(h), IsFiniteSet(DOMAIN h.mem),
         NEW S, S \subseteq DOMAIN h.mem, S \subseteq Nat \ {NULL}, Linked(h, S),
         NEW first, After(S, NULL, first)
  PROVE  LET s == Chain(h, first)
         IN  /\ s \in Seq(S) /\ Elements(s) = S
             /\ s = << >> <=> first = NULL
             /\ \A j, k \in DOMAIN s : j < k => s[j] < s[k]
             /\ \A k \in DOMAIN s : Get(h, s[k], PREV) = IF k = 1 THEN NULL ELSE s[k - 1]
             /\ first # NULL => s[1] = first /\ Get(h, s[Len(s)], NEXT) = NULL
<1>. DEFINE next == [x \in DOMAIN h.mem |-> Get(h, x, NEXT)]
            n    == Cardinality(DOMAIN h.mem)
            s    == Chain(h, first)
<1>1. s = Follow(next, first, n)
  BY DEF Chain
<1>2. /\ IsFiniteSet(S) /\ n \in Nat /\ Cardinality(S) <= n
      /\ DOMAIN next = DOMAIN h.mem /\ \A b \in S : next[b] = Get(h, b, NEXT)
  BY FS_Subset, FS_CardinalityType
<1>. HIDE DEF next, n, s
<1>3. CASE first = NULL
  <2>1. S = {}
    BY <1>3 DEF After, NULL
  <2>2. First(first) \in {<< >>} /\ \A t \in {<< >>} : Extend(next, t) \in {<< >>}
    BY <1>3 DEF First, Extend
  <2>3. s \in {<< >>}
    BY <1>1, <1>2, <2>2, FollowInduction
  <2>4. s = << >>
    BY <2>3
  <2>5. QED
    BY <1>3, <2>1, <2>4 DEF Elements, s
<1>4. CASE first # NULL
  <2>1. first \in S /\ \A x \in S : first <= x
    BY <1>4 DEF After, NULL
  <2>2. \A b \in S : next[b] = NULL \/ (next[b] \in S /\ b < next[b])
    BY <1>2 DEF Linked, After
  <2>3. ASSUME NEW b \in S \ {first} PROVE \E a \in S : next[a] = b
    <3>1. Get(h, b, PREV) # NULL
      BY <2>1 DEF Linked, Before
    <3>2. Get(h, b, PREV) \in S
      BY <3>1 DEF Linked, Before
    <3>3. QED
      BY <1>2, <3>2, NextIsAfter
  <2>4. /\ s \in Seq(S) /\ s # << >> /\ Path(next, first, S, s) /\ Elements(s) = S
        /\ \A j, k \in DOMAIN s : j < k => s[j] < s[k]
        /\ next[s[Len(s)]] = NULL
    BY <1>1, <1>2, <2>1, <2>2, <2>3, FollowMeets
  <2>5. s[1] = first /\ s[Len(s)] \in S /\ Len(s) \in Nat /\ DOMAIN s = 1 .. Len(s)
    BY <2>4 DEF Path
  <2>6. ASSUME NEW k \in DOMAIN s PROVE Get(h, s[k], PREV) = IF k = 1 THEN NULL ELSE s[k - 1]
    <3>1. CASE k = 1
      BY <2>1, <2>5, <3>1 DEF Linked, Before
    <3>2. CASE k # 1
      <4>1. k - 1 \in DOMAIN s /\ (k - 1) + 1 = k
        BY <2>5, <3>2
      <4>2. s[k] = next[s[k - 1]] /\ s[k - 1] \in S /\ s[k] \in S
        BY <2>4, <4>1 DEF Path
      <4>3. QED
        BY <1>2, <3>2, <4>2, NextIsAfter
    <3>3. QED
      BY <3>1, <3>2
  <2>7. QED
    BY <1>2, <1>4, <2>4, <2>5, <2>6 DEF s
<1>5. QED
  BY <1>3, <1>4

-----------------------------------------------------------------------------
(* Where blocks and chunks are *)

\* Addresses of a chunk.
LEMMA ChunkPlace ==
  ASSUME NEW h, HeapType(h), Mapping(h), NEW c \in DOMAIN h.maps
  PROVE  /\ c \in Nat /\ c > 0 /\ c % 8 = 0 /\ h.maps[c] \in Nat
         /\ Limit(h, c) \in Nat /\ Limit(h, c) % 8 = 0 /\ c + 80 <= Limit(h, c)
         /\ Limit(h, c) <= MmapTop /\ Limit(h, c) \in Words /\ c \in Words
         /\ \A f \in {0, 8, 16, 24, 32, 40} : c + f \in DOMAIN h.mem
<1>1. /\ c \in Nat /\ c > 0 /\ c % 8 = 0 /\ h.maps[c] \in Nat
      /\ Limit(h, c) % 8 = 0 /\ Limit(h, c) <= MmapTop
      /\ c + 80 <= Limit(h, c)
  BY DEF Mapping, kAlignment, SizeofChunk, kMetadataSize, kMinAllocationSize
<1>2. Limit(h, c) \in Nat
  BY <1>1 DEF Limit
<1>3. MmapTop \in Nat
  BY WordAssumption
<1>4. c \in Words /\ Limit(h, c) \in Words
  BY <1>1, <1>2, <1>3, WordFacts
<1>5. ASSUME NEW f \in {0, 8, 16, 24, 32, 40} PROVE c + f \in DOMAIN h.mem
  <2>1. f \in Nat /\ f % 8 = 0 /\ f <= 40
    OBVIOUS
  <2>2. (c + f) % 8 = 0
    BY <1>1, <2>1
  <2>3. c + f \in Nat /\ c <= c + f /\ c + f < Limit(h, c)
    BY <1>1, <1>2, <2>1
  <2>4. QED
    BY <2>2, <2>3 DEF Mapping, kAlignment
<1>6. QED
  BY <1>1, <1>2, <1>4, <1>5

\* A block of the chunk c lies in it, header and payload.
LEMMA BlockPlace ==
  ASSUME NEW h, HeapType(h), Mapping(h), NEW C, C \subseteq DOMAIN h.maps,
         NEW B, Tiled(h, C, B), NEW b \in B, NEW c \in C, BlockOf(h, B, c, b)
  PROVE  /\ b \in Nat /\ b > 0 /\ b \in Words /\ b % 8 = 0
         /\ Get(h, b, SIZE) \in Nat /\ Get(h, b, SIZE) >= 32 /\ EndOf(h, b) \in Nat
         /\ c + 48 <= b /\ b + 32 <= EndOf(h, b) /\ EndOf(h, b) <= Limit(h, c)
         /\ b < Limit(h, c) /\ EndOf(h, b) \in Words
         /\ \A f \in {0, 8, 16} : b + f \in DOMAIN h.mem
<1>1. /\ c \in Nat /\ c > 0 /\ Limit(h, c) \in Nat /\ Limit(h, c) <= MmapTop /\ MmapTop \in Nat
  BY ChunkPlace, WordAssumption
<1>2. Get(h, b, SIZE) \in Nat
  BY GetType, WordFacts
<1>3. b \in Nat /\ b % 8 = 0 /\ Get(h, b, SIZE) >= 32
  BY DEF Tiled, kAlignment, kMetadataSize, kMinAllocationSize
<1>4. c + 48 <= b /\ EndOf(h, b) <= Limit(h, c)
  BY DEF BlockOf, SizeofChunk
<1>5. EndOf(h, b) \in Nat /\ b + 32 <= EndOf(h, b)
  BY <1>2, <1>3 DEF EndOf
<1>6. b \in 0 .. MmapTop /\ EndOf(h, b) \in 0 .. MmapTop /\ b < Limit(h, c) /\ b > 0
  BY <1>1, <1>3, <1>4, <1>5
<1>7. b \in Words /\ EndOf(h, b) \in Words
  BY <1>6, WordFacts
<1>8. ASSUME NEW f \in {0, 8, 16} PROVE b + f \in DOMAIN h.mem
  <2>1. f \in Nat /\ f % 8 = 0 /\ f <= 16
    OBVIOUS
  <2>2. (b + f) % 8 = 0
    BY <1>3, <2>1
  <2>3. b + f \in Nat /\ c <= b + f /\ b + f < Limit(h, c)
    BY <1>1, <1>3, <1>4, <1>5, <2>1
  <2>4. QED
    BY <2>2, <2>3 DEF Mapping, kAlignment
<1>9. QED
  BY <1>2, <1>3, <1>4, <1>5, <1>6, <1>7, <1>8

\* Two chunks are apart.
LEMMA ChunksApart ==
  ASSUME NEW h, Mapping(h), NEW c \in DOMAIN h.maps, NEW d \in DOMAIN h.maps
  PROVE  c = d \/ Limit(h, c) <= d \/ Limit(h, d) <= c
BY DEF Mapping

\* Every block has a chunk, and the headers are apart.
LEMMA ShapeSlots ==
  ASSUME NEW h, HeapType(h), Mapping(h), NEW C, C \subseteq DOMAIN h.maps, NEW B, Tiled(h, C, B)
  PROVE  Slots(h, C, B)
<1>1. C \subseteq Words \ {NULL}
      /\ \A c \in C : {c, c + 8, c + 16, c + 24, c + 32, c + 40} \subseteq DOMAIN h.mem
  <2>1. SUFFICES ASSUME NEW c \in C
                 PROVE  /\ c \in Words /\ c # NULL
                        /\ {c, c + 8, c + 16, c + 24, c + 32, c + 40} \subseteq DOMAIN h.mem
    OBVIOUS
  <2>2. c \in Words /\ c \in Nat /\ c > 0 /\ \A f \in {0, 8, 16, 24, 32, 40} : c + f \in DOMAIN h.mem
    BY ChunkPlace
  <2>3. c + 0 = c
    BY <2>2
  <2>4. QED
    BY <2>2, <2>3 DEF NULL
<1>2. B \subseteq Words \ {NULL} /\ \A b \in B : {b, b + 8, b + 16} \subseteq DOMAIN h.mem
  <2>1. SUFFICES ASSUME NEW b \in B
                 PROVE  b \in Words /\ b # NULL /\ {b, b + 8, b + 16} \subseteq DOMAIN h.mem
    OBVIOUS
  <2>2. PICK c \in C : BlockOf(h, B, c, b)
    BY DEF Tiled
  <2>3. b \in Words /\ b \in Nat /\ b > 0 /\ \A f \in {0, 8, 16} : b + f \in DOMAIN h.mem
    BY <2>2, BlockPlace
  <2>4. b + 0 = b
    BY <2>3
  <2>5. QED
    BY <2>3, <2>4 DEF NULL
<1>3. ASSUME NEW a \in B, NEW b \in B, a < b PROVE a + 24 <= b
  <2>1. PICK c \in C : BlockOf(h, B, c, a)
    BY DEF Tiled
  <2>2. a \in Nat /\ EndOf(h, a) \in Nat /\ a + 32 <= EndOf(h, a)
    BY <2>1, BlockPlace
  <2>3. EndOf(h, a) <= b /\ b \in Nat
    BY <1>3 DEF Tiled
  <2>4. QED
    BY <2>2, <2>3
<1>4. ASSUME NEW c \in C, NEW d \in C, c < d PROVE c + 48 <= d
  <2>1. c \in Nat /\ d \in Nat /\ Limit(h, c) \in Nat /\ c + 80 <= Limit(h, c) /\ Limit(h, c) <= d
    BY <1>4, ChunkPlace DEF Mapping
  <2>2. QED
    BY <2>1
<1>5. ASSUME NEW c \in C, NEW b \in B PROVE c + 48 <= b \/ b + 24 <= c
  <2>1. PICK d \in C : BlockOf(h, B, d, b)
    BY DEF Tiled
  <2>2. /\ b \in Nat /\ EndOf(h, b) \in Nat /\ d + 48 <= b /\ b + 32 <= EndOf(h, b)
        /\ EndOf(h, b) <= Limit(h, d)
    BY <2>1, BlockPlace
  <2>3. /\ c \in Nat /\ Limit(h, c) \in Nat /\ c + 80 <= Limit(h, c)
        /\ d \in Nat /\ Limit(h, d) \in Nat
    BY ChunkPlace
  <2>4. c = d \/ Limit(h, c) <= d \/ Limit(h, d) <= c
    BY ChunksApart
  <2>5. QED
    BY <2>2, <2>3, <2>4
<1>6. QED
  BY <1>1, <1>2, <1>3, <1>4, <1>5 DEF Slots

\* The chunk of a block, and where in it the block is.
LEMMA Home ==
  ASSUME NEW h, NEW C, NEW B, NEW A, NEW F, Shape(h, C, B, A, F), NEW b \in B
  PROVE  \E c \in C : /\ BlockOf(h, B, c, b)
                      /\ \A S : b \in S => b \in Within(h, c, S)
<1>1. PICK c \in C : BlockOf(h, B, c, b)
  BY DEF Shape, Tiled
<1>2. c \in Nat /\ b \in Nat /\ c + 48 <= b /\ b < Limit(h, c)
  BY <1>1, BlockPlace, ChunkPlace DEF Shape
<1>3. QED
  BY <1>1, <1>2 DEF Within

\* A block that lies in a chunk is of it.
LEMMA WithinOf ==
  ASSUME NEW h, NEW C, NEW B, NEW A, NEW F, Shape(h, C, B, A, F),
         NEW c \in C, NEW S, S \subseteq B, NEW b \in Within(h, c, S)
  PROVE  b \in B /\ BlockOf(h, B, c, b)
<1>1. b \in B /\ c <= b /\ b < Limit(h, c)
  BY DEF Within
<1>2. PICK d \in C : BlockOf(h, B, d, b)
  BY <1>1 DEF Shape, Tiled
<1>3. b \in Nat /\ d + 48 <= b /\ b < Limit(h, d)
  BY <1>1, <1>2, BlockPlace DEF Shape
<1>4. c \in Nat /\ Limit(h, c) \in Nat /\ d \in Nat /\ Limit(h, d) \in Nat
  BY ChunkPlace DEF Shape
<1>5. c = d \/ Limit(h, c) <= d \/ Limit(h, d) <= c
  BY ChunksApart DEF Shape
<1>6. c = d
  BY <1>1, <1>3, <1>4, <1>5
<1>7. QED
  BY <1>1, <1>2, <1>6

\* The part of a sound memory that the loops along the chunks rely on.
Chunked(h, C) ==
  /\ HeapType(h) /\ Mapping(h) /\ C \subseteq DOMAIN h.maps
  /\ \A c \in C : Get(h, c, CHUNK_SIZE) = h.maps[c]
  /\ After(C, NULL, h.first_map) /\ Linked(h, C)

\* A sound memory has it.
LEMMA ShapeChunked ==
  ASSUME NEW h, NEW C, NEW B, NEW A, NEW F, Shape(h, C, B, A, F)
  PROVE  Chunked(h, C)
BY DEF Shape, Chunked, Tiled, Listed

\* The loop along the chunks.
LEMMA ChunksMet ==
  ASSUME NEW h, NEW C, Chunked(h, C)
  PROVE  LET s == Chunks(h)
         IN  /\ s \in Seq(C) /\ Elements(s) = C
             /\ s = << >> <=> h.first_map = NULL
             /\ \A j, k \in DOMAIN s : j < k => s[j] < s[k]
             /\ h.first_map # NULL => s[1] = h.first_map /\ Get(h, s[Len(s)], NEXT) = NULL
<1>1. C \subseteq DOMAIN h.mem /\ C \subseteq Nat \ {NULL}
  <2>1. SUFFICES ASSUME NEW c \in C PROVE c \in DOMAIN h.mem /\ c \in Nat \ {NULL}
    OBVIOUS
  <2>2. c \in Nat /\ c > 0 /\ c + 0 \in DOMAIN h.mem
    BY ChunkPlace DEF Chunked
  <2>3. QED
    BY <2>2 DEF NULL
<1>2. HeapType(h) /\ IsFiniteSet(DOMAIN h.mem) /\ Linked(h, C) /\ After(C, NULL, h.first_map)
  BY DEF Chunked, Mapping
<1>3. QED
  BY <1>1, <1>2, ChainMeets DEF Chunks

\* A loop along the free list of a chunk.
LEMMA FreeListMet ==
  ASSUME NEW h, NEW C, NEW B, NEW A, NEW F, Shape(h, C, B, A, F), NEW c \in C
  PROVE  LET s == FreeChain(h, c)
             S == Within(h, c, F)
         IN  /\ s \in Seq(S) /\ Elements(s) = S
             /\ s = << >> <=> Get(h, c, FREE) = NULL
             /\ \A j, k \in DOMAIN s : j < k => s[j] < s[k]
             /\ \A k \in DOMAIN s : Get(h, s[k], PREV) = IF k = 1 THEN NULL ELSE s[k - 1]
             /\ Get(h, c, FREE) # NULL =>
                  s[1] = Get(h, c, FREE) /\ Get(h, s[Len(s)], NEXT) = NULL
<1>. DEFINE S == Within(h, c, F)
<1>1. S \subseteq B
  BY DEF Within, Shape
<1>2. S \subseteq DOMAIN h.mem /\ S \subseteq Nat \ {NULL}
  BY <1>1, ShapeSlots, WordFacts DEF Shape, Slots
<1>3. /\ HeapType(h) /\ IsFiniteSet(DOMAIN h.mem)
      /\ Linked(h, S) /\ After(S, NULL, Get(h, c, FREE))
  BY DEF Shape, Mapping, Listed, ChunkLists
<1>. HIDE DEF S
<1>4. QED
  BY <1>2, <1>3, ChainMeets DEF FreeChain, S

\* The least of some numbers, as CHOOSE finds it.
LEMMA LeastChosen ==
  ASSUME NEW H, H \subseteq Nat, H # {}
  PROVE  LET k == CHOOSE k \in H : \A j \in H : k <= j
         IN  k \in H /\ \A j \in H : k <= j
BY LeastNumber

\* chunk_from_block finds the chunk an address lies in.
LEMMA ChunkFound ==
  ASSUME NEW h, NEW C, Chunked(h, C), NEW c \in C, NEW b \in Nat \ {NULL}, c <= b, b < Limit(h, c)
  PROVE  chunk_from_block(h, b) = c
<1>. DEFINE s == Chunks(h)
            H == {k \in DOMAIN s : b < s[k] + Get(h, s[k], CHUNK_SIZE)}
            k == CHOOSE k \in H : \A j \in H : k <= j
<1>1. /\ s \in Seq(C) /\ Elements(s) = C
      /\ \A i, j \in DOMAIN s : i < j => s[i] < s[j]
  BY ChunksMet
<1>2. \A d \in C : d + Get(h, d, CHUNK_SIZE) = Limit(h, d)
  BY DEF Chunked, Limit
<1>3. chunk_from_block(h, b) = IF H = {} THEN NULL ELSE s[k]
  BY DEF chunk_from_block, FirstWith
<1>. HIDE DEF s, k
<1>4. DOMAIN s \subseteq Nat /\ \A j \in DOMAIN s : s[j] \in C
  BY <1>1
<1>5. PICK i \in DOMAIN s : s[i] = c
  BY <1>1 DEF Elements
<1>6. i \in H
  BY <1>2, <1>5
<1>7. \A j \in H : s[j] \in C /\ b < Limit(h, s[j]) /\ j \in Nat
  BY <1>2, <1>4
<1>. HIDE DEF H
<1>8. k \in H /\ k <= i
  BY <1>6, <1>7, LeastChosen DEF k
<1>9. k \in DOMAIN s /\ k \in Nat /\ i \in Nat
  BY <1>4, <1>8 DEF H
<1>10. ~(k < i)
  <2>1. SUFFICES ASSUME k < i PROVE FALSE
    OBVIOUS
  <2>2. s[k] < c /\ s[k] \in C /\ b < Limit(h, s[k])
    BY <1>1, <1>5, <1>7, <1>8, <1>9, <2>1
  <2>3. Limit(h, s[k]) <= c
    BY <2>2 DEF Chunked, Mapping
  <2>4. Limit(h, s[k]) \in Nat /\ c \in Nat
    BY <2>2, ChunkPlace DEF Chunked
  <2>5. QED
    BY <2>2, <2>3, <2>4
<1>11. k = i
  BY <1>8, <1>9, <1>10
<1>12. QED
  BY <1>3, <1>5, <1>6, <1>11

\* chunk_from_block finds the chunk of a block.
LEMMA ChunkOfBlock ==
  ASSUME NEW h, NEW C, NEW B, NEW A, NEW F, Shape(h, C, B, A, F),
         NEW b \in B, NEW c \in C, BlockOf(h, B, c, b)
  PROVE  chunk_from_block(h, b) = c
<1>1. HeapType(h) /\ Mapping(h) /\ C \subseteq DOMAIN h.maps /\ Tiled(h, C, B)
  BY DEF Shape
<1>2. b \in Nat /\ b > 0 /\ c + 48 <= b /\ b < Limit(h, c)
  BY <1>1, BlockPlace
<1>3. c \in Nat
  BY <1>1, ChunkPlace
<1>4. b \in Nat \ {NULL} /\ c <= b
  BY <1>2, <1>3 DEF NULL
<1>5. QED
  BY <1>2, <1>4, ShapeChunked, ChunkFound

\* is_free tells the blocks of the free lists from all other addresses.
LEMMA FreeKnown ==
  ASSUME NEW h, NEW C, NEW B, NEW A, NEW F, Shape(h, C, B, A, F),
         NEW c \in C, NEW b \in Nat \ {NULL}, c <= b, b < Limit(h, c)
  PROVE  is_free(h, b) <=> b \in F
<1>1. chunk_from_block(h, b) = c
  BY ShapeChunked, ChunkFound
<1>2. is_free(h, b) <=> b \in Within(h, c, F)
  BY <1>1, FreeListMet DEF is_free
<1>3. QED
  BY <1>2 DEF Within

\* No block has the size of a fencepost.
LEMMA NoFencepost ==
  ASSUME NEW h, NEW C, NEW B, NEW A, NEW F, Shape(h, C, B, A, F), NEW b \in B
  PROVE  ~is_fencepost(h, b)
<1>1. PICK c \in C : BlockOf(h, B, c, b)
  BY Home
<1>2. b \in Nat /\ b % 8 = 0 /\ Get(h, b, SIZE) \in Nat
  BY <1>1, BlockPlace DEF Shape
<1>3. EndOf(h, b) % 8 = 0
  <2>1. CASE EndOf(h, b) = Limit(h, c)
    BY <2>1, ChunkPlace DEF Shape
  <2>2. CASE EndOf(h, b) \in B
    BY <2>2 DEF Shape, Tiled, kAlignment
  <2>3. QED
    BY <1>1, <2>1, <2>2 DEF BlockOf
<1>4. Get(h, b, SIZE) % 8 = 0
  BY <1>2, <1>3 DEF EndOf
<1>5. QED
  BY <1>4, WordAssumption DEF is_fencepost, kAlignment

\* Within its chunk the next block is where the block ends; the last block of
\* a chunk has no next block that starts where it ends.
LEMMA NextBlock ==
  ASSUME NEW h, NEW C, NEW B, NEW A, NEW F, Shape(h, C, B, A, F),
         NEW b \in B, NEW c \in C, BlockOf(h, B, c, b)
  PROVE  /\ EndOf(h, b) < Limit(h, c) => get_next_block(h, b) = EndOf(h, b)
         /\ EndOf(h, b) = Limit(h, c) =>
              /\ get_next_block(h, b) # EndOf(h, b)
              /\ get_next_block(h, b) # NULL =>
                   \E d \in C : /\ d + 48 <= get_next_block(h, b)
                                /\ get_next_block(h, b) < Limit(h, d)
                                /\ get_next_block(h, b) \in Nat \ {NULL}
<1>1. /\ b \in Nat /\ b > 0 /\ EndOf(h, b) \in Words /\ EndOf(h, b) \in Nat
      /\ Get(h, b, SIZE) \in Nat
  BY BlockPlace DEF Shape
<1>2. Wrap(b + Get(h, b, SIZE)) = EndOf(h, b)
  BY <1>1, WrapFacts DEF EndOf
<1>3. chunk_from_block(h, b) = c
  BY ChunkOfBlock
<1>4. c + Get(h, c, CHUNK_SIZE) = Limit(h, c)
  BY DEF Shape, Tiled, Limit
<1>5. get_next_block(h, b) = block_after(h, c, EndOf(h, b))
  BY <1>1, <1>2, <1>3 DEF get_next_block, NULL
<1>6. c \in Nat /\ Limit(h, c) \in Nat /\ c < Limit(h, c)
  BY ChunkPlace DEF Shape
<1>7. CASE EndOf(h, b) < Limit(h, c)
  BY <1>1, <1>4, <1>5, <1>6, <1>7 DEF block_after
<1>8. CASE EndOf(h, b) = Limit(h, c)
  <2>. DEFINE d == Get(h, c, NEXT)
              x == get_next_block(h, b)
  <2>1. x = IF d = NULL THEN NULL ELSE get_start_block_in_chunk(h, d)
    BY <1>4, <1>5, <1>6, <1>8 DEF block_after
  <2>2. CASE d = NULL
    BY <1>6, <1>8, <2>1, <2>2 DEF NULL
  <2>3. CASE d # NULL
    <3>1. After(C, c, d)
      BY DEF Shape, Listed, Linked
    <3>2. d \in C /\ c < d
      BY <2>3, <3>1 DEF After
    <3>3. Limit(h, c) <= d /\ d \in Nat /\ Limit(h, d) \in Nat
      BY <3>2, ChunkPlace DEF Shape, Mapping
    <3>4. ChunkLists(h, d, Within(h, d, A), Within(h, d, F))
      BY <3>2 DEF Shape, Listed
    <3>5. \A y \in {Get(h, d, FREE), Get(h, d, ALLOC)} \ {NULL} :
            y \in Nat \ {NULL} /\ d + 48 <= y /\ y < Limit(h, d)
      <4>1. Get(h, d, FREE) # NULL => Get(h, d, FREE) \in Within(h, d, F)
        BY <3>4 DEF ChunkLists, After
      <4>2. ASSUME Get(h, d, FREE) # NULL
            PROVE  /\ Get(h, d, FREE) \in Nat \ {NULL}
                   /\ d + 48 <= Get(h, d, FREE) /\ Get(h, d, FREE) < Limit(h, d)
        <5>1. F \subseteq B
          BY DEF Shape
        <5>2. Get(h, d, FREE) \in B /\ BlockOf(h, B, d, Get(h, d, FREE))
          BY <3>2, <4>1, <4>2, <5>1, WithinOf
        <5>3. QED
          BY <3>2, <4>2, <5>2, BlockPlace DEF Shape
      <4>3. Get(h, d, ALLOC) \in Nat
        BY GetType, WordFacts DEF Shape
      <4>4. QED
        BY <3>4, <4>2, <4>3 DEF ChunkLists, SizeofChunk
    <3>6. get_start_block_in_chunk(h, d) # NULL =>
            get_start_block_in_chunk(h, d) \in {Get(h, d, FREE), Get(h, d, ALLOC)} \ {NULL}
      <4>. DEFINE T == {Get(h, d, FREE), Get(h, d, ALLOC)} \ {NULL}
      <4>1. T \subseteq Nat
        BY <3>5
      <4>2. get_start_block_in_chunk(h, d) =
              IF T = {} THEN NULL ELSE CHOOSE y \in T : \A z \in T : y <= z
        BY DEF get_start_block_in_chunk
      <4>. HIDE DEF T
      <4>3. QED
        BY <4>1, <4>2, LeastChosen DEF T
    <3>. HIDE DEF d
    <3>7. x = get_start_block_in_chunk(h, d)
      BY <2>1, <2>3
    <3>8. x # NULL => x \in Nat \ {NULL} /\ d + 48 <= x /\ x < Limit(h, d)
      BY <3>5, <3>6, <3>7
    <3>. HIDE DEF x
    <3>9. x # EndOf(h, b)
      BY <1>1, <1>6, <1>8, <3>3, <3>8 DEF NULL
    <3>10. QED
      BY <1>6, <1>8, <3>2, <3>8, <3>9 DEF x
  <2>4. QED
    BY <2>2, <2>3
<1>9. QED
  BY <1>7, <1>8

-----------------------------------------------------------------------------
(* What the functions write *)

\* g is h but for the links of blocks and for the heads of the lists.
LinksOnly(h, g, C, B) ==
  /\ Frame(h, g)
  /\ \A x \in B : Get(g, x, SIZE) = Get(h, x, SIZE)
  /\ \A d \in C : /\ Get(g, d, NEXT) = Get(h, d, NEXT) /\ Get(g, d, PREV) = Get(h, d, PREV)
                  /\ Get(g, d, CHUNK_SIZE) = Get(h, d, CHUNK_SIZE)

\* A block or NULL, as a field of a block is set through it.
LEMMA BlockWriteIf ==
  ASSUME NEW h, HeapType(h), NEW C, NEW B, Slots(h, C, B),
         NEW b \in B \cup {NULL}, NEW f \in BlockFields, NEW v \in B \cup {NULL}
  PROVE  /\ Writes(h, SetIf(h, b, f, v), C, B, b, f, v)
         /\ b # NULL => Set(h, b, f, v) = SetIf(h, b, f, v)
         /\ HeapType(SetIf(h, b, f, v)) /\ Slots(SetIf(h, b, f, v), C, B)
<1>1. v \in Words
  BY WordFacts DEF Slots, NULL
<1>2. Writes(h, SetIf(h, b, f, v), C, B, b, f, v) /\ (b # NULL => Set(h, b, f, v) = SetIf(h, b, f, v))
  BY <1>1, BlockWrite, NullWrite
<1>3. QED
  BY <1>2, SlotsKept DEF Writes, Frame

\* The head of a list of a chunk is set.
LEMMA HeadWrite ==
  ASSUME NEW h, HeapType(h), NEW C, NEW B, Slots(h, C, B),
         NEW c \in C, NEW f \in {FREE, ALLOC}, NEW v \in B \cup {NULL}
  PROVE  /\ Writes(h, Set(h, c, f, v), C, B, c, f, v)
         /\ HeapType(Set(h, c, f, v)) /\ Slots(Set(h, c, f, v), C, B)
<1>1. v \in Words /\ f \in ChunkFields
  BY WordFacts DEF Slots, NULL, ChunkFields
<1>2. Writes(h, Set(h, c, f, v), C, B, c, f, v)
  BY <1>1, ChunkWrite
<1>3. QED
  BY <1>2, SlotsKept DEF Writes, Frame

\* unlink_free: p and n, neighbours in a free list, are linked to each other.
LEMMA UnlinkFreeWrites ==
  ASSUME NEW h, HeapType(h), NEW C, NEW B, Slots(h, C, B),
         NEW c \in C, NEW p \in B \cup {NULL}, NEW n \in B \cup {NULL}
  PROVE  LET g == unlink_free(h, c, p, n)
         IN  /\ LinksOnly(h, g, C, B)
             /\ \A x \in B : /\ Get(g, x, NEXT) = IF x = p THEN n ELSE Get(h, x, NEXT)
                             /\ Get(g, x, PREV) = IF x = n THEN p ELSE Get(h, x, PREV)
             /\ \A d \in C : /\ Get(g, d, ALLOC) = Get(h, d, ALLOC)
                             /\ Get(g, d, FREE) = IF d = c /\ p = NULL THEN n ELSE Get(h, d, FREE)
<1>. DEFINE g1 == IF p # NULL THEN Set(h, p, NEXT, n) ELSE Set(h, c, FREE, n)
            g  == SetIf(g1, n, PREV, p)
<1>0. /\ NEXT \in BlockFields /\ PREV \in BlockFields /\ FREE \in {FREE, ALLOC}
      /\ \A x \in B : x # NULL /\ x \notin C
  BY FieldNames, SlotsApart
<1>1. /\ IF p # NULL THEN Writes(h, g1, C, B, p, NEXT, n) ELSE Writes(h, g1, C, B, c, FREE, n)
      /\ HeapType(g1) /\ Slots(g1, C, B)
  <2>1. CASE p # NULL
    BY <1>0, <2>1, BlockWriteIf
  <2>2. CASE p = NULL
    BY <1>0, <2>2, HeadWrite
  <2>3. QED
    BY <2>1, <2>2
<1>. HIDE DEF g1
<1>2. Writes(g1, g, C, B, n, PREV, p)
  BY <1>0, <1>1, BlockWriteIf
<1>3. g = unlink_free(h, c, p, n)
  BY DEF unlink_free, g1
<1>. HIDE DEF g
<1>4. /\ \A x \in B : /\ Get(g1, x, SIZE) = Get(h, x, SIZE)
                      /\ Get(g1, x, NEXT) = IF x = p THEN n ELSE Get(h, x, NEXT)
                      /\ Get(g1, x, PREV) = Get(h, x, PREV)
      /\ \A d \in C : \A k \in ChunkFields :
           Get(g1, d, k) = IF d = c /\ p = NULL /\ k = FREE THEN n ELSE Get(h, d, k)
      /\ Frame(h, g1)
  <2>1. CASE p # NULL
    <3>1. p \in B /\ p \notin C
      BY <1>0, <2>1
    <3>2. QED
      BY <1>0, <1>1, <2>1, <3>1 DEF Writes, BlockFields, SIZE, NEXT, PREV
  <2>2. CASE p = NULL
    <3>1. c \notin B
      BY <1>0
    <3>2. QED
      BY <1>0, <1>1, <2>2, <3>1 DEF Writes, BlockFields, SIZE, NEXT, PREV
  <2>3. QED
    BY <2>1, <2>2
<1>5. /\ \A x \in B : /\ Get(g, x, SIZE) = Get(g1, x, SIZE)
                      /\ Get(g, x, NEXT) = Get(g1, x, NEXT)
                      /\ Get(g, x, PREV) = IF x = n THEN p ELSE Get(g1, x, PREV)
      /\ \A d \in C : \A k \in ChunkFields : Get(g, d, k) = Get(g1, d, k)
      /\ Frame(g1, g)
  <2>1. \A x \in B : \A k \in BlockFields :
          Get(g, x, k) = IF x = n /\ k = PREV THEN p ELSE Get(g1, x, k)
    BY <1>2 DEF Writes
  <2>2. \A d \in C : \A k \in ChunkFields : Get(g, d, k) = Get(g1, d, k)
    <3>1. n \notin C
      BY <1>0, SlotsApart
    <3>2. QED
      BY <1>2, <3>1 DEF Writes
  <2>3. Frame(g1, g)
    BY <1>2 DEF Writes
  <2>4. QED
    BY <2>1, <2>2, <2>3 DEF BlockFields, SIZE, NEXT, PREV
<1>6. QED
  BY <1>3, <1>4, <1>5
  DEF LinksOnly, Frame, ChunkFields, SIZE, NEXT, PREV, FREE, ALLOC, CHUNK_SIZE

\* link_alloc: b is linked in between after and before; without a block after
\* which it comes, it is the head of the list of c.
LEMMA LinkAllocWrites ==
  ASSUME NEW h, HeapType(h), NEW C, NEW B, Slots(h, C, B), NEW c \in C, NEW b \in B,
         NEW p \in (B \ {b}) \cup {NULL}, NEW n \in (B \ {b}) \cup {NULL}
  PROVE  LET g == link_alloc(h, c, b, n, p)
         IN  /\ LinksOnly(h, g, C, B)
             /\ Get(g, b, NEXT) = n /\ Get(g, b, PREV) = p
             /\ \A x \in B \ {b} : /\ Get(g, x, NEXT) = IF x = p THEN b ELSE Get(h, x, NEXT)
                                   /\ Get(g, x, PREV) = IF x = n THEN b ELSE Get(h, x, PREV)
             /\ \A d \in C : /\ Get(g, d, FREE) = Get(h, d, FREE)
                             /\ Get(g, d, ALLOC) = IF d = c /\ p = NULL THEN b ELSE Get(h, d, ALLOC)
<1>. DEFINE g1 == Set(h, b, NEXT, n)
            g2 == Set(g1, b, PREV, p)
            g3 == IF p # NULL THEN Set(g2, p, NEXT, b) ELSE Set(g2, c, ALLOC, b)
            g  == SetIf(g3, n, PREV, b)
<1>0. /\ NEXT \in BlockFields /\ PREV \in BlockFields /\ ALLOC \in {FREE, ALLOC}
      /\ p \in B \cup {NULL} /\ n \in B \cup {NULL} /\ b \in B \cup {NULL}
      /\ \A x \in B : x # NULL /\ x \notin C
  BY FieldNames, SlotsApart
<1>1. Writes(h, g1, C, B, b, NEXT, n) /\ HeapType(g1) /\ Slots(g1, C, B)
  BY <1>0, BlockWriteIf
<1>. HIDE DEF g1
<1>2. Writes(g1, g2, C, B, b, PREV, p) /\ HeapType(g2) /\ Slots(g2, C, B)
  BY <1>0, <1>1, BlockWriteIf
<1>. HIDE DEF g2
<1>3. /\ IF p # NULL THEN Writes(g2, g3, C, B, p, NEXT, b) ELSE Writes(g2, g3, C, B, c, ALLOC, b)
      /\ HeapType(g3) /\ Slots(g3, C, B)
  <2>1. CASE p # NULL
    BY <1>0, <1>2, <2>1, BlockWriteIf
  <2>2. CASE p = NULL
    BY <1>0, <1>2, <2>2, HeadWrite
  <2>3. QED
    BY <2>1, <2>2
<1>4. g = link_alloc(h, c, b, n, p)
  BY DEF link_alloc, g1, g2
<1>. HIDE DEF g3
<1>5. Writes(g3, g, C, B, n, PREV, b)
  BY <1>0, <1>3, BlockWriteIf
<1>. HIDE DEF g
<1>6. /\ \A x \in B : /\ Get(g2, x, SIZE) = Get(h, x, SIZE)
                      /\ Get(g2, x, NEXT) = IF x = b THEN n ELSE Get(h, x, NEXT)
                      /\ Get(g2, x, PREV) = IF x = b THEN p ELSE Get(h, x, PREV)
      /\ \A d \in C : \A k \in ChunkFields : Get(g2, d, k) = Get(h, d, k)
      /\ Frame(h, g2)
  BY <1>0, <1>1, <1>2 DEF Writes, Frame, BlockFields, SIZE, NEXT, PREV
<1>7. /\ \A x \in B : /\ Get(g3, x, SIZE) = Get(g2, x, SIZE)
                      /\ Get(g3, x, NEXT) = IF x = p THEN b ELSE Get(g2, x, NEXT)
                      /\ Get(g3, x, PREV) = Get(g2, x, PREV)
      /\ \A d \in C : \A k \in ChunkFields :
           Get(g3, d, k) = IF d = c /\ p = NULL /\ k = ALLOC THEN b ELSE Get(g2, d, k)
      /\ Frame(g2, g3)
  <2>1. CASE p # NULL
    <3>1. p \in B /\ p \notin C
      BY <1>0, <2>1
    <3>2. QED
      BY <1>0, <1>3, <2>1, <3>1 DEF Writes, BlockFields, SIZE, NEXT, PREV
  <2>2. CASE p = NULL
    <3>1. c \notin B
      BY <1>0
    <3>2. QED
      BY <1>0, <1>3, <2>2, <3>1 DEF Writes, BlockFields, SIZE, NEXT, PREV
  <2>3. QED
    BY <2>1, <2>2
<1>8. /\ \A x \in B : /\ Get(g, x, SIZE) = Get(g3, x, SIZE)
                      /\ Get(g, x, NEXT) = Get(g3, x, NEXT)
                      /\ Get(g, x, PREV) = IF x = n THEN b ELSE Get(g3, x, PREV)
      /\ \A d \in C : \A k \in ChunkFields : Get(g, d, k) = Get(g3, d, k)
      /\ Frame(g3, g)
  <2>1. \A x \in B : \A k \in BlockFields :
          Get(g, x, k) = IF x = n /\ k = PREV THEN b ELSE Get(g3, x, k)
    BY <1>5 DEF Writes
  <2>2. \A d \in C : \A k \in ChunkFields : Get(g, d, k) = Get(g3, d, k)
    <3>1. n \notin C
      BY <1>0, SlotsApart
    <3>2. QED
      BY <1>5, <3>1 DEF Writes
  <2>3. Frame(g3, g)
    BY <1>5 DEF Writes
  <2>4. QED
    BY <2>1, <2>2, <2>3 DEF BlockFields, SIZE, NEXT, PREV
<1>9. QED
  BY <1>0, <1>4, <1>6, <1>7, <1>8
  DEF LinksOnly, Frame, ChunkFields, SIZE, NEXT, PREV, FREE, ALLOC, CHUNK_SIZE

\* The first part of freeing_up: b is taken out of its list.
LEMMA BypassWrites ==
  ASSUME NEW h, HeapType(h), NEW C, NEW B, Slots(h, C, B),
         NEW p \in B \cup {NULL}, NEW n \in B \cup {NULL}
  PROVE  LET g == SetIf(SetIf(h, p, NEXT, n), n, PREV, p)
         IN  /\ LinksOnly(h, g, C, B)
             /\ \A x \in B : /\ Get(g, x, NEXT) = IF x = p THEN n ELSE Get(h, x, NEXT)
                             /\ Get(g, x, PREV) = IF x = n THEN p ELSE Get(h, x, PREV)
             /\ \A d \in C : Get(g, d, ALLOC) = Get(h, d, ALLOC) /\ Get(g, d, FREE) = Get(h, d, FREE)
<1>. DEFINE g1 == SetIf(h, p, NEXT, n)
            g  == SetIf(g1, n, PREV, p)
<1>0. /\ NEXT \in BlockFields /\ PREV \in BlockFields
      /\ \A x \in B : x # NULL /\ x \notin C
      /\ NULL \notin C
  BY FieldNames, SlotsApart
<1>1. Writes(h, g1, C, B, p, NEXT, n) /\ HeapType(g1) /\ Slots(g1, C, B)
  BY <1>0, BlockWriteIf
<1>. HIDE DEF g1
<1>2. Writes(g1, g, C, B, n, PREV, p)
  BY <1>0, <1>1, BlockWriteIf
<1>. HIDE DEF g
<1>3. QED
  BY <1>0, <1>1, <1>2
  DEF g, g1, Writes, LinksOnly, Frame, BlockFields, ChunkFields, SIZE, NEXT, PREV, FREE, ALLOC, CHUNK_SIZE

\* link_free: b is linked in between p and n, and becomes the head if n was.
LEMMA LinkFreeWrites ==
  ASSUME NEW h, HeapType(h), NEW C, NEW B, Slots(h, C, B), NEW c \in C, NEW b \in B,
         NEW p \in (B \ {b}) \cup {NULL}, NEW n \in (B \ {b}) \cup {NULL}
  PROVE  LET g == link_free(h, c, p, b, n)
         IN  /\ LinksOnly(h, g, C, B)
             /\ Get(g, b, NEXT) = n /\ Get(g, b, PREV) = p
             /\ \A x \in B \ {b} : /\ Get(g, x, NEXT) = IF x = p THEN b ELSE Get(h, x, NEXT)
                                   /\ Get(g, x, PREV) = IF x = n THEN b ELSE Get(h, x, PREV)
             /\ \A d \in C : /\ Get(g, d, ALLOC) = Get(h, d, ALLOC)
                             /\ Get(g, d, FREE) =
                                  IF d = c /\ n = Get(h, c, FREE) THEN b ELSE Get(h, d, FREE)
<1>. DEFINE g1 == Set(h, b, NEXT, n)
            g2 == Set(g1, b, PREV, p)
            g3 == SetIf(g2, p, NEXT, b)
            g4 == SetIf(g3, n, PREV, b)
            g  == IF n = Get(h, c, FREE) THEN Set(g4, c, FREE, b) ELSE g4
<1>0. /\ NEXT \in BlockFields /\ PREV \in BlockFields /\ FREE \in {FREE, ALLOC}
      /\ p \in B \cup {NULL} /\ n \in B \cup {NULL} /\ b \in B \cup {NULL}
      /\ \A x \in B : x # NULL /\ x \notin C
      /\ NULL \notin C
  BY FieldNames, SlotsApart
<1>1. Writes(h, g1, C, B, b, NEXT, n) /\ HeapType(g1) /\ Slots(g1, C, B)
  BY <1>0, BlockWriteIf
<1>. HIDE DEF g1
<1>2. Writes(g1, g2, C, B, b, PREV, p) /\ HeapType(g2) /\ Slots(g2, C, B)
  BY <1>0, <1>1, BlockWriteIf
<1>. HIDE DEF g2
<1>3. Writes(g2, g3, C, B, p, NEXT, b) /\ HeapType(g3) /\ Slots(g3, C, B)
  BY <1>0, <1>2, BlockWriteIf
<1>. HIDE DEF g3
<1>4. Writes(g3, g4, C, B, n, PREV, b) /\ HeapType(g4) /\ Slots(g4, C, B)
  BY <1>0, <1>3, BlockWriteIf
<1>5. g = link_free(h, c, p, b, n)
  BY DEF link_free, g1, g2, g3
<1>. HIDE DEF g4
<1>6. IF n = Get(h, c, FREE) THEN Writes(g4, g, C, B, c, FREE, b) ELSE g = g4
  BY <1>0, <1>4, HeadWrite
<1>. HIDE DEF g
<1>7. /\ \A x \in B : /\ Get(g2, x, SIZE) = Get(h, x, SIZE)
                      /\ Get(g2, x, NEXT) = IF x = b THEN n ELSE Get(h, x, NEXT)
                      /\ Get(g2, x, PREV) = IF x = b THEN p ELSE Get(h, x, PREV)
      /\ \A d \in C : \A k \in ChunkFields : Get(g2, d, k) = Get(h, d, k)
      /\ Frame(h, g2)
  BY <1>0, <1>1, <1>2 DEF Writes, Frame, BlockFields, SIZE, NEXT, PREV
<1>8. /\ \A x \in B : /\ Get(g4, x, SIZE) = Get(g2, x, SIZE)
                      /\ Get(g4, x, NEXT) = IF x = p THEN b ELSE Get(g2, x, NEXT)
                      /\ Get(g4, x, PREV) = IF x = n THEN b ELSE Get(g2, x, PREV)
      /\ \A d \in C : \A k \in ChunkFields : Get(g4, d, k) = Get(g2, d, k)
      /\ Frame(g2, g4)
  BY <1>0, <1>3, <1>4 DEF Writes, Frame, BlockFields, SIZE, NEXT, PREV
<1>9. /\ \A x \in B : \A k \in BlockFields : Get(g, x, k) = Get(g4, x, k)
      /\ \A d \in C : \A k \in ChunkFields :
           Get(g, d, k) = IF d = c /\ n = Get(h, c, FREE) /\ k = FREE THEN b ELSE Get(g4, d, k)
      /\ HeapType(g) /\ Frame(g4, g)
  BY <1>0, <1>4, <1>6 DEF Writes, Frame
<1>10. QED
  BY <1>0, <1>5, <1>7, <1>8, <1>9
  DEF LinksOnly, Frame, BlockFields, ChunkFields, SIZE, NEXT, PREV, FREE, ALLOC, CHUNK_SIZE

\* join: a takes the size of b, and its place in the list.
LEMMA JoinWrites ==
  ASSUME NEW h, HeapType(h), NEW C, NEW B, Slots(h, C, B), NEW a \in B, NEW b \in B, a # b,
         Get(h, b, NEXT) \in (B \ {a}) \cup {NULL}
  PROVE  LET g == join(h, a, b)
             n == Get(h, b, NEXT)
         IN  /\ Frame(h, g)
             /\ \A x \in B : /\ Get(g, x, SIZE) = IF x = a THEN Wrap(Get(h, a, SIZE) + Get(h, b, SIZE))
                                                  ELSE Get(h, x, SIZE)
                             /\ Get(g, x, NEXT) = IF x = a THEN n ELSE Get(h, x, NEXT)
                             /\ Get(g, x, PREV) = IF x = n THEN a ELSE Get(h, x, PREV)
             /\ \A d \in C : \A k \in ChunkFields : Get(g, d, k) = Get(h, d, k)
<1>. DEFINE n  == Get(h, b, NEXT)
            v  == Wrap(Get(h, a, SIZE) + Get(h, b, SIZE))
            g1 == Set(h, a, SIZE, v)
            g2 == Set(g1, a, NEXT, n)
            g  == SetIf(g2, n, PREV, a)
<1>0. /\ NEXT \in BlockFields /\ PREV \in BlockFields /\ SIZE \in BlockFields
      /\ \A x \in B : x # NULL /\ x \notin C
      /\ NULL \notin C /\ n \in B \cup {NULL} /\ a \in B \cup {NULL} /\ a # NULL /\ a # n
  BY FieldNames, SlotsApart
<1>1. v \in Words
  <2>1. Get(h, a, SIZE) \in Words /\ Get(h, b, SIZE) \in Words
    BY GetType
  <2>2. Get(h, a, SIZE) \in Nat /\ Get(h, b, SIZE) \in Nat
    BY <2>1, WordFacts
  <2>3. Get(h, a, SIZE) + Get(h, b, SIZE) \in Int
    BY <2>2
  <2>4. QED
    BY <2>3, WrapFacts
<1>2. g = join(h, a, b)
  BY DEF join
<1>. HIDE DEF n, v
<1>3. Writes(h, g1, C, B, a, SIZE, v) /\ HeapType(g1) /\ Slots(g1, C, B)
  <2>1. Writes(h, g1, C, B, a, SIZE, v)
    BY <1>0, <1>1, BlockWrite
  <2>2. QED
    BY <2>1, SlotsKept DEF Writes, Frame
<1>. HIDE DEF g1
<1>4. Writes(g1, g2, C, B, a, NEXT, n) /\ HeapType(g2) /\ Slots(g2, C, B)
  BY <1>0, <1>3, BlockWriteIf
<1>. HIDE DEF g2
<1>5. Writes(g2, g, C, B, n, PREV, a)
  BY <1>0, <1>4, BlockWriteIf
<1>. HIDE DEF g
<1>6. /\ Frame(h, g)
      /\ \A x \in B : /\ Get(g, x, SIZE) = IF x = a THEN v ELSE Get(h, x, SIZE)
                      /\ Get(g, x, NEXT) = IF x = a THEN n ELSE Get(h, x, NEXT)
                      /\ Get(g, x, PREV) = IF x = n THEN a ELSE Get(h, x, PREV)
      /\ \A d \in C : \A k \in ChunkFields : Get(g, d, k) = Get(h, d, k)
  BY <1>0, <1>3, <1>4, <1>5 DEF Writes, Frame, BlockFields, SIZE, NEXT, PREV
<1>7. QED
  BY <1>2, <1>6 DEF n, v

\* link_after: "right" is linked in after b, and is given its size.
LEMMA LayWrites ==
  ASSUME NEW h, HeapType(h), NEW C, NEW B, Slots(h, C, B), NEW b \in B, NEW right \in B \ {b},
         NEW n \in Words, Get(h, b, NEXT) \in (B \ {b, right}) \cup {NULL}
  PROVE  LET g == lay_right(h, b, right, n)
             x == Get(h, b, NEXT)
         IN  /\ Frame(h, g)
             /\ Get(g, right, SIZE) = n /\ Get(g, right, NEXT) = x /\ Get(g, right, PREV) = b
             /\ \A y \in B \ {right} :
                  /\ Get(g, y, SIZE) = Get(h, y, SIZE)
                  /\ Get(g, y, NEXT) = IF y = b THEN right ELSE Get(h, y, NEXT)
                  /\ Get(g, y, PREV) = IF y = x THEN right ELSE Get(h, y, PREV)
             /\ \A d \in C : \A k \in ChunkFields : Get(g, d, k) = Get(h, d, k)
<1>. DEFINE x  == Get(h, b, NEXT)
            g1 == Set(h, right, SIZE, n)
            g2 == Set(g1, right, NEXT, x)
            g3 == SetIf(g2, x, PREV, right)
            g4 == Set(g3, b, NEXT, right)
            g  == Set(g4, right, PREV, b)
<1>0. /\ NEXT \in BlockFields /\ PREV \in BlockFields /\ SIZE \in BlockFields
      /\ \A y \in B : y # NULL /\ y \notin C
      /\ NULL \notin C /\ x \in B \cup {NULL} /\ b \in B \cup {NULL} /\ right \in B \cup {NULL}
      /\ b # NULL /\ right # NULL /\ x # right /\ x # b
  BY FieldNames, SlotsApart
<1>1. Writes(h, g1, C, B, right, SIZE, n) /\ HeapType(g1) /\ Slots(g1, C, B)
  <2>1. Writes(h, g1, C, B, right, SIZE, n)
    BY <1>0, BlockWrite
  <2>2. QED
    BY <2>1, SlotsKept DEF Writes, Frame
<1>2. Get(g1, b, NEXT) = x
  BY <1>0, <1>1 DEF Writes
<1>3. g = lay_right(h, b, right, n)
  BY <1>2 DEF lay_right, link_after
<1>. HIDE DEF g1, x
<1>4. Writes(g1, g2, C, B, right, NEXT, x) /\ HeapType(g2) /\ Slots(g2, C, B)
  BY <1>0, <1>1, BlockWriteIf
<1>. HIDE DEF g2
<1>5. Writes(g2, g3, C, B, x, PREV, right) /\ HeapType(g3) /\ Slots(g3, C, B)
  BY <1>0, <1>4, BlockWriteIf
<1>. HIDE DEF g3
<1>6. Writes(g3, g4, C, B, b, NEXT, right) /\ HeapType(g4) /\ Slots(g4, C, B)
  BY <1>0, <1>5, BlockWriteIf
<1>. HIDE DEF g4
<1>7. Writes(g4, g, C, B, right, PREV, b)
  BY <1>0, <1>6, BlockWriteIf
<1>. HIDE DEF g
<1>8. /\ Frame(h, g2)
      /\ \A y \in B : /\ Get(g2, y, SIZE) = IF y = right THEN n ELSE Get(h, y, SIZE)
                      /\ Get(g2, y, NEXT) = IF y = right THEN x ELSE Get(h, y, NEXT)
                      /\ Get(g2, y, PREV) = Get(h, y, PREV)
      /\ \A d \in C : \A k \in ChunkFields : Get(g2, d, k) = Get(h, d, k)
  BY <1>0, <1>1, <1>4 DEF Writes, Frame, BlockFields, SIZE, NEXT, PREV
<1>9. /\ Frame(g2, g)
      /\ \A y \in B : /\ Get(g, y, SIZE) = Get(g2, y, SIZE)
                      /\ Get(g, y, NEXT) = IF y = b THEN right ELSE Get(g2, y, NEXT)
                      /\ Get(g, y, PREV) = IF y = right THEN b ELSE IF y = x THEN right ELSE Get(g2, y, PREV)
      /\ \A d \in C : \A k \in ChunkFields : Get(g, d, k) = Get(g2, d, k)
  BY <1>0, <1>5, <1>6, <1>7 DEF Writes, Frame, BlockFields, SIZE, NEXT, PREV
<1>10. QED
  BY <1>0, <1>3, <1>8, <1>9 DEF Frame, x

-----------------------------------------------------------------------------
(* What the lists become *)

\* A block lies in its chunk, behind its header.
LEMMA InChunk ==
  ASSUME NEW h, NEW C, NEW B, NEW A, NEW F, Shape(h, C, B, A, F),
         NEW b \in B, NEW c \in C, BlockOf(h, B, c, b)
  PROVE  /\ b \in Within(h, c, B) /\ c + SizeofChunk <= b /\ b < Limit(h, c)
         /\ b \in Nat /\ b # NULL /\ c \in Nat
<1>1. HeapType(h) /\ Mapping(h) /\ C \subseteq DOMAIN h.maps /\ Tiled(h, C, B)
  BY DEF Shape
<1>2. b \in Nat /\ b > 0 /\ c + 48 <= b /\ b < Limit(h, c)
  BY <1>1, BlockPlace
<1>3. c \in Nat
  BY <1>1, ChunkPlace
<1>4. c <= b /\ b # NULL
  BY <1>2, <1>3 DEF NULL
<1>5. QED
  BY <1>2, <1>3, <1>4 DEF Within, SizeofChunk

\* A block lies in one chunk.
LEMMA OneChunk ==
  ASSUME NEW h, NEW C, NEW B, NEW A, NEW F, Shape(h, C, B, A, F),
         NEW c \in C, NEW d \in C \ {c}, NEW b \in Within(h, c, B)
  PROVE  b \notin Within(h, d, B)
<1>1. b \in B /\ c <= b /\ b < Limit(h, c) /\ b \in Nat
  BY DEF Within, Shape, Tiled
<1>2. Limit(h, c) <= d \/ Limit(h, d) <= c
  BY ChunksApart DEF Shape
<1>3. c \in Nat /\ Limit(h, c) \in Nat /\ d \in Nat /\ Limit(h, d) \in Nat
  BY ChunkPlace DEF Shape
<1>4. ~(d <= b /\ b < Limit(h, d))
  BY <1>1, <1>2, <1>3
<1>5. QED
  BY <1>4 DEF Within

\* What lies in a chunk when a block of it comes or goes, and in the others.
LEMMA WithinChanged ==
  ASSUME NEW h, NEW C, NEW B, NEW A, NEW F, Shape(h, C, B, A, F),
         NEW c \in C, NEW b \in Within(h, c, B), NEW S
  PROVE  /\ Within(h, c, S \cup {b}) = Within(h, c, S) \cup {b}
         /\ Within(h, c, S \ {b}) = Within(h, c, S) \ {b}
         /\ \A d \in C \ {c} : /\ b \notin Within(h, d, B)
                               /\ Within(h, d, S \cup {b}) = Within(h, d, S)
                               /\ Within(h, d, S \ {b}) = Within(h, d, S)
<1>1. b \in B /\ c <= b /\ b < Limit(h, c) /\ b \in Nat
  BY DEF Within, Shape, Tiled
<1>2. ASSUME NEW d \in C \ {c} PROVE ~(d <= b /\ b < Limit(h, d))
  <2>1. Limit(h, c) <= d \/ Limit(h, d) <= c
    BY ChunksApart DEF Shape
  <2>2. c \in Nat /\ Limit(h, c) \in Nat /\ d \in Nat /\ Limit(h, d) \in Nat
    BY ChunkPlace DEF Shape
  <2>3. QED
    BY <1>1, <2>1, <2>2
<1>3. QED
  BY <1>1, <1>2 DEF Within

\* A function that writes only in one chunk keeps the memory sound if it keeps
\* the blocks tiled and the lists of that chunk in order.
LEMMA Relaid ==
  ASSUME NEW h, NEW g, NEW C, NEW B, NEW A, NEW F, Shape(h, C, B, A, F),
         Frame(h, g), NEW c \in C, NEW B2, Tiled(g, C, B2),
         \A d \in C : Get(g, d, NEXT) = Get(h, d, NEXT) /\ Get(g, d, PREV) = Get(h, d, PREV),
         NEW A2, NEW F2, A2 \subseteq B2, F2 \subseteq B2, A2 \cap F2 = {},
         \A d \in C \ {c} :
           /\ Within(h, d, A2) = Within(h, d, A) /\ Within(h, d, F2) = Within(h, d, F)
           /\ Get(g, d, FREE) = Get(h, d, FREE) /\ Get(g, d, ALLOC) = Get(h, d, ALLOC)
           /\ \A x \in Within(h, d, B) :
                Get(g, x, NEXT) = Get(h, x, NEXT) /\ Get(g, x, PREV) = Get(h, x, PREV),
         ChunkLists(g, c, Within(h, c, A2), Within(h, c, F2))
  PROVE  Shape(g, C, B2, A2, F2)
<1>1. /\ HeapType(g) /\ Mapping(g) /\ C \subseteq DOMAIN g.maps
      /\ \A d : Limit(g, d) = Limit(h, d) /\ \A S : Within(g, d, S) = Within(h, d, S)
  BY DEF Shape, Frame, Mapping, Limit, Within
<1>2. After(C, NULL, g.first_map) /\ Linked(g, C)
  <2>1. Linked(h, C) /\ After(C, NULL, h.first_map) /\ g.first_map = h.first_map
    BY DEF Shape, Listed, Frame
  <2>2. QED
    BY <2>1, LinkedKept
<1>3. ASSUME NEW d \in C \ {c} PROVE ChunkLists(g, d, Within(g, d, A2), Within(g, d, F2))
  <2>1. ChunkLists(h, d, Within(h, d, A), Within(h, d, F))
    BY DEF Shape, Listed
  <2>2. Within(h, d, A) \subseteq Within(h, d, B) /\ Within(h, d, F) \subseteq Within(h, d, B)
    BY DEF Within, Shape
  <2>3. Linked(g, Within(h, d, A)) /\ Linked(g, Within(h, d, F))
    BY <2>1, <2>2, LinkedKept DEF ChunkLists
  <2>4. QED
    BY <1>1, <2>1, <2>3 DEF ChunkLists
<1>4. Listed(g, C, A2, F2)
  BY <1>1, <1>2, <1>3 DEF Listed
<1>5. QED
  BY <1>1, <1>4 DEF Shape

\* One that writes only links of one chunk, if it keeps the lists of that chunk
\* in order.
LEMMA Relisted ==
  ASSUME NEW h, NEW g, NEW C, NEW B, NEW A, NEW F, Shape(h, C, B, A, F),
         LinksOnly(h, g, C, B), NEW c \in C,
         NEW A2, NEW F2, A2 \subseteq B, F2 \subseteq B, A2 \cap F2 = {},
         \A d \in C \ {c} :
           /\ Within(h, d, A2) = Within(h, d, A) /\ Within(h, d, F2) = Within(h, d, F)
           /\ Get(g, d, FREE) = Get(h, d, FREE) /\ Get(g, d, ALLOC) = Get(h, d, ALLOC)
           /\ \A x \in Within(h, d, B) :
                Get(g, x, NEXT) = Get(h, x, NEXT) /\ Get(g, x, PREV) = Get(h, x, PREV),
         ChunkLists(g, c, Within(h, c, A2), Within(h, c, F2))
  PROVE  Shape(g, C, B, A2, F2)
<1>1. \A b \in B : Get(g, b, SIZE) = Get(h, b, SIZE) /\ EndOf(g, b) = EndOf(h, b)
  BY DEF LinksOnly, EndOf
<1>2. Tiled(g, C, B)
  <2>1. \A c1 \in C : c1 + SizeofChunk \in B /\ Get(g, c1, CHUNK_SIZE) = g.maps[c1]
    BY DEF Shape, Tiled, LinksOnly, Frame
  <2>2. \A d : Limit(g, d) = Limit(h, d)
    BY DEF LinksOnly, Frame, Limit
  <2>3. \A b \in B : \A d \in C : BlockOf(h, B, d, b) => BlockOf(g, B, d, b)
    BY <1>1, <2>2 DEF BlockOf
  <2>4. QED
    BY <1>1, <2>1, <2>3 DEF Shape, Tiled
<1>3. QED
  BY <1>2, Relaid DEF LinksOnly

-----------------------------------------------------------------------------
(* Each function keeps the memory sound *)

\* The members of a list of a chunk and its neighbours.
LEMMA Neighbours ==
  ASSUME NEW h, NEW S, S \subseteq Nat \ {NULL}, Linked(h, S), NEW b \in S
  PROVE  /\ Get(h, b, NEXT) \in (S \ {b}) \cup {NULL}
         /\ Get(h, b, PREV) \in (S \ {b}) \cup {NULL}
         /\ After(S, b, Get(h, b, NEXT)) /\ Before(S, b, Get(h, b, PREV))
<1>1. b \in Nat
  OBVIOUS
<1>2. QED
  BY <1>1 DEF Linked, After, Before

\* Blocks are numbers other than NULL.
LEMMA BlockNumbers ==
  ASSUME NEW h, NEW C, NEW B, NEW A, NEW F, Shape(h, C, B, A, F), NEW c, NEW S, S \subseteq B
  PROVE  /\ B \subseteq Nat \ {NULL}
         /\ Within(h, c, S) \subseteq Nat \ {NULL} /\ Within(h, c, S) \subseteq S
         /\ Within(h, c, S) \subseteq Within(h, c, B)
BY ShapeSlots, WordFacts DEF Shape, Slots, Within

\* A free block is taken out of its list.
LEMMA UnlistedShape ==
  ASSUME NEW h, NEW C, NEW B, NEW A, NEW F, Shape(h, C, B, A, F),
         NEW b \in F, NEW c \in C, BlockOf(h, B, c, b)
  PROVE  Shape(unlisted(h, b), C, B, A, F \ {b}) /\ LinksOnly(h, unlisted(h, b), C, B)
<1>. DEFINE S == Within(h, c, F)
            T == Within(h, c, A)
            p == Get(h, b, PREV)
            n == Get(h, b, NEXT)
            g == unlisted(h, b)
<1>1. b \in B /\ A \subseteq B /\ F \subseteq B /\ A \cap F = {} /\ HeapType(h)
  BY DEF Shape
<1>2. b \in S /\ b \in Within(h, c, B)
  BY <1>1, BlockPlace, ChunkPlace DEF Shape, Within
<1>3. ChunkLists(h, c, T, S)
  BY DEF Shape, Listed
<1>4. S \subseteq Nat \ {NULL} /\ S \subseteq F /\ T \subseteq A /\ T \subseteq Nat \ {NULL}
      /\ S \subseteq Within(h, c, B)
  BY <1>1, BlockNumbers
<1>5. p \in (S \ {b}) \cup {NULL} /\ n \in (S \ {b}) \cup {NULL}
  BY <1>2, <1>3, <1>4, Neighbours DEF ChunkLists
<1>6. g = unlink_free(h, c, p, n)
  BY <1>1, ChunkOfBlock DEF unlisted
<1>7. Slots(h, C, B)
  BY ShapeSlots DEF Shape
<1>8. p \in B \cup {NULL} /\ n \in B \cup {NULL}
  BY <1>1, <1>4, <1>5
<1>. HIDE DEF g, p, n, S, T
<1>9. /\ LinksOnly(h, g, C, B)
      /\ \A x \in B : /\ Get(g, x, NEXT) = IF x = p THEN n ELSE Get(h, x, NEXT)
                      /\ Get(g, x, PREV) = IF x = n THEN p ELSE Get(h, x, PREV)
      /\ \A d \in C : /\ Get(g, d, ALLOC) = Get(h, d, ALLOC)
                      /\ Get(g, d, FREE) = IF d = c /\ p = NULL THEN n ELSE Get(h, d, FREE)
  BY <1>1, <1>6, <1>7, <1>8, UnlinkFreeWrites
<1>10. CutOut(h, g, S, b)
  BY <1>1, <1>4, <1>9 DEF CutOut, p, n
<1>11. Linked(h, S) /\ After(S, NULL, Get(h, c, FREE)) /\ Linked(h, T)
  BY <1>3 DEF ChunkLists
<1>12. Linked(g, S \ {b}) /\ After(S \ {b}, NULL, Get(g, c, FREE))
  BY <1>2, <1>4, <1>9, <1>10, <1>11, CutLinked, CutHead DEF p, n
<1>13. Linked(g, T)
  <2>1. \A x \in T : x \in B /\ x # p /\ x # n
    BY <1>1, <1>4, <1>5
  <2>2. QED
    BY <1>9, <1>11, <2>1, LinkedKept
<1>14. ChunkLists(g, c, T, S \ {b})
  <2>1. Limit(g, c) = Limit(h, c) /\ Get(g, c, ALLOC) = Get(h, c, ALLOC)
    BY <1>9 DEF LinksOnly, Frame, Limit
  <2>2. QED
    BY <1>3, <1>12, <1>13, <2>1 DEF ChunkLists
<1>15. Within(h, c, F \ {b}) = S \ {b} /\ \A d \in C \ {c} : Within(h, d, F \ {b}) = Within(h, d, F)
  <2>1. /\ Within(h, c, F \ {b}) = Within(h, c, F) \ {b}
        /\ \A d \in C \ {c} : Within(h, d, F \ {b}) = Within(h, d, F)
    BY <1>2, WithinChanged
  <2>2. QED
    BY <2>1 DEF S
<1>16. ASSUME NEW d \in C \ {c}, NEW x \in Within(h, d, B)
       PROVE  Get(g, x, NEXT) = Get(h, x, NEXT) /\ Get(g, x, PREV) = Get(h, x, PREV)
  <2>1. p # NULL => p \in Within(h, c, B)
    BY <1>4, <1>5
  <2>2. n # NULL => n \in Within(h, c, B)
    BY <1>4, <1>5
  <2>3. x \in B /\ x # NULL
    BY BlockNumbers
  <2>4. x # p /\ x # n
    BY <2>1, <2>2, <2>3, OneChunk
  <2>5. QED
    BY <1>9, <2>3, <2>4
<1>17. Shape(g, C, B, A, F \ {b})
  <2>1. \A d \in C \ {c} : Get(g, d, FREE) = Get(h, d, FREE) /\ Get(g, d, ALLOC) = Get(h, d, ALLOC)
    BY <1>9
  <2>2. ChunkLists(g, c, Within(h, c, A), Within(h, c, F \ {b}))
    BY <1>14, <1>15 DEF T
  <2>3. F \ {b} \subseteq B /\ A \cap (F \ {b}) = {}
    BY <1>1
  <2>4. QED
    BY <1>1, <1>9, <1>15, <1>16, <2>1, <2>2, <2>3, Relisted
<1>18. QED
  BY <1>9, <1>17 DEF g

\* A block in no list is put into the list of allocated blocks, in front of the
\* first one above it, or into an empty list.
LEMMA EnlistedShape ==
  ASSUME NEW h, NEW C, NEW B, NEW A, NEW F, Shape(h, C, B, A, F),
         NEW b \in B \ (A \cup F), NEW c \in C, BlockOf(h, B, c, b),
         NEW n, After(Within(h, c, A), b, n), n = NULL => Within(h, c, A) = {}
  PROVE  /\ Shape(insert_alloc(h, c, b, n), C, B, A \cup {b}, F)
         /\ LinksOnly(h, insert_alloc(h, c, b, n), C, B)
<1>. DEFINE S == Within(h, c, F)
            T == Within(h, c, A)
            p == IF n = NULL THEN NULL ELSE Get(h, n, PREV)
            g == insert_alloc(h, c, b, n)
<1>1. b \in B /\ A \subseteq B /\ F \subseteq B /\ A \cap F = {} /\ HeapType(h) /\ b \notin F /\ b \notin A
  BY DEF Shape
<1>2. b \in Within(h, c, B) /\ c + SizeofChunk <= b /\ b < Limit(h, c) /\ b \in Nat /\ b # NULL
  BY <1>1, InChunk
<1>3. ChunkLists(h, c, T, S)
  BY DEF Shape, Listed
<1>4. S \subseteq Nat \ {NULL} /\ S \subseteq F /\ T \subseteq A /\ T \subseteq Nat \ {NULL}
      /\ T \subseteq Within(h, c, B)
  BY <1>1, BlockNumbers
<1>5. n \in T \cup {NULL} /\ After(T, b, n)
  BY DEF After
<1>6. Before(T, b, p) /\ p \in T \cup {NULL}
  <2>1. CASE n = NULL
    BY <2>1 DEF Before
  <2>2. CASE n # NULL
    <3>1. n \in T /\ b < n /\ \A x \in T : x <= b \/ n <= x
      BY <1>5, <2>2 DEF After
    <3>2. Before(T, n, p)
      BY <1>3, <2>2, <3>1 DEF ChunkLists, Linked
    <3>. HIDE DEF p, T
    <3>3. \A x \in T : x \in Nat /\ x # NULL /\ x # b
      BY <1>1, <1>4
    <3>4. CASE p = NULL
      <4>1. \A x \in T : n <= x
        BY <3>2, <3>3, <3>4 DEF Before
      <4>2. \A x \in T : b <= x
        BY <1>2, <3>1, <3>3, <4>1
      <4>3. QED
        BY <3>4, <4>2 DEF Before
    <3>5. CASE p # NULL
      <4>1. p \in T /\ p < n /\ \A x \in T : x <= p \/ n <= x
        BY <3>2, <3>5 DEF Before
      <4>2. p < b /\ \A x \in T : x <= p \/ b <= x
        BY <1>2, <3>1, <3>3, <4>1
      <4>3. QED
        BY <4>1, <4>2 DEF Before
    <3>6. QED
      BY <3>4, <3>5
  <2>3. QED
    BY <2>1, <2>2
<1>7. g = link_alloc(h, c, b, n, p)
  BY DEF insert_alloc
<1>8. Slots(h, C, B)
  BY ShapeSlots DEF Shape
<1>9. p \in (B \ {b}) \cup {NULL} /\ n \in (B \ {b}) \cup {NULL}
  BY <1>1, <1>4, <1>5, <1>6
<1>. HIDE DEF g, p, S, T
<1>10. /\ LinksOnly(h, g, C, B)
       /\ Get(g, b, NEXT) = n /\ Get(g, b, PREV) = p
       /\ \A x \in B \ {b} : /\ Get(g, x, NEXT) = IF x = p THEN b ELSE Get(h, x, NEXT)
                             /\ Get(g, x, PREV) = IF x = n THEN b ELSE Get(h, x, PREV)
       /\ \A d \in C : /\ Get(g, d, FREE) = Get(h, d, FREE)
                       /\ Get(g, d, ALLOC) = IF d = c /\ p = NULL THEN b ELSE Get(h, d, ALLOC)
  BY <1>1, <1>7, <1>8, <1>9, LinkAllocWrites
<1>11. \A x \in T \cup S : x \in B \ {b}
  BY <1>1, <1>4
<1>12. PutIn(h, g, T, b, p, n)
  BY <1>10, <1>11 DEF PutIn
<1>13. Linked(h, S) /\ After(S, NULL, Get(h, c, FREE)) /\ Linked(h, T)
  BY <1>3 DEF ChunkLists
<1>14. Linked(g, T \cup {b})
  BY <1>1, <1>2, <1>4, <1>5, <1>6, <1>12, <1>13, PutLinked
<1>15. Linked(g, S)
  <2>1. \A x \in S : x \in B \ {b} /\ x # p /\ x # n
    BY <1>1, <1>4, <1>5, <1>6, <1>11
  <2>2. QED
    BY <1>10, <1>13, <2>1, LinkedKept
<1>16. ChunkLists(g, c, T \cup {b}, S)
  <2>1. Limit(g, c) = Limit(h, c) /\ Get(g, c, FREE) = Get(h, c, FREE)
    BY <1>10 DEF LinksOnly, Frame, Limit
  <2>2. \/ Get(g, c, ALLOC) = NULL
        \/ c + SizeofChunk <= Get(g, c, ALLOC) /\ Get(g, c, ALLOC) < Limit(g, c)
    BY <1>2, <1>3, <1>10, <2>1 DEF ChunkLists
  <2>3. ASSUME NEW x \in T \cup {b} PROVE Get(g, c, ALLOC) <= x
    <3>1. \A y \in T : y \in Nat /\ y # NULL /\ Get(h, c, ALLOC) <= y
      BY <1>3, <1>4 DEF ChunkLists
    <3>2. CASE p = NULL
      <4>1. Get(g, c, ALLOC) = b /\ \A y \in T : b <= y
        BY <1>6, <1>10, <3>1, <3>2 DEF Before
      <4>2. QED
        BY <1>2, <4>1
    <3>3. CASE p # NULL
      <4>1. Get(g, c, ALLOC) = Get(h, c, ALLOC) /\ p \in T /\ p < b
        BY <1>6, <1>10, <3>3 DEF Before
      <4>2. Get(h, c, ALLOC) \in Nat
        BY <1>1, GetType, WordFacts
      <4>3. QED
        BY <1>2, <3>1, <4>1, <4>2
    <3>4. QED
      BY <3>2, <3>3
  <2>4. QED
    BY <1>13, <1>14, <1>15, <2>1, <2>2, <2>3 DEF ChunkLists
<1>17. Within(h, c, A \cup {b}) = T \cup {b} /\ \A d \in C \ {c} : Within(h, d, A \cup {b}) = Within(h, d, A)
  BY <1>2, WithinChanged DEF T
<1>18. ASSUME NEW d \in C \ {c}, NEW x \in Within(h, d, B)
       PROVE  Get(g, x, NEXT) = Get(h, x, NEXT) /\ Get(g, x, PREV) = Get(h, x, PREV)
  <2>1. p # NULL => p \in Within(h, c, B)
    BY <1>4, <1>6
  <2>2. n # NULL => n \in Within(h, c, B)
    BY <1>4, <1>5
  <2>3. x \in B /\ x # NULL
    BY BlockNumbers
  <2>4. x # p /\ x # n /\ x # b
    BY <1>2, <2>1, <2>2, <2>3, OneChunk
  <2>5. QED
    BY <1>10, <2>3, <2>4
<1>19. Shape(g, C, B, A \cup {b}, F)
  <2>1. \A d \in C \ {c} : Get(g, d, FREE) = Get(h, d, FREE) /\ Get(g, d, ALLOC) = Get(h, d, ALLOC)
    BY <1>10
  <2>2. ChunkLists(g, c, Within(h, c, A \cup {b}), Within(h, c, F))
    BY <1>16, <1>17 DEF S
  <2>3. A \cup {b} \subseteq B /\ (A \cup {b}) \cap F = {}
    BY <1>1
  <2>4. QED
    BY <1>1, <1>10, <1>17, <1>18, <2>1, <2>2, <2>3, Relisted
<1>20. QED
  BY <1>10, <1>19 DEF g

\* freeing_up takes a block out of the list of allocated blocks.
LEMMA FreeingUpShape ==
  ASSUME NEW h, NEW C, NEW B, NEW A, NEW F, Shape(h, C, B, A, F),
         NEW b \in A, NEW c \in C, BlockOf(h, B, c, b)
  PROVE  Shape(freeing_up(h, b), C, B, A \ {b}, F) /\ LinksOnly(h, freeing_up(h, b), C, B)
<1>. DEFINE S == Within(h, c, F)
            T == Within(h, c, A)
            p == Get(h, b, PREV)
            n == Get(h, b, NEXT)
            g == freeing_up(h, b)
<1>1. b \in B /\ A \subseteq B /\ F \subseteq B /\ A \cap F = {} /\ HeapType(h)
  BY DEF Shape
<1>2. b \in T /\ b \in Within(h, c, B)
  BY <1>1, BlockPlace, ChunkPlace DEF Shape, Within
<1>3. ChunkLists(h, c, T, S)
  BY DEF Shape, Listed
<1>4. S \subseteq Nat \ {NULL} /\ S \subseteq F /\ T \subseteq A /\ T \subseteq Nat \ {NULL}
      /\ T \subseteq Within(h, c, B)
  BY <1>1, BlockNumbers
<1>5. p \in (T \ {b}) \cup {NULL} /\ n \in (T \ {b}) \cup {NULL}
  BY <1>2, <1>3, <1>4, Neighbours DEF ChunkLists
<1>6. g = SetIf(SetIf(h, p, NEXT, n), n, PREV, p)
  <2>1. chunk_from_block(h, b) # NULL
    BY <1>1, ChunkOfBlock, ChunkPlace DEF Shape, NULL
  <2>2. QED
    BY <1>1, <2>1, NoFencepost DEF freeing_up
<1>7. Slots(h, C, B)
  BY ShapeSlots DEF Shape
<1>8. p \in B \cup {NULL} /\ n \in B \cup {NULL}
  BY <1>1, <1>4, <1>5
<1>. HIDE DEF g, p, n, S, T
<1>9. /\ LinksOnly(h, g, C, B)
      /\ \A x \in B : /\ Get(g, x, NEXT) = IF x = p THEN n ELSE Get(h, x, NEXT)
                      /\ Get(g, x, PREV) = IF x = n THEN p ELSE Get(h, x, PREV)
      /\ \A d \in C : Get(g, d, ALLOC) = Get(h, d, ALLOC) /\ Get(g, d, FREE) = Get(h, d, FREE)
  BY <1>1, <1>6, <1>7, <1>8, BypassWrites, SMTT(25)
<1>10. CutOut(h, g, T, b)
  BY <1>1, <1>4, <1>9 DEF CutOut, p, n
<1>11. Linked(h, S) /\ After(S, NULL, Get(h, c, FREE)) /\ Linked(h, T)
  BY <1>3 DEF ChunkLists
<1>12. Linked(g, T \ {b})
  BY <1>2, <1>4, <1>10, <1>11, CutLinked
<1>13. Linked(g, S)
  <2>1. \A x \in S : x \in B /\ x # p /\ x # n
    BY <1>1, <1>4, <1>5
  <2>2. QED
    BY <1>9, <1>11, <2>1, LinkedKept
<1>14. ChunkLists(g, c, T \ {b}, S)
  <2>1. /\ Limit(g, c) = Limit(h, c) /\ Get(g, c, ALLOC) = Get(h, c, ALLOC)
        /\ Get(g, c, FREE) = Get(h, c, FREE)
    BY <1>9 DEF LinksOnly, Frame, Limit
  <2>2. QED
    BY <1>3, <1>11, <1>12, <1>13, <2>1 DEF ChunkLists
<1>15. Within(h, c, A \ {b}) = T \ {b} /\ \A d \in C \ {c} : Within(h, d, A \ {b}) = Within(h, d, A)
  BY <1>2, WithinChanged DEF T
<1>16. ASSUME NEW d \in C \ {c}, NEW x \in Within(h, d, B)
       PROVE  Get(g, x, NEXT) = Get(h, x, NEXT) /\ Get(g, x, PREV) = Get(h, x, PREV)
  <2>1. p # NULL => p \in Within(h, c, B)
    BY <1>4, <1>5
  <2>2. n # NULL => n \in Within(h, c, B)
    BY <1>4, <1>5
  <2>3. x \in B /\ x # NULL
    BY BlockNumbers
  <2>4. x # p /\ x # n
    BY <2>1, <2>2, <2>3, OneChunk
  <2>5. QED
    BY <1>9, <2>3, <2>4
<1>17. Shape(g, C, B, A \ {b}, F)
  <2>1. \A d \in C \ {c} : Get(g, d, FREE) = Get(h, d, FREE) /\ Get(g, d, ALLOC) = Get(h, d, ALLOC)
    BY <1>9
  <2>2. ChunkLists(g, c, Within(h, c, A \ {b}), Within(h, c, F))
    BY <1>14, <1>15 DEF S
  <2>3. A \ {b} \subseteq B /\ (A \ {b}) \cap F = {}
    BY <1>1
  <2>4. QED
    BY <1>1, <1>9, <1>15, <1>16, <2>1, <2>2, <2>3, Relisted
<1>18. QED
  BY <1>9, <1>17 DEF g

\* Where a loop along a list in order of address stops that looks for b, or
\* for its end.
LEMMA LoopStops ==
  ASSUME NEW S, S \subseteq Nat \ {NULL}, NEW s \in Seq(S), Elements(s) = S,
         \A j, k \in DOMAIN s : j < k => s[j] < s[k],
         NEW b \in Nat, b \notin S
  PROVE  /\ After(S, b, FirstWith(s, LAMBDA x : x >= b))
         /\ s # << >> /\ FirstWith(s, LAMBDA x : x >= b) = NULL => Before(S, b, s[Len(s)])
<1>. DEFINE H == {k \in DOMAIN s : s[k] >= b}
            k == CHOOSE k \in H : \A j \in H : k <= j
            n == FirstWith(s, LAMBDA x : x >= b)
<1>1. n = IF H = {} THEN NULL ELSE s[k]
  BY DEF FirstWith
<1>2. /\ DOMAIN s \subseteq Nat /\ \A j \in DOMAIN s : s[j] \in S /\ s[j] \in Nat /\ s[j] # NULL
      /\ \A x \in S : \E j \in DOMAIN s : s[j] = x
  <2>1. DOMAIN s \subseteq Nat /\ \A j \in DOMAIN s : s[j] \in S
    OBVIOUS
  <2>2. \A x \in S : x \in Nat /\ x # NULL
    OBVIOUS
  <2>3. \A x \in S : \E j \in DOMAIN s : s[j] = x
    BY DEF Elements
  <2>4. QED
    BY <2>1, <2>2, <2>3
<1>. HIDE DEF n, k
<1>3. CASE H = {}
  <2>1. \A x \in S : x \in Nat /\ x < b
    BY <1>2, <1>3
  <2>2. After(S, b, n)
    BY <1>1, <1>3, <2>1 DEF After
  <2>3. ASSUME s # << >> PROVE Before(S, b, s[Len(s)])
    <3>1. Len(s) \in DOMAIN s /\ DOMAIN s = 1 .. Len(s) /\ Len(s) \in Nat
      BY <2>3
    <3>2. s[Len(s)] \in S /\ s[Len(s)] < b
      BY <1>2, <2>1, <3>1
    <3>3. ASSUME NEW x \in S PROVE x <= s[Len(s)]
      <4>1. PICK j \in DOMAIN s : s[j] = x
        BY <1>2
      <4>2. j = Len(s) \/ j < Len(s)
        BY <3>1
      <4>3. QED
        BY <1>2, <3>1, <4>1, <4>2
    <3>4. QED
      BY <3>2, <3>3 DEF Before
  <2>4. QED
    BY <2>2, <2>3 DEF n
<1>4. CASE H # {}
  <2>1. k \in H /\ \A j \in H : k <= j
    BY <1>2, <1>4, LeastChosen DEF k
  <2>2. k \in DOMAIN s /\ s[k] \in S /\ s[k] \in Nat /\ s[k] # NULL /\ b < s[k] /\ k \in Nat
    BY <1>2, <2>1
  <2>3. ASSUME NEW x \in S PROVE x <= b \/ s[k] <= x
    <3>1. PICK j \in DOMAIN s : s[j] = x
      BY <1>2
    <3>2. j \in Nat /\ x \in Nat
      BY <1>2, <3>1
    <3>3. CASE x < b
      BY <3>2, <3>3
    <3>4. CASE x >= b
      <4>1. j \in H
        BY <3>1, <3>4
      <4>2. k <= j
        BY <2>1, <4>1
      <4>3. k = j \/ k < j
        BY <2>2, <3>2, <4>2
      <4>4. QED
        BY <2>2, <3>1, <3>2, <4>3
    <3>5. QED
      BY <3>2, <3>3, <3>4
  <2>4. n = s[k]
    BY <1>1, <1>4
  <2>5. QED
    BY <2>2, <2>3, <2>4 DEF After, n
<1>5. QED
  BY <1>3, <1>4

\* A freed block, in no list, is put into the free list of its chunk.
LEMMA InsertFreeShape ==
  ASSUME NEW h, NEW C, NEW B, NEW A, NEW F, Shape(h, C, B, A, F),
         NEW b \in B \ (A \cup F), NEW c \in C, BlockOf(h, B, c, b)
  PROVE  /\ Shape(insert_free(h, c, b), C, B, A, F \cup {b})
         /\ LinksOnly(h, insert_free(h, c, b), C, B)
<1>. DEFINE S == Within(h, c, F)
            T == Within(h, c, A)
            s == FreeChain(h, c)
            n == FirstWith(s, LAMBDA x : x >= b)
            last == IF s = << >> THEN NULL ELSE s[Len(s)]
            p == IF n = NULL THEN last ELSE Get(h, n, PREV)
            g == insert_free(h, c, b)
<1>1. b \in B /\ A \subseteq B /\ F \subseteq B /\ A \cap F = {} /\ HeapType(h) /\ b \notin F /\ b \notin A
  BY DEF Shape
<1>2. b \in Within(h, c, B) /\ b \in Nat /\ b # NULL
  BY <1>1, InChunk
<1>3. ChunkLists(h, c, T, S)
  BY DEF Shape, Listed
<1>4. S \subseteq Nat \ {NULL} /\ S \subseteq F /\ T \subseteq A /\ S \subseteq Within(h, c, B)
      /\ b \notin S
  BY <1>1, BlockNumbers
<1>5. /\ s \in Seq(S) /\ Elements(s) = S
      /\ \A j, k \in DOMAIN s : j < k => s[j] < s[k]
  BY FreeListMet
<1>6. g = link_free(h, c, p, b, n)
  BY DEF insert_free
<1>. HIDE DEF s, g, S, T
<1>7. After(S, b, n) /\ (s # << >> /\ n = NULL => Before(S, b, s[Len(s)]))
  BY <1>2, <1>4, <1>5, LoopStops
<1>8. Linked(h, S) /\ After(S, NULL, Get(h, c, FREE)) /\ Linked(h, T)
  BY <1>3 DEF ChunkLists
<1>. HIDE DEF n
<1>9. Before(S, b, p)
  <2>1. CASE n = NULL /\ s = << >>
    <3>1. S = {}
      BY <1>5, <2>1 DEF Elements
    <3>2. QED
      BY <2>1, <3>1 DEF Before
  <2>2. CASE n = NULL /\ s # << >>
    BY <1>7, <2>2
  <2>3. CASE n # NULL
    <3>1. n \in S /\ b < n /\ \A x \in S : x <= b \/ n <= x
      BY <1>7, <2>3 DEF After
    <3>2. Before(S, n, Get(h, n, PREV)) /\ p = Get(h, n, PREV)
      BY <1>8, <2>3, <3>1 DEF Linked
    <3>. HIDE DEF p
    <3>3. \A x \in S : x \in Nat /\ x # NULL /\ x # b
      BY <1>4
    <3>4. CASE p = NULL
      <4>1. \A x \in S : n <= x
        BY <3>2, <3>3, <3>4 DEF Before
      <4>2. \A x \in S : b <= x
        BY <1>2, <3>1, <3>3, <4>1
      <4>3. QED
        BY <3>4, <4>2 DEF Before
    <3>5. CASE p # NULL
      <4>1. p \in S /\ p < n /\ \A x \in S : x <= p \/ n <= x
        BY <3>2, <3>5 DEF Before
      <4>2. p < b /\ \A x \in S : x <= p \/ b <= x
        BY <1>2, <3>1, <3>3, <4>1
      <4>3. QED
        BY <4>1, <4>2 DEF Before
    <3>6. QED
      BY <3>4, <3>5
  <2>4. QED
    BY <2>1, <2>2, <2>3
<1>. HIDE DEF p
<1>10. n \in S \cup {NULL} /\ p \in S \cup {NULL}
  BY <1>7, <1>9 DEF After, Before
<1>11. n = Get(h, c, FREE) <=> p = NULL
  <2>1. \A x \in S : x \in Nat /\ x # NULL /\ x # b /\ 0 < x
    BY <1>4 DEF NULL
  <2>2. ASSUME p = NULL PROVE n = Get(h, c, FREE)
    <3>1. \A x \in S : b < x
      BY <1>2, <1>9, <2>1, <2>2 DEF Before
    <3>2. After(S, NULL, n)
      BY <1>2, <1>7, <2>1, <3>1 DEF After, NULL
    <3>3. NULL \in Nat
      BY DEF NULL
    <3>4. QED
      BY <1>4, <1>8, <3>2, <3>3, AfterUnique
  <2>3. ASSUME n = Get(h, c, FREE), p # NULL PROVE FALSE
    <3>1. p \in S /\ p < b
      BY <1>9, <2>3 DEF Before
    <3>2. n \in S /\ n <= p
      BY <1>8, <2>1, <2>3, <3>1 DEF After, NULL
    <3>3. b < n
      BY <1>7, <2>1, <3>2 DEF After
    <3>4. QED
      BY <1>2, <2>1, <3>1, <3>2, <3>3
  <2>4. QED
    BY <2>2, <2>3
<1>12. Slots(h, C, B)
  BY ShapeSlots DEF Shape
<1>13. p \in (B \ {b}) \cup {NULL} /\ n \in (B \ {b}) \cup {NULL}
  BY <1>1, <1>4, <1>10
<1>14. /\ LinksOnly(h, g, C, B)
       /\ Get(g, b, NEXT) = n /\ Get(g, b, PREV) = p
       /\ \A x \in B \ {b} : /\ Get(g, x, NEXT) = IF x = p THEN b ELSE Get(h, x, NEXT)
                             /\ Get(g, x, PREV) = IF x = n THEN b ELSE Get(h, x, PREV)
       /\ \A d \in C : /\ Get(g, d, ALLOC) = Get(h, d, ALLOC)
                       /\ Get(g, d, FREE) =
                            IF d = c /\ n = Get(h, c, FREE) THEN b ELSE Get(h, d, FREE)
  BY <1>1, <1>6, <1>12, <1>13, LinkFreeWrites
<1>15. \A x \in S \cup T : x \in B \ {b}
  BY <1>1, <1>4
<1>16. PutIn(h, g, S, b, p, n)
  BY <1>14, <1>15 DEF PutIn
<1>17. Linked(g, S \cup {b}) /\ After(S \cup {b}, NULL, Get(g, c, FREE))
  <2>1. Linked(g, S \cup {b})
    BY <1>2, <1>4, <1>7, <1>8, <1>9, <1>16, PutLinked
  <2>2. Get(g, c, FREE) = IF p = NULL THEN b ELSE Get(h, c, FREE)
    BY <1>11, <1>14
  <2>3. QED
    BY <1>2, <1>4, <1>8, <1>9, <2>1, <2>2, PutHead
<1>18. Linked(g, T)
  <2>1. \A x \in T : x \in B \ {b} /\ x # p /\ x # n
    BY <1>1, <1>4, <1>10, <1>15, BlockNumbers
  <2>2. QED
    BY <1>8, <1>14, <2>1, LinkedKept
<1>19. ChunkLists(g, c, T, S \cup {b})
  <2>1. Limit(g, c) = Limit(h, c) /\ Get(g, c, ALLOC) = Get(h, c, ALLOC)
    BY <1>14 DEF LinksOnly, Frame, Limit
  <2>2. QED
    BY <1>3, <1>17, <1>18, <2>1 DEF ChunkLists
<1>20. Within(h, c, F \cup {b}) = S \cup {b} /\ \A d \in C \ {c} : Within(h, d, F \cup {b}) = Within(h, d, F)
  BY <1>2, WithinChanged DEF S
<1>21. ASSUME NEW d \in C \ {c}, NEW x \in Within(h, d, B)
       PROVE  Get(g, x, NEXT) = Get(h, x, NEXT) /\ Get(g, x, PREV) = Get(h, x, PREV)
  <2>1. p # NULL => p \in Within(h, c, B)
    BY <1>4, <1>10
  <2>2. n # NULL => n \in Within(h, c, B)
    BY <1>4, <1>10
  <2>3. x \in B /\ x # NULL
    BY BlockNumbers
  <2>4. x # p /\ x # n /\ x # b
    BY <1>2, <2>1, <2>2, <2>3, OneChunk
  <2>5. QED
    BY <1>14, <2>3, <2>4
<1>22. Shape(g, C, B, A, F \cup {b})
  <2>1. \A d \in C \ {c} : Get(g, d, FREE) = Get(h, d, FREE) /\ Get(g, d, ALLOC) = Get(h, d, ALLOC)
    BY <1>14
  <2>2. ChunkLists(g, c, Within(h, c, A), Within(h, c, F \cup {b}))
    BY <1>19, <1>20 DEF T
  <2>3. F \cup {b} \subseteq B /\ A \cap (F \cup {b}) = {}
    BY <1>1
  <2>4. QED
    BY <1>1, <1>14, <1>20, <1>21, <2>1, <2>2, <2>3, Relisted
<1>23. QED
  BY <1>14, <1>22 DEF g


-----------------------------------------------------------------------------
(* Joining and splitting *)

\* Where a block ends in front of a block, both are of one chunk.
LEMMA SameChunk ==
  ASSUME NEW h, NEW C, NEW B, NEW A, NEW F, Shape(h, C, B, A, F),
         NEW a \in B, NEW b \in B, EndOf(h, a) = b, NEW c \in C, BlockOf(h, B, c, a)
  PROVE  BlockOf(h, B, c, b) /\ a < b /\ b \in Within(h, c, B) /\ a \in Within(h, c, B)
<1>1. /\ a \in Nat /\ c + 48 <= a /\ a + 32 <= b /\ b <= Limit(h, c) /\ a < Limit(h, c) /\ b \in Nat
  BY BlockPlace DEF Shape
<1>2. PICK d \in C : BlockOf(h, B, d, b)
  BY DEF Shape, Tiled
<1>3. d + 48 <= b /\ b < Limit(h, d)
  BY <1>2, BlockPlace DEF Shape
<1>4. c \in Nat /\ Limit(h, c) \in Nat /\ d \in Nat /\ Limit(h, d) \in Nat
  BY ChunkPlace DEF Shape
<1>5. c = d \/ Limit(h, c) <= d \/ Limit(h, d) <= c
  BY ChunksApart DEF Shape
<1>6. c = d
  BY <1>1, <1>3, <1>4, <1>5
<1>7. QED
  BY <1>1, <1>2, <1>3, <1>4, <1>6 DEF Within

\* join merges two free blocks that are neighbours.
LEMMA JoinShape ==
  ASSUME NEW h, NEW C, NEW B, NEW A, NEW F, Shape(h, C, B, A, F),
         NEW a \in F, NEW b \in F, EndOf(h, a) = b
  PROVE  LET g == join(h, a, b)
         IN  /\ Shape(g, C, B \ {b}, A, F \ {b})
             /\ \A x \in B \ {b} :
                  Get(g, x, SIZE) = IF x = a THEN Get(h, a, SIZE) + Get(h, b, SIZE) ELSE Get(h, x, SIZE)
             /\ \A x \in B \ {b} : Get(g, x, PREV) = IF x = Get(h, b, NEXT) THEN a ELSE Get(h, x, PREV)
             /\ Frame(h, g)
<1>. DEFINE n == Get(h, b, NEXT)
            g == join(h, a, b)
<1>1. a \in B /\ b \in B /\ A \subseteq B /\ F \subseteq B /\ A \cap F = {} /\ HeapType(h) /\ a \notin A /\ b \notin A
  BY DEF Shape
<1>2. PICK c \in C : BlockOf(h, B, c, a)
  BY <1>1, Home
<1>. DEFINE S == Within(h, c, F)
            T == Within(h, c, A)
<1>3. BlockOf(h, B, c, b) /\ a < b /\ b \in Within(h, c, B) /\ a \in Within(h, c, B)
  BY <1>1, <1>2, SameChunk
<1>4. a \in S /\ b \in S
  BY <1>3 DEF Within
<1>5. S \subseteq Nat \ {NULL} /\ S \subseteq F /\ T \subseteq A /\ T \subseteq Nat \ {NULL}
      /\ S \subseteq Within(h, c, B)
  BY <1>1, BlockNumbers
<1>6. ChunkLists(h, c, T, S)
  BY DEF Shape, Listed
<1>7. Linked(h, S) /\ After(S, NULL, Get(h, c, FREE)) /\ Linked(h, T)
  BY <1>6 DEF ChunkLists
<1>8. \A x \in B : a < x => b <= x
  BY <1>1 DEF Shape, Tiled
<1>9. Get(h, a, NEXT) = b /\ Get(h, b, PREV) = a
  <2>1. \A x \in S : x \in Nat /\ x \in B
    BY <1>1, <1>5
  <2>2. After(S, a, b)
    BY <1>3, <1>4, <1>8, <2>1 DEF After
  <2>3. After(S, a, Get(h, a, NEXT))
    BY <1>4, <1>7 DEF Linked
  <2>4. Get(h, a, NEXT) = b
    BY <1>4, <1>5, <2>1, <2>2, <2>3, AfterUnique
  <2>5. QED
    BY <1>4, <1>5, <1>7, <2>4, NextIsAfter
<1>10. n \in (S \ {b}) \cup {NULL} /\ After(S, b, n)
  BY <1>4, <1>5, <1>7, Neighbours
<1>11. a \in Nat /\ b \in Nat /\ n # a
  <2>1. a \in Nat /\ b \in Nat /\ a # NULL
    BY <1>4, <1>5
  <2>2. QED
    BY <1>3, <1>10, <2>1 DEF After
<1>12. Slots(h, C, B) /\ n \in (B \ {a}) \cup {NULL}
  BY <1>1, <1>5, <1>10, <1>11, ShapeSlots DEF Shape
<1>. HIDE DEF g, n, S, T
<1>13. /\ Frame(h, g)
       /\ \A x \in B : /\ Get(g, x, SIZE) = IF x = a THEN Wrap(Get(h, a, SIZE) + Get(h, b, SIZE))
                                            ELSE Get(h, x, SIZE)
                       /\ Get(g, x, NEXT) = IF x = a THEN n ELSE Get(h, x, NEXT)
                       /\ Get(g, x, PREV) = IF x = n THEN a ELSE Get(h, x, PREV)
       /\ \A d \in C : \A k \in ChunkFields : Get(g, d, k) = Get(h, d, k)
  <2>1. a # b
    BY <1>3, <1>11
  <2>2. QED
    BY <1>1, <1>12, <2>1, JoinWrites DEF g, n
<1>14. /\ Get(h, a, SIZE) \in Nat /\ Get(h, b, SIZE) \in Nat /\ Get(h, a, SIZE) >= 32
       /\ EndOf(h, b) \in Words /\ EndOf(h, b) \in Nat
       /\ EndOf(h, b) <= Limit(h, c) /\ b < EndOf(h, b) /\ b < Limit(h, c)
  BY <1>1, <1>2, <1>3, BlockPlace DEF Shape
<1>15. Wrap(Get(h, a, SIZE) + Get(h, b, SIZE)) = Get(h, a, SIZE) + Get(h, b, SIZE)
  <2>. DEFINE sum == Get(h, a, SIZE) + Get(h, b, SIZE)
  <2>1. sum \in Nat /\ a + sum = EndOf(h, b)
    BY <1>11, <1>14 DEF EndOf
  <2>2. sum <= EndOf(h, b)
    BY <1>11, <1>14, <2>1
  <2>3. sum \in Words
    BY <1>14, <2>1, <2>2, WordBelow
  <2>4. QED
    BY <2>1, <2>3, WrapFacts
<1>16. /\ \A d \in C : /\ Get(g, d, NEXT) = Get(h, d, NEXT) /\ Get(g, d, PREV) = Get(h, d, PREV)
                       /\ Get(g, d, FREE) = Get(h, d, FREE) /\ Get(g, d, ALLOC) = Get(h, d, ALLOC)
                       /\ Get(g, d, CHUNK_SIZE) = Get(h, d, CHUNK_SIZE)
       /\ \A d : Limit(g, d) = Limit(h, d)
  BY <1>13 DEF ChunkFields, Frame, Limit
<1>17. \A x \in B \ {b} : EndOf(g, x) = IF x = a THEN EndOf(h, b) ELSE EndOf(h, x)
  BY <1>11, <1>13, <1>14, <1>15 DEF EndOf
<1>18. \A x \in B : x \in Nat /\ EndOf(h, x) \in Nat /\ x < EndOf(h, x)
  <2>1. SUFFICES ASSUME NEW x \in B PROVE x \in Nat /\ EndOf(h, x) \in Nat /\ x < EndOf(h, x)
    OBVIOUS
  <2>2. PICK d \in C : BlockOf(h, B, d, x)
    BY Home
  <2>3. x \in Nat /\ EndOf(h, x) \in Nat /\ x + 32 <= EndOf(h, x)
    BY <2>2, BlockPlace DEF Shape
  <2>4. QED
    BY <2>3
<1>19. \A x, y \in B : x < y => EndOf(h, x) <= y
  BY DEF Shape, Tiled
<1>20. Tiled(g, C, B \ {b})
  <2>1. ASSUME NEW d \in C PROVE d + SizeofChunk \in B \ {b} /\ Get(g, d, CHUNK_SIZE) = g.maps[d]
    <3>1. d + SizeofChunk \in B /\ Get(h, d, CHUNK_SIZE) = h.maps[d]
      BY DEF Shape, Tiled
    <3>2. d + SizeofChunk # b
      <4>1. SUFFICES ASSUME d + 48 = b PROVE FALSE
        BY DEF SizeofChunk
      <4>2. d \in Nat /\ d + 80 <= Limit(h, d) /\ Limit(h, d) \in Nat
        BY ChunkPlace DEF Shape
      <4>3. b \in Within(h, d, B)
        BY <1>1, <1>11, <4>1, <4>2 DEF Within
      <4>4. d = c
        BY <1>3, <4>3, OneChunk
      <4>5. c + 48 <= a
        BY <1>1, <1>2, BlockPlace DEF Shape
      <4>6. QED
        BY <1>3, <1>11, <4>1, <4>2, <4>4, <4>5
    <3>3. QED
      BY <1>13, <1>16, <3>1, <3>2 DEF Frame
  <2>2. ASSUME NEW x \in B \ {b}
        PROVE  /\ x \in Nat /\ x % kAlignment = 0
               /\ Get(g, x, SIZE) >= kMetadataSize + kMinAllocationSize
               /\ \E d \in C : BlockOf(g, B \ {b}, d, x)
    <3>1. x \in Nat /\ x % kAlignment = 0 /\ Get(h, x, SIZE) >= kMetadataSize + kMinAllocationSize
      BY DEF Shape, Tiled
    <3>2. Get(g, x, SIZE) >= kMetadataSize + kMinAllocationSize
      BY <1>13, <1>14, <1>15, <3>1 DEF kMetadataSize, kMinAllocationSize, kAlignment
    <3>3. PICK d \in C : BlockOf(h, B, d, x)
      BY Home
    <3>4. x # a => EndOf(h, x) # b
      <4>1. x < a \/ x = a \/ a < x
        BY <1>11, <3>1
      <4>2. ASSUME x < a PROVE EndOf(h, x) # b
        BY <1>1, <1>3, <1>11, <1>18, <1>19, <4>2
      <4>3. ASSUME a < x PROVE EndOf(h, x) # b
        BY <1>8, <1>11, <1>18, <4>3
      <4>4. QED
        BY <4>1, <4>2, <4>3
    <3>5. /\ d + SizeofChunk <= x /\ EndOf(g, x) <= Limit(h, d)
          /\ EndOf(g, x) = Limit(h, d) \/ EndOf(g, x) \in B \ {b}
      <4>1. CASE x = a
        <5>1. d = c
          <6>1. a \in Within(h, d, B)
            BY <3>3, <4>1, BlockPlace, ChunkPlace DEF Shape, Within
          <6>2. QED
            BY <1>3, <6>1, OneChunk
        <5>2. EndOf(g, x) = EndOf(h, b)
          BY <1>17, <4>1
        <5>3. EndOf(h, b) # b
          BY <1>11, <1>14
        <5>4. QED
          BY <1>3, <3>3, <5>1, <5>2, <5>3 DEF BlockOf
      <4>2. CASE x # a
        BY <1>17, <3>3, <3>4, <4>2 DEF BlockOf
      <4>3. QED
        BY <4>1, <4>2
    <3>6. x = d + SizeofChunk \/ \E y \in B \ {b} : EndOf(g, y) = x
      <4>1. CASE x = d + SizeofChunk
        BY <4>1
      <4>2. CASE x # d + SizeofChunk
        <5>1. PICK y \in B : EndOf(h, y) = x
          BY <3>3, <4>2 DEF BlockOf
        <5>2. y # a
          BY <5>1
        <5>3. CASE y = b
          <6>1. a \in B \ {b} /\ EndOf(g, a) = x
            BY <1>1, <1>3, <1>11, <1>17, <5>1, <5>3
          <6>2. QED
            BY <6>1
        <5>4. CASE y # b
          BY <1>17, <5>1, <5>2, <5>4
        <5>5. QED
          BY <5>3, <5>4
      <4>3. QED
        BY <4>1, <4>2
    <3>7. BlockOf(g, B \ {b}, d, x)
      BY <1>16, <3>5, <3>6 DEF BlockOf
    <3>8. QED
      BY <3>1, <3>2, <3>7
  <2>3. ASSUME NEW x \in B \ {b}, NEW y \in B \ {b}, x < y PROVE EndOf(g, x) <= y
    <3>1. CASE x = a
      <4>1. b < y
        BY <1>8, <1>11, <1>18, <2>3, <3>1
      <4>2. QED
        BY <1>1, <1>17, <1>19, <3>1, <4>1
    <3>2. CASE x # a
      BY <1>17, <1>19, <2>3, <3>2
    <3>3. QED
      BY <3>1, <3>2
  <2>4. QED
    BY <2>1, <2>2, <2>3 DEF Tiled
<1>21. CutOut(h, g, S, b)
  BY <1>1, <1>5, <1>9, <1>13 DEF CutOut, n
<1>22. Linked(g, S \ {b}) /\ After(S \ {b}, NULL, Get(g, c, FREE))
  <2>1. Linked(g, S \ {b})
    BY <1>4, <1>5, <1>7, <1>21, CutLinked
  <2>2. Get(h, b, PREV) # NULL
    BY <1>4, <1>5, <1>9
  <2>3. After(S \ {b}, NULL, Get(h, c, FREE))
    BY <1>4, <1>5, <1>7, <2>2, CutHead
  <2>4. QED
    BY <1>16, <2>1, <2>3
<1>23. Linked(g, T)
  <2>1. \A x \in T : x \in B /\ x # a /\ x # n
    BY <1>1, <1>5, <1>10
  <2>2. QED
    BY <1>7, <1>13, <2>1, LinkedKept
<1>24. ChunkLists(g, c, T, S \ {b})
  BY <1>6, <1>16, <1>22, <1>23 DEF ChunkLists
<1>25. Within(h, c, F \ {b}) = S \ {b} /\ \A d \in C \ {c} : Within(h, d, F \ {b}) = Within(h, d, F)
  <2>1. b \in Within(h, c, B)
    BY <1>3
  <2>2. Within(h, c, F \ {b}) = Within(h, c, F) \ {b}
    BY <2>1, WithinChanged
  <2>3. ASSUME NEW d \in C \ {c} PROVE Within(h, d, F \ {b}) = Within(h, d, F)
    <3>1. b \notin Within(h, d, B)
      BY <2>1, OneChunk
    <3>2. ~(d <= b /\ b < Limit(h, d))
      BY <1>1, <3>1 DEF Within
    <3>3. QED
      BY <3>2 DEF Within
  <2>4. QED
    BY <2>2, <2>3 DEF S
<1>26. ASSUME NEW d \in C \ {c}, NEW x \in Within(h, d, B)
       PROVE  Get(g, x, NEXT) = Get(h, x, NEXT) /\ Get(g, x, PREV) = Get(h, x, PREV)
  <2>1. n # NULL => n \in Within(h, c, B)
    BY <1>5, <1>10
  <2>2. x \in B /\ x # NULL
    BY BlockNumbers
  <2>3. x # a /\ x # n
    BY <1>3, <2>1, <2>2, OneChunk
  <2>4. QED
    BY <1>13, <2>2, <2>3
<1>27. Shape(g, C, B \ {b}, A, F \ {b})
  <2>. DEFINE B2 == B \ {b}
              F2 == F \ {b}
  <2>1. \A d \in C \ {c} :
          /\ Within(h, d, A) = Within(h, d, A) /\ Within(h, d, F2) = Within(h, d, F)
          /\ Get(g, d, FREE) = Get(h, d, FREE) /\ Get(g, d, ALLOC) = Get(h, d, ALLOC)
          /\ \A x \in Within(h, d, B) :
               Get(g, x, NEXT) = Get(h, x, NEXT) /\ Get(g, x, PREV) = Get(h, x, PREV)
    BY <1>16, <1>25, <1>26
  <2>2. ChunkLists(g, c, Within(h, c, A), Within(h, c, F2))
    BY <1>24, <1>25 DEF T
  <2>3. A \subseteq B2 /\ F2 \subseteq B2 /\ A \cap F2 = {}
    BY <1>1
  <2>4. \A d \in C : Get(g, d, NEXT) = Get(h, d, NEXT) /\ Get(g, d, PREV) = Get(h, d, PREV)
    BY <1>16
  <2>5. Frame(h, g) /\ Tiled(g, C, B2)
    BY <1>13, <1>20
  <2>. HIDE DEF B2, F2
  <2>6. Shape(g, C, B2, A, F2)
    BY <2>1, <2>2, <2>3, <2>4, <2>5, Relaid
  <2>7. QED
    BY <2>6 DEF B2, F2
<1>28. QED
  BY <1>13, <1>15, <1>27 DEF g, n

\* r is the memory h after its free block b gave its last n bytes to a new block.
Splits(h, C, B, A, F, b, n, r) ==
  LET right == EndOf(h, b) - n
  IN  /\ r = [m |-> r.m, block |-> right]
      /\ right \in Nat \ B /\ b < right
      /\ Shape(r.m, C, B \cup {right}, A, F \cup {right})
      /\ Frame(h, r.m)
      /\ Get(r.m, right, SIZE) = n
      /\ \A x \in B : Get(r.m, x, SIZE) = IF x = b THEN Get(h, b, SIZE) - n ELSE Get(h, x, SIZE)

\* split_block cuts a free block in two free ones, the upper of the size asked.
LEMMA SplitShape ==
  ASSUME NEW h, NEW C, NEW B, NEW A, NEW F, Shape(h, C, B, A, F), NEW b \in F,
         NEW n \in Nat, n % 8 = 0, n >= 32, Get(h, b, SIZE) >= n + 32, NEW r \in split_block(h, b, n)
  PROVE  Splits(h, C, B, A, F, b, n, r)
<1>. DEFINE right == EndOf(h, b) - n
            rest  == Get(h, b, SIZE) - n
            cut   == Set(h, b, SIZE, Wrap(rest))
            x     == Get(h, b, NEXT)
            g     == lay_right(cut, b, right, n)
            B2    == B \cup {right}
            F2    == F \cup {right}
<1>1. b \in B /\ A \subseteq B /\ F \subseteq B /\ A \cap F = {} /\ HeapType(h) /\ b \notin A
  BY DEF Shape
<1>2. PICK c \in C : BlockOf(h, B, c, b)
  BY <1>1, Home
<1>. DEFINE S == Within(h, c, F)
            T == Within(h, c, A)
<1>3. /\ b \in Nat /\ b > 0 /\ b % 8 = 0 /\ Get(h, b, SIZE) \in Nat /\ EndOf(h, b) \in Nat /\ b \in Words
      /\ EndOf(h, b) \in Words
      /\ c + 48 <= b /\ EndOf(h, b) <= Limit(h, c) /\ EndOf(h, b) = b + Get(h, b, SIZE)
  BY <1>1, <1>2, BlockPlace DEF Shape, EndOf
<1>4. c \in Nat /\ c > 0 /\ Limit(h, c) \in Nat /\ Limit(h, c) % 8 = 0 /\ Limit(h, c) \in Words
  BY ChunkPlace DEF Shape
<1>5. EndOf(h, b) % 8 = 0
  <2>1. EndOf(h, b) = Limit(h, c) \/ EndOf(h, b) \in B
    BY <1>2 DEF BlockOf
  <2>2. QED
    BY <1>4, <2>1 DEF Shape, Tiled, kAlignment
<1>6. /\ right \in Nat /\ b + 32 <= right /\ right + n = EndOf(h, b) /\ right % 8 = 0
      /\ rest \in Nat /\ rest >= 32 /\ b + rest = right /\ right < Limit(h, c) /\ c + 48 <= right
  BY <1>3, <1>4, <1>5
<1>7. rest \in Words /\ right \in Words /\ n \in Words /\ Wrap(rest) = rest
  <2>1. rest <= EndOf(h, b) /\ right <= EndOf(h, b) /\ n <= EndOf(h, b)
    BY <1>3, <1>6
  <2>2. rest \in Nat /\ right \in Nat /\ rest \in Int
    BY <1>6
  <2>. HIDE DEF rest, right
  <2>3. rest \in Words /\ right \in Words /\ n \in Words
    BY <1>3, <2>1, <2>2, WordBelow
  <2>4. QED
    BY <2>2, <2>3, WrapFacts
<1>. HIDE DEF rest, right
<1>8. \A y \in B : y \in Nat /\ EndOf(h, y) \in Nat /\ y + 32 <= EndOf(h, y)
  <2>1. SUFFICES ASSUME NEW y \in B PROVE y \in Nat /\ EndOf(h, y) \in Nat /\ y + 32 <= EndOf(h, y)
    OBVIOUS
  <2>2. PICK d \in C : BlockOf(h, B, d, y)
    BY Home
  <2>3. QED
    BY <2>2, BlockPlace DEF Shape
<1>9. \A y, z \in B : y < z => EndOf(h, y) <= z
  BY DEF Shape, Tiled
<1>10. \A y \in B : b < y => EndOf(h, b) <= y
  BY <1>1, <1>9
<1>11. \A y \in B : y # right /\ (y <= b \/ EndOf(h, b) <= y)
  BY <1>3, <1>6, <1>8, <1>10
<1>12. Slots(h, C, B) /\ right + 16 \in DOMAIN h.mem /\ right + 8 \in DOMAIN h.mem /\ right \in DOMAIN h.mem
  <2>1. \A f \in {0, 8, 16} : right + f \in Nat /\ c <= right + f /\ right + f < Limit(h, c)
                              /\ (right + f) % 8 = 0
    BY <1>3, <1>4, <1>6
  <2>2. \A f \in {0, 8, 16} : right + f \in DOMAIN h.mem
    BY <2>1 DEF Shape, Mapping, kAlignment
  <2>3. right + 0 = right
    BY <1>6
  <2>4. QED
    BY <2>2, <2>3, ShapeSlots DEF Shape
<1>13. Slots(h, C, B2)
  <2>1. right \in Words \ {NULL} /\ {right, right + 8, right + 16} \subseteq DOMAIN h.mem
    BY <1>3, <1>6, <1>7, <1>12 DEF NULL
  <2>2. ASSUME NEW y \in B PROVE (y < right => y + 24 <= right) /\ (right < y => right + 24 <= y)
    <3>1. y = b \/ y < b \/ EndOf(h, b) <= y
      BY <1>3, <1>8, <1>11
    <3>2. y < b => EndOf(h, y) <= b
      BY <1>1, <1>9
    <3>3. QED
      BY <1>3, <1>6, <1>8, <3>1, <3>2
  <2>3. ASSUME NEW d \in C PROVE d + 48 <= right \/ right + 24 <= d
    <3>1. d \in Nat /\ Limit(h, d) \in Nat /\ d + 80 <= Limit(h, d)
      BY ChunkPlace DEF Shape
    <3>2. c = d \/ Limit(h, c) <= d \/ Limit(h, d) <= c
      BY ChunksApart DEF Shape
    <3>3. QED
      BY <1>3, <1>4, <1>6, <3>1, <3>2
  <2>4. ASSUME NEW y \in B2, NEW z \in B2, y < z PROVE y + 24 <= z
    <3>1. CASE y = right /\ z = right
      BY <1>6, <2>4, <3>1
    <3>2. CASE y = right /\ z \in B
      BY <2>2, <2>4, <3>2
    <3>3. CASE y \in B /\ z = right
      BY <2>2, <2>4, <3>3
    <3>4. CASE y \in B /\ z \in B
      BY <1>12, <2>4, <3>4 DEF Slots
    <3>5. QED
      BY <3>1, <3>2, <3>3, <3>4
  <2>5. B2 \subseteq Words \ {NULL} /\ \A y \in B2 : {y, y + 8, y + 16} \subseteq DOMAIN h.mem
    BY <1>12, <2>1 DEF Slots
  <2>6. \A d \in C, y \in B2 : d + 48 <= y \/ y + 24 <= d
    BY <1>12, <2>3 DEF Slots
  <2>. HIDE DEF B2
  <2>7. QED
    BY <1>12, <2>4, <2>5, <2>6 DEF Slots
<1>14. Writes(h, cut, C, B2, b, SIZE, rest) /\ HeapType(cut) /\ Slots(cut, C, B2)
  <2>1. SIZE \in BlockFields /\ b \in B2
    BY <1>1 DEF BlockFields
  <2>. HIDE DEF B2
  <2>2. Writes(h, cut, C, B2, b, SIZE, rest)
    BY <1>1, <1>7, <1>13, <2>1, BlockWrite
  <2>3. QED
    BY <1>13, <2>2, SlotsKept DEF Writes, Frame
<1>15. /\ \A y \in B : y \notin C /\ y # NULL
       /\ \A y \in B2 : /\ Get(cut, y, SIZE) = IF y = b THEN rest ELSE Get(h, y, SIZE)
                        /\ Get(cut, y, NEXT) = Get(h, y, NEXT) /\ Get(cut, y, PREV) = Get(h, y, PREV)
       /\ \A d \in C : \A k \in ChunkFields : Get(cut, d, k) = Get(h, d, k)
       /\ Frame(h, cut)
  <2>1. \A y \in B : y \notin C /\ y # NULL
    BY <1>12, SlotsApart
  <2>2. QED
    BY <1>1, <1>14, <2>1 DEF Writes, BlockFields, SIZE, NEXT, PREV
<1>. HIDE DEF cut
<1>16. get_next_block(cut, b) = right
  <2>1. Chunked(cut, C)
    <3>1. Chunked(h, C)
      BY ShapeChunked
    <3>2. Linked(cut, C)
      BY <1>15, <3>1, LinkedKept DEF Chunked, ChunkFields
    <3>3. Mapping(cut)
      BY <1>15, <3>1 DEF Chunked, Frame, Mapping, Limit
    <3>4. QED
      BY <1>14, <1>15, <3>1, <3>2, <3>3 DEF Chunked, Frame, ChunkFields
  <2>2. Limit(cut, c) = Limit(h, c)
    BY <1>15 DEF Frame, Limit
  <2>3. b \in Nat \ {NULL} /\ c <= b /\ b < Limit(cut, c)
    BY <1>3, <1>4, <1>6, <2>2 DEF NULL
  <2>4. chunk_from_block(cut, b) = c
    BY <2>1, <2>3, ChunkFound
  <2>5. Wrap(b + Get(cut, b, SIZE)) = right
    <3>1. Get(cut, b, SIZE) = rest
      BY <1>1, <1>15
    <3>2. QED
      BY <1>6, <1>7, <3>1, WrapFacts
  <2>6. c + Get(cut, c, CHUNK_SIZE) = Limit(h, c)
    BY <2>1, <2>2 DEF Chunked, Limit
  <2>7. QED
    BY <1>6, <2>3, <2>4, <2>5, <2>6 DEF get_next_block, block_after
<1>17. r = [m |-> g, block |-> right]
  BY <1>7, <1>16 DEF split_block, cut, rest
<1>. HIDE DEF g, S, T, x
<1>18. b \in S /\ b \in Within(h, c, B)
  BY <1>1, <1>3, <1>4, <1>6 DEF Within, S
<1>19. S \subseteq Nat \ {NULL} /\ S \subseteq F /\ T \subseteq A /\ T \subseteq Nat \ {NULL}
       /\ S \subseteq Within(h, c, B)
  BY <1>1, BlockNumbers DEF S, T
<1>20. ChunkLists(h, c, T, S)
  BY DEF Shape, Listed, S, T
<1>21. Linked(h, S) /\ After(S, NULL, Get(h, c, FREE)) /\ Linked(h, T)
  BY <1>20 DEF ChunkLists
<1>22. x \in (S \ {b}) \cup {NULL} /\ After(S, b, x) /\ Get(cut, b, NEXT) = x
  BY <1>1, <1>15, <1>18, <1>19, <1>21, Neighbours DEF x
<1>23. x # right /\ x \in (B2 \ {b, right}) \cup {NULL} /\ right # b
  BY <1>1, <1>3, <1>6, <1>11, <1>19, <1>22 DEF NULL
<1>24. /\ Frame(cut, g)
       /\ Get(g, right, SIZE) = n /\ Get(g, right, NEXT) = x /\ Get(g, right, PREV) = b
       /\ \A y \in B2 \ {right} :
            /\ Get(g, y, SIZE) = Get(cut, y, SIZE)
            /\ Get(g, y, NEXT) = IF y = b THEN right ELSE Get(cut, y, NEXT)
            /\ Get(g, y, PREV) = IF y = x THEN right ELSE Get(cut, y, PREV)
       /\ \A d \in C : \A k \in ChunkFields : Get(g, d, k) = Get(cut, d, k)
  <2>1. b \in B2 /\ right \in B2 \ {b} /\ Get(cut, b, NEXT) \in (B2 \ {b, right}) \cup {NULL}
    BY <1>1, <1>22, <1>23
  <2>. HIDE DEF B2
  <2>2. QED
    BY <1>7, <1>14, <1>22, <2>1, LayWrites DEF g
<1>25. /\ Frame(h, g)
       /\ \A y \in B : /\ Get(g, y, SIZE) = IF y = b THEN rest ELSE Get(h, y, SIZE)
                       /\ Get(g, y, NEXT) = IF y = b THEN right ELSE Get(h, y, NEXT)
                       /\ Get(g, y, PREV) = IF y = x THEN right ELSE Get(h, y, PREV)
       /\ \A d \in C : \A k \in ChunkFields : Get(g, d, k) = Get(h, d, k)
  <2>1. \A y \in B : y \in B2 \ {right}
    BY <1>11
  <2>2. QED
    BY <1>15, <1>24, <2>1 DEF Frame
<1>26. \A d : Limit(g, d) = Limit(h, d)
  BY <1>25 DEF Frame, Limit
<1>27. \A y \in B : EndOf(g, y) = IF y = b THEN right ELSE EndOf(h, y)
  BY <1>6, <1>25 DEF EndOf
<1>28. EndOf(g, right) = EndOf(h, b)
  BY <1>6, <1>24 DEF EndOf
<1>29. Tiled(g, C, B2)
  <2>1. \A d \in C : d + SizeofChunk \in B2 /\ Get(g, d, CHUNK_SIZE) = g.maps[d]
    BY <1>25 DEF Shape, Tiled, Frame, ChunkFields
  <2>2. ASSUME NEW y \in B
        PROVE  /\ y \in Nat /\ y % kAlignment = 0
               /\ Get(g, y, SIZE) >= kMetadataSize + kMinAllocationSize
               /\ \E d \in C : BlockOf(g, B2, d, y)
    <3>1. y \in Nat /\ y % kAlignment = 0 /\ Get(h, y, SIZE) >= kMetadataSize + kMinAllocationSize
      BY DEF Shape, Tiled
    <3>2. Get(g, y, SIZE) >= kMetadataSize + kMinAllocationSize
      BY <1>6, <1>25, <3>1 DEF kMetadataSize, kMinAllocationSize, kAlignment
    <3>3. PICK d \in C : BlockOf(h, B, d, y)
      BY Home
    <3>4. /\ d + SizeofChunk <= y /\ EndOf(g, y) <= Limit(h, d)
          /\ EndOf(g, y) = Limit(h, d) \/ EndOf(g, y) \in B2
      <4>1. CASE y = b
        <5>1. d = c
          <6>1. b \in Within(h, d, B)
            BY <3>3, <4>1, BlockPlace, ChunkPlace DEF Shape, Within
          <6>2. QED
            BY <1>18, <6>1, OneChunk
        <5>2. EndOf(g, y) = right
          BY <1>27, <4>1
        <5>3. QED
          BY <1>4, <1>6, <3>3, <5>1, <5>2 DEF BlockOf
      <4>2. CASE y # b
        BY <1>27, <3>3, <4>2 DEF BlockOf
      <4>3. QED
        BY <4>1, <4>2
    <3>5. y = d + SizeofChunk \/ \E z \in B2 : EndOf(g, z) = y
      <4>1. CASE y = d + SizeofChunk
        BY <4>1
      <4>2. CASE y # d + SizeofChunk
        <5>1. PICK z \in B : EndOf(h, z) = y
          BY <3>3, <4>2 DEF BlockOf
        <5>2. CASE z = b
          BY <1>28, <5>1, <5>2
        <5>3. CASE z # b
          BY <1>27, <5>1, <5>3
        <5>4. QED
          BY <5>2, <5>3
      <4>3. QED
        BY <4>1, <4>2
    <3>6. BlockOf(g, B2, d, y)
      BY <1>26, <3>4, <3>5 DEF BlockOf
    <3>7. QED
      BY <3>1, <3>2, <3>6
  <2>3. /\ right \in Nat /\ right % kAlignment = 0
        /\ Get(g, right, SIZE) >= kMetadataSize + kMinAllocationSize
        /\ BlockOf(g, B2, c, right)
    <3>1. right % kAlignment = 0 /\ Get(g, right, SIZE) >= kMetadataSize + kMinAllocationSize
      BY <1>6, <1>24 DEF kMetadataSize, kMinAllocationSize, kAlignment
    <3>2. c + SizeofChunk <= right
      BY <1>6 DEF SizeofChunk
    <3>3. EndOf(h, b) = Limit(h, c) \/ EndOf(h, b) \in B
      BY <1>2 DEF BlockOf
    <3>4. b \in B2 /\ EndOf(g, b) = right
      BY <1>1, <1>27
    <3>5. QED
      BY <1>3, <1>6, <1>26, <1>28, <3>1, <3>2, <3>3, <3>4 DEF BlockOf
  <2>4. ASSUME NEW y \in B2, NEW z \in B2, y < z PROVE EndOf(g, y) <= z
    <3>1. CASE y = right
      <4>1. z \in B /\ b < z
        BY <1>3, <1>6, <2>4, <3>1, <1>8
      <4>2. QED
        BY <1>10, <1>28, <3>1, <4>1
    <3>2. CASE y \in B /\ z = right
      <4>1. y = b \/ y < b
        BY <1>3, <1>6, <1>8, <1>11, <2>4, <3>2
      <4>2. CASE y = b
        BY <1>6, <1>27, <3>2, <4>2
      <4>3. CASE y < b
        <5>1. EndOf(h, y) <= b /\ EndOf(h, y) \in Nat /\ y # b
          BY <1>1, <1>3, <1>8, <1>9, <3>2, <4>3
        <5>2. QED
          BY <1>3, <1>6, <1>27, <3>2, <5>1
      <4>4. QED
        BY <4>1, <4>2, <4>3
    <3>3. CASE y \in B /\ z \in B
      <4>1. EndOf(h, y) <= z /\ EndOf(h, y) \in Nat /\ z \in Nat
        BY <1>8, <1>9, <2>4, <3>3
      <4>2. EndOf(g, y) <= EndOf(h, y)
        BY <1>3, <1>6, <1>8, <1>27, <3>3
      <4>3. EndOf(g, y) \in Nat
        BY <1>6, <1>8, <1>27, <3>3
      <4>4. QED
        BY <4>1, <4>2, <4>3
    <3>4. QED
      BY <3>1, <3>2, <3>3
  <2>5. QED
    BY <2>1, <2>2, <2>3, <2>4 DEF Tiled
<1>30. right \in Nat \ {NULL} /\ right \notin S /\ right \notin B
  BY <1>1, <1>3, <1>6, <1>11, <1>19 DEF NULL
<1>31. \A y \in S : y \in Nat /\ y # NULL /\ y \in B /\ (y <= b \/ right <= y)
  <2>1. SUFFICES ASSUME NEW y \in S PROVE y \in Nat /\ y # NULL /\ y \in B /\ (y <= b \/ right <= y)
    OBVIOUS
  <2>2. y \in Nat /\ y # NULL /\ y \in B
    BY <1>1, <1>19
  <2>3. QED
    BY <1>3, <1>6, <1>11, <2>2
<1>32. Before(S, right, b) /\ After(S, right, x)
  <2>1. Before(S, right, b)
    BY <1>3, <1>6, <1>18, <1>31 DEF Before
  <2>2. CASE x = NULL
    <3>1. \A y \in S : y <= b
      BY <1>3, <1>22, <1>31, <2>2 DEF After
    <3>2. \A y \in S : y <= right
      BY <1>3, <1>6, <1>31, <3>1
    <3>3. After(S, right, x)
      BY <2>2, <3>2 DEF After
    <3>4. QED
      BY <2>1, <3>3
  <2>3. CASE x # NULL
    <3>1. x \in S /\ b < x /\ \A y \in S : y <= b \/ x <= y
      BY <1>22, <2>3 DEF After
    <3>2. right < x
      BY <1>3, <1>6, <1>30, <1>31, <3>1
    <3>3. \A y \in S : y <= right \/ x <= y
      BY <1>3, <1>6, <1>31, <3>1
    <3>4. After(S, right, x)
      BY <3>1, <3>2, <3>3 DEF After
    <3>5. QED
      BY <2>1, <3>4
  <2>4. QED
    BY <2>1, <2>2, <2>3
<1>33. PutIn(h, g, S, right, b, x)
  BY <1>24, <1>25, <1>31 DEF PutIn
<1>34. Linked(g, S \cup {right}) /\ After(S \cup {right}, NULL, Get(g, c, FREE))
  <2>1. Linked(g, S \cup {right})
    BY <1>19, <1>21, <1>30, <1>32, <1>33, PutLinked
  <2>2. b # NULL /\ FREE \in ChunkFields
    BY <1>18, <1>19 DEF ChunkFields
  <2>3. After(S \cup {right}, NULL, Get(h, c, FREE))
    BY <1>19, <1>21, <1>30, <1>32, <2>2, PutHead
  <2>4. QED
    BY <1>25, <2>1, <2>2, <2>3
<1>35. Linked(g, T)
  <2>1. \A y \in T : y \in B /\ y # b /\ y # x
    BY <1>1, <1>19, <1>22
  <2>2. QED
    BY <1>21, <1>25, <2>1, LinkedKept
<1>36. /\ \A d \in C : /\ Get(g, d, NEXT) = Get(h, d, NEXT) /\ Get(g, d, PREV) = Get(h, d, PREV)
                       /\ Get(g, d, FREE) = Get(h, d, FREE) /\ Get(g, d, ALLOC) = Get(h, d, ALLOC)
  BY <1>25 DEF ChunkFields
<1>37. ChunkLists(g, c, T, S \cup {right})
  BY <1>20, <1>26, <1>34, <1>35, <1>36 DEF ChunkLists
<1>38. /\ Within(h, c, F2) = S \cup {right}
       /\ \A d \in C \ {c} : Within(h, d, F2) = Within(h, d, F)
  <2>1. ASSUME NEW d \in C \ {c} PROVE ~(d <= right /\ right < Limit(h, d))
    <3>1. d \in Nat /\ Limit(h, d) \in Nat
      BY ChunkPlace DEF Shape
    <3>2. Limit(h, c) <= d \/ Limit(h, d) <= c
      BY ChunksApart DEF Shape
    <3>3. QED
      BY <1>4, <1>6, <3>1, <3>2
  <2>2. c <= right
    BY <1>4, <1>6
  <2>3. QED
    BY <1>6, <2>1, <2>2 DEF Within, S
<1>39. ASSUME NEW d \in C \ {c}, NEW y \in Within(h, d, B)
       PROVE  Get(g, y, NEXT) = Get(h, y, NEXT) /\ Get(g, y, PREV) = Get(h, y, PREV)
  <2>1. x # NULL => x \in Within(h, c, B)
    BY <1>19, <1>22
  <2>2. y \in B /\ y # NULL
    BY BlockNumbers
  <2>3. y # b /\ y # x
    BY <1>18, <2>1, <2>2, OneChunk
  <2>4. QED
    BY <1>25, <2>2, <2>3
<1>40. Shape(g, C, B2, A, F2)
  <2>1. \A d \in C \ {c} :
          /\ Within(h, d, A) = Within(h, d, A) /\ Within(h, d, F2) = Within(h, d, F)
          /\ Get(g, d, FREE) = Get(h, d, FREE) /\ Get(g, d, ALLOC) = Get(h, d, ALLOC)
          /\ \A y \in Within(h, d, B) :
               Get(g, y, NEXT) = Get(h, y, NEXT) /\ Get(g, y, PREV) = Get(h, y, PREV)
    BY <1>36, <1>38, <1>39
  <2>2. ChunkLists(g, c, Within(h, c, A), Within(h, c, F2))
    BY <1>37, <1>38 DEF T
  <2>3. A \subseteq B2 /\ F2 \subseteq B2 /\ A \cap F2 = {}
    BY <1>1, <1>30
  <2>. HIDE DEF B2, F2
  <2>4. QED
    BY <1>25, <1>29, <1>36, <2>1, <2>2, <2>3, Relaid
<1>41. QED
  BY <1>3, <1>6, <1>17, <1>24, <1>25, <1>30, <1>40 DEF right, rest, Splits

-----------------------------------------------------------------------------
(* Chunks from the OS *)

\* The types, which are kept whatever goes wrong.
Typed(h) == HeapType(h) /\ Mapping(h)

\* A write anywhere keeps the types, and leaves the mappings alone.
LEMMA SetTyped ==
  ASSUME NEW h, Typed(h), NEW p, NEW f, NEW v \in Words
  PROVE  Typed(Set(h, p, f, v)) /\ Typed(SetIf(h, p, f, v))
<1>1. HeapType(Set(h, p, f, v)) /\ HeapType(SetIf(h, p, f, v))
  BY SetType DEF Typed
<1>2. Set(h, p, f, v).maps = h.maps /\ DOMAIN Set(h, p, f, v).mem = DOMAIN h.mem
  <2>1. CASE p + f \in DOMAIN h.mem
    BY <2>1, SetWrites DEF Frame, Typed
  <2>2. CASE p + f \notin DOMAIN h.mem
    BY <2>2 DEF Set, Typed, HeapType
  <2>3. QED
    BY <2>1, <2>2
<1>3. Mapping(Set(h, p, f, v))
  BY <1>2 DEF Typed, Mapping, Limit
<1>4. QED
  BY <1>1, <1>3 DEF Typed, SetIf

\* The fields of a heap that the OS maps a chunk into.
LEMMA MappedTyped ==
  ASSUME NEW h, Typed(h), NEW len \in Nat, len % 8 = 0, len >= 80, NEW c \in Room(h, len)
  PROVE  LET g == Mapped(h, c, len)
         IN  /\ Typed(g) /\ g.first_map = h.first_map /\ g.fault = h.fault
             /\ c \in Nat /\ c > 0 /\ c % 8 = 0 /\ c + len <= MmapTop
             /\ c \notin DOMAIN h.maps /\ DOMAIN g.maps = DOMAIN h.maps \cup {c}
             /\ g.maps[c] = len /\ \A d \in DOMAIN h.maps : g.maps[d] = h.maps[d]
             /\ DOMAIN h.mem \subseteq DOMAIN g.mem
             /\ \A d \in DOMAIN h.maps : Limit(h, d) <= c \/ c + len <= d
             /\ \A a \in DOMAIN h.mem : g.mem[a] = h.mem[a]
             /\ \A a \in DOMAIN g.mem \ DOMAIN h.mem : g.mem[a] = 0
             /\ \A a \in DOMAIN h.mem : ~(c <= a /\ a < c + len)
<1>. DEFINE g == Mapped(h, c, len)
            K == 0 .. len \div 8 - 1
            N == {c + 8 * k : k \in K}
            D == DOMAIN h.mem \cup N
<1>1. c \in Nat /\ c > 0 /\ c % 8 = 0 /\ c + len <= MmapTop
  BY RawMemoryAssumption DEF Room, kAlignment
<1>2. HeapType(h) /\ Mapping(h)
  BY DEF Typed
<1>3. \A x \in DOMAIN h.maps : x \in Nat /\ h.maps[x] \in Nat /\ h.maps[x] >= 80
  <2>1. SUFFICES ASSUME NEW x \in DOMAIN h.maps PROVE x \in Nat /\ h.maps[x] \in Nat /\ h.maps[x] >= 80
    OBVIOUS
  <2>2. x \in Nat /\ h.maps[x] \in Nat /\ x + 80 <= Limit(h, x)
    BY <1>2, ChunkPlace
  <2>3. QED
    BY <2>2 DEF Limit
<1>4. \A d \in DOMAIN h.maps : Limit(h, d) <= c \/ c + len <= d
  BY <1>3 DEF Room, Limit
<1>5. c \notin DOMAIN h.maps
  BY <1>1, <1>3, <1>4 DEF Limit
<1>6. /\ g.maps = [x \in DOMAIN h.maps \cup {c} |-> IF x = c THEN len ELSE h.maps[x]]
      /\ g.mem = [a \in D |-> IF a \in DOMAIN h.mem THEN h.mem[a] ELSE 0]
      /\ g.first_map = h.first_map /\ g.fault = h.fault
      /\ g = [first_map |-> g.first_map, mem |-> g.mem, maps |-> g.maps, fault |-> g.fault]
  <2>1. h = [first_map |-> h.first_map, mem |-> h.mem, maps |-> h.maps, fault |-> h.fault]
    BY <1>2 DEF HeapType
  <2>. DEFINE maps == [x \in DOMAIN h.maps \cup {c} |-> IF x = c THEN len ELSE h.maps[x]]
              mem  == [a \in D |-> IF a \in DOMAIN h.mem THEN h.mem[a] ELSE 0]
  <2>2. g = [[h EXCEPT !.maps = maps] EXCEPT !.mem = mem]
    BY DEF Mapped, kAlignment
  <2>. HIDE DEF g, maps, mem
  <2>3. [h EXCEPT !.maps = maps] = [first_map |-> h.first_map, mem |-> h.mem, maps |-> maps, fault |-> h.fault]
    BY <2>1
  <2>4. g = [first_map |-> h.first_map, mem |-> mem, maps |-> maps, fault |-> h.fault]
    BY <2>2, <2>3
  <2>5. g.maps = maps /\ g.mem = mem /\ g.first_map = h.first_map /\ g.fault = h.fault
    BY <2>4
  <2>6. QED
    BY <2>4, <2>5 DEF maps, mem
<1>. HIDE DEF g
<1>7. HeapType(g)
  <2>1. g.mem \in [DOMAIN g.mem -> Words]
    BY <1>2, <1>6, WordFacts DEF HeapType
  <2>2. g.maps \in [DOMAIN g.maps -> Nat]
    BY <1>3, <1>6
  <2>3. QED
    BY <1>2, <1>6, <2>1, <2>2 DEF HeapType
<1>8. len \div 8 \in Nat /\ 8 * (len \div 8) = len /\ K \subseteq Nat /\ \A k \in K : 8 * k <= len - 8
  <2>1. len \div 8 \in Nat /\ 8 * (len \div 8) = len
    OBVIOUS
  <2>2. QED
    BY <2>1
<1>9. N \subseteq Nat /\ \A a \in N : c <= a /\ a < c + len
  BY <1>1, <1>8
<1>10. \A a \in Nat : c <= a /\ a < c + len /\ a % 8 = 0 => a \in N
  <2>1. SUFFICES ASSUME NEW a \in Nat, c <= a, a < c + len, a % 8 = 0 PROVE a \in N
    OBVIOUS
  <2>2. PICK k \in Nat : a = c + 8 * k
    <3>1. (a - c) % 8 = 0 /\ a - c \in Nat
      BY <1>1, <2>1
    <3>2. a - c = 8 * ((a - c) \div 8) /\ (a - c) \div 8 \in Nat
      BY <3>1
    <3>3. a = c + 8 * ((a - c) \div 8)
      BY <1>1, <3>1, <3>2
    <3>4. QED
      BY <3>2, <3>3
  <2>3. k \in K
    BY <1>1, <1>8, <2>1, <2>2
  <2>4. QED
    BY <2>2, <2>3
<1>11. IsFiniteSet(N)
  <2>1. IsFiniteSet(0 .. MmapTop) /\ MmapTop \in Nat
    BY WordAssumption, FS_Interval
  <2>2. N \subseteq 0 .. MmapTop
    BY <1>1, <1>9, <2>1
  <2>3. QED
    BY <2>1, <2>2, FS_Subset
<1>. HIDE DEF N, K
<1>12. DOMAIN g.mem = DOMAIN h.mem \cup N /\ DOMAIN g.maps = DOMAIN h.maps \cup {c}
       /\ g.maps[c] = len /\ \A d \in DOMAIN h.maps : g.maps[d] = h.maps[d]
  BY <1>5, <1>6
<1>13. Limit(g, c) = c + len /\ \A d \in DOMAIN h.maps : Limit(g, d) = Limit(h, d)
  BY <1>12 DEF Limit
<1>14. (c + len) % 8 = 0 /\ c + len \in Nat
  BY <1>1
<1>15. Mapping(g)
  <2>1. DOMAIN g.maps \subseteq Nat /\ DOMAIN g.mem \subseteq Nat /\ IsFiniteSet(DOMAIN g.mem)
    <3>1. DOMAIN h.maps \subseteq Nat /\ DOMAIN h.mem \subseteq Nat /\ IsFiniteSet(DOMAIN h.mem)
      BY <1>2 DEF Mapping
    <3>2. IsFiniteSet(DOMAIN h.mem \cup N)
      BY <1>11, <3>1, FS_Union
    <3>3. QED
      BY <1>1, <1>9, <1>12, <3>1, <3>2
  <2>2. ASSUME NEW d \in DOMAIN g.maps
        PROVE  /\ d > 0 /\ d % kAlignment = 0 /\ Limit(g, d) % kAlignment = 0
               /\ g.maps[d] \in Nat /\ Limit(g, d) <= MmapTop
               /\ d + SizeofChunk + kMetadataSize + kMinAllocationSize <= Limit(g, d)
    <3>1. CASE d = c
      BY <1>1, <1>12, <1>13, <1>14, <3>1 DEF kAlignment, SizeofChunk, kMetadataSize, kMinAllocationSize
    <3>2. CASE d # c
      <4>1. d \in DOMAIN h.maps
        BY <1>12, <2>2, <3>2
      <4>2. QED
        BY <1>2, <1>12, <1>13, <4>1 DEF Mapping
    <3>3. QED
      BY <3>1, <3>2
  <2>3. ASSUME NEW d \in DOMAIN g.maps, NEW e \in DOMAIN g.maps, d < e PROVE Limit(g, d) <= e
    <3>1. CASE d \in DOMAIN h.maps /\ e \in DOMAIN h.maps
      BY <1>2, <1>13, <2>3, <3>1 DEF Mapping
    <3>2. CASE d = c /\ e = c
      BY <1>1, <2>3, <3>2
    <3>3. CASE d = c /\ e \in DOMAIN h.maps
      <4>1. e \in Nat /\ Limit(h, e) \in Nat /\ e < Limit(h, e)
        BY <1>3, <3>3 DEF Limit
      <4>2. QED
        BY <1>1, <1>4, <1>13, <2>3, <3>3, <4>1
    <3>4. CASE d \in DOMAIN h.maps /\ e = c
      <4>1. d \in Nat /\ Limit(h, d) \in Nat
        BY <1>3, <3>4 DEF Limit
      <4>2. QED
        BY <1>1, <1>4, <1>13, <2>3, <3>4, <4>1
    <3>5. QED
      BY <1>12, <2>3, <3>1, <3>2, <3>3, <3>4
  <2>4. ASSUME NEW a \in DOMAIN g.mem PROVE \E d \in DOMAIN g.maps : d <= a /\ a < Limit(g, d)
    <3>1. CASE a \in DOMAIN h.mem
      <4>1. PICK d \in DOMAIN h.maps : d <= a /\ a < Limit(h, d)
        BY <1>2, <3>1 DEF Mapping
      <4>2. QED
        BY <1>12, <1>13, <4>1
    <3>2. CASE a \in N
      BY <1>9, <1>12, <1>13, <3>2
    <3>3. QED
      BY <1>12, <2>4, <3>1, <3>2
  <2>5. ASSUME NEW d \in DOMAIN g.maps, NEW a \in Nat, d <= a, a < Limit(g, d), a % kAlignment = 0
        PROVE  a \in DOMAIN g.mem
    <3>1. CASE d = c
      BY <1>10, <1>12, <1>13, <2>5, <3>1 DEF kAlignment
    <3>2. CASE d # c
      <4>1. d \in DOMAIN h.maps
        BY <1>12, <2>5, <3>2
      <4>2. a \in DOMAIN h.mem
        BY <1>2, <1>13, <2>5, <4>1 DEF Mapping
      <4>3. QED
        BY <1>12, <4>2
    <3>3. QED
      BY <3>1, <3>2
  <2>6. QED
    BY <2>1, <2>2, <2>3, <2>4, <2>5 DEF Mapping
<1>16. \A a \in DOMAIN h.mem : ~(c <= a /\ a < c + len)
  <2>1. SUFFICES ASSUME NEW a \in DOMAIN h.mem PROVE ~(c <= a /\ a < c + len)
    OBVIOUS
  <2>2. PICK d \in DOMAIN h.maps : d <= a /\ a < Limit(h, d)
    BY <1>2 DEF Mapping
  <2>3. a \in Nat /\ d \in Nat /\ Limit(h, d) \in Nat
    BY <1>2, <1>3 DEF Mapping, Limit
  <2>4. QED
    BY <1>1, <1>4, <2>2, <2>3
<1>17. /\ \A a \in DOMAIN h.mem : g.mem[a] = h.mem[a]
       /\ \A a \in DOMAIN g.mem \ DOMAIN h.mem : g.mem[a] = 0
  BY <1>6
<1>18. QED
  BY <1>1, <1>4, <1>5, <1>6, <1>7, <1>12, <1>15, <1>16, <1>17 DEF g, Typed

\* Rounding up to the alignment.
LEMMA RoundUp ==
  ASSUME NEW n \in Nat
  PROVE  /\ round_up(n, kAlignment) \in Nat /\ round_up(n, kAlignment) % 8 = 0
         /\ n <= round_up(n, kAlignment) /\ round_up(n, kAlignment) < n + 8
         /\ n % 8 = 0 => round_up(n, kAlignment) = n
<1>. DEFINE q == (n + 7) \div 8
<1>1. round_up(n, kAlignment) = q * 8
  BY DEF round_up, kAlignment
<1>2. q \in Nat /\ 8 * q <= n + 7 /\ n + 7 < 8 * q + 8
  OBVIOUS
<1>3. n % 8 = 0 => 8 * q = n
  OBVIOUS
<1>. HIDE DEF q
<1>4. (q * 8) % 8 = 0 /\ q * 8 = 8 * q
  BY <1>2
<1>5. QED
  BY <1>1, <1>2, <1>3, <1>4

\* Any word may be written into a field of a block.
LEMMA BlockWordWrite ==
  ASSUME NEW h, HeapType(h), NEW C, NEW B, Slots(h, C, B),
         NEW b \in B, NEW f \in BlockFields, NEW v \in Words
  PROVE  /\ Writes(h, Set(h, b, f, v), C, B, b, f, v)
         /\ HeapType(Set(h, b, f, v)) /\ Slots(Set(h, b, f, v), C, B)
<1>1. Set(h, b, f, v) = SetIf(h, b, f, v) /\ Writes(h, SetIf(h, b, f, v), C, B, b, f, v)
  BY BlockWrite
<1>2. QED
  BY <1>1, SlotsKept DEF Writes, Frame

\* And into a field of a chunk.
LEMMA ChunkWordWrite ==
  ASSUME NEW h, HeapType(h), NEW C, NEW B, Slots(h, C, B),
         NEW c \in C, NEW f \in ChunkFields, NEW v \in Words
  PROVE  /\ Writes(h, Set(h, c, f, v), C, B, c, f, v) /\ Set(h, c, f, v) = SetIf(h, c, f, v)
         /\ HeapType(Set(h, c, f, v)) /\ Slots(Set(h, c, f, v), C, B)
<1>1. Set(h, c, f, v) = SetIf(h, c, f, v) /\ Writes(h, SetIf(h, c, f, v), C, B, c, f, v)
  BY ChunkWrite
<1>2. QED
  BY <1>1, SlotsKept DEF Writes, Frame

\* The fences are in no field of a header.
LEMMA FencedWrites ==
  ASSUME NEW h, HeapType(h), NEW C, NEW B, Slots(h, C, B),
         NEW c \in C, c + 48 \in B, NEW len \in Nat, kMemorySize <= len,
         c + kMemorySize - 8 \in DOMAIN h.mem,
         \A d \in C : d = c \/ d + 48 <= c \/ c + len <= d,
         \A b \in B : b = c + 48 \/ b + 24 <= c \/ c + len <= b
  PROVE  /\ HeapType(Fenced(h, c)) /\ Slots(Fenced(h, c), C, B) /\ Frame(h, Fenced(h, c))
         /\ \A b \in B : \A k \in BlockFields : Get(Fenced(h, c), b, k) = Get(h, b, k)
         /\ \A d \in C : \A k \in ChunkFields : Get(Fenced(h, c), d, k) = Get(h, d, k)
<1>. DEFINE e == kMemorySize - 8
            g == Set(h, c, 0, FENCEPOST)
            w == Set(g, c, e, FENCEPOST * HalfWord)
<1>1. e \in Nat /\ e >= 72 /\ e + 8 <= len
  BY RawMemoryAssumption DEF SizeofChunk, kMetadataSize, kMinAllocationSize, kAlignment
<1>. HIDE DEF e
<1>2. \A d \in C : d \in Nat
  BY WordFacts DEF Slots
<1>3. \A b \in B : b \in Nat
  BY WordFacts DEF Slots
<1>4. \A d \in C : \A k \in ChunkFields : d + k # c /\ d + k # c + e
  <2>1. SUFFICES ASSUME NEW d \in C, NEW k \in ChunkFields PROVE d + k # c /\ d + k # c + e
    OBVIOUS
  <2>2. k \in {8, 16, 24, 32, 40}
    BY DEF ChunkFields, NEXT, PREV, FREE, ALLOC, CHUNK_SIZE
  <2>3. d \in Nat /\ c \in Nat
    BY <1>2
  <2>4. QED
    BY <1>1, <2>2, <2>3
<1>5. \A b \in B : \A k \in BlockFields : b + k # c /\ b + k # c + e
  <2>1. SUFFICES ASSUME NEW b \in B, NEW k \in BlockFields PROVE b + k # c /\ b + k # c + e
    OBVIOUS
  <2>2. k \in {0, 8, 16}
    BY DEF BlockFields, SIZE, NEXT, PREV
  <2>3. b \in Nat /\ c \in Nat
    BY <1>2, <1>3
  <2>4. QED
    BY <1>1, <2>2, <2>3
<1>6. c + 0 \in DOMAIN h.mem /\ c + e \in DOMAIN h.mem /\ c + 0 = c
  <2>1. c \in DOMAIN h.mem /\ c \in Nat
    BY <1>2 DEF Slots
  <2>2. c + e = c + kMemorySize - 8
    BY <2>1, RawMemoryAssumption DEF e
  <2>3. QED
    BY <2>1, <2>2
<1>7. Frame(h, g) /\ \A q, k : Get(g, q, k) = IF q + k = c + 0 THEN FENCEPOST ELSE Get(h, q, k)
  BY <1>6, SetWrites, WordFacts
<1>. HIDE DEF g
<1>8. Frame(g, w) /\ \A q, k : Get(w, q, k) = IF q + k = c + e THEN FENCEPOST * HalfWord ELSE Get(g, q, k)
  <2>1. HeapType(g) /\ c + e \in DOMAIN g.mem
    BY <1>6, <1>7 DEF Frame
  <2>2. FENCEPOST * HalfWord \in Words
    BY WordFacts
  <2>3. QED
    BY <2>1, <2>2, SetWrites
<1>9. Fenced(h, c) = w
  BY DEF Fenced, w, g, e
<1>. HIDE DEF w
<1>10. Frame(h, w)
  BY <1>7, <1>8 DEF Frame
<1>11. /\ \A b \in B : \A k \in BlockFields : Get(w, b, k) = Get(h, b, k)
       /\ \A d \in C : \A k \in ChunkFields : Get(w, d, k) = Get(h, d, k)
  BY <1>4, <1>5, <1>6, <1>7, <1>8
<1>12. QED
  BY <1>9, <1>10, <1>11, SlotsKept DEF Frame

\* The fields that get_chunk_from_OS sets in a new chunk, its block and the
\* chunk before it.
LEMMA LaidWrites ==
  ASSUME NEW h, HeapType(h), NEW C, NEW B, Slots(h, C, B), NEW c \in C, NEW b \in B, b = c + 48,
         NEW len \in Words, len >= 48, NEW last \in (C \ {c}) \cup {NULL}
  PROVE  LET g == Laid(h, c, len, last, b)
         IN  /\ Frame(h, g)
             /\ \A x \in B : /\ Get(g, x, SIZE) = IF x = b THEN len - 48 ELSE Get(h, x, SIZE)
                             /\ Get(g, x, NEXT) = Get(h, x, NEXT) /\ Get(g, x, PREV) = Get(h, x, PREV)
             /\ \A d \in C : /\ Get(g, d, NEXT) = IF d = last THEN c ELSE Get(h, d, NEXT)
                             /\ Get(g, d, PREV) = IF d = c THEN last ELSE Get(h, d, PREV)
                             /\ Get(g, d, FREE) = IF d = c THEN b ELSE Get(h, d, FREE)
                             /\ Get(g, d, ALLOC) = Get(h, d, ALLOC)
                             /\ Get(g, d, CHUNK_SIZE) = IF d = c THEN len ELSE Get(h, d, CHUNK_SIZE)
<1>. DEFINE n  == len - (b - c)
            g1 == Set(h, c, PREV, last)
            g2 == Set(g1, c, CHUNK_SIZE, len)
            g3 == Set(g2, c, FREE, b)
            g4 == Set(g3, b, SIZE, n)
            g5 == SetIf(g4, last, NEXT, c)
<1>1. c \in Words /\ b \in Words /\ last \in Words /\ n \in Words /\ n = len - 48
  <2>1. c \in Nat /\ b \in Nat
    BY WordFacts DEF Slots
  <2>2. n = len - 48 /\ n \in Words
    BY <2>1, WordAssumption DEF Words
  <2>3. QED
    BY <2>2, WordFacts DEF Slots, NULL
<1>. HIDE DEF n
<1>2. {NEXT, PREV, FREE, CHUNK_SIZE} \subseteq ChunkFields /\ SIZE \in BlockFields
  BY DEF ChunkFields, BlockFields
<1>3. Writes(h, g1, C, B, c, PREV, last) /\ HeapType(g1) /\ Slots(g1, C, B)
  BY <1>1, <1>2, ChunkWordWrite
<1>. HIDE DEF g1
<1>4. Writes(g1, g2, C, B, c, CHUNK_SIZE, len) /\ HeapType(g2) /\ Slots(g2, C, B)
  BY <1>1, <1>2, <1>3, ChunkWordWrite
<1>. HIDE DEF g2
<1>5. Writes(g2, g3, C, B, c, FREE, b) /\ HeapType(g3) /\ Slots(g3, C, B)
  BY <1>1, <1>2, <1>4, ChunkWordWrite
<1>. HIDE DEF g3
<1>6. Writes(g3, g4, C, B, b, SIZE, n) /\ HeapType(g4) /\ Slots(g4, C, B)
  BY <1>1, <1>2, <1>5, BlockWordWrite
<1>. HIDE DEF g4
<1>7. Writes(g4, g5, C, B, last, NEXT, c)
  <2>1. CASE last = NULL
    BY <1>6, <2>1, NullWrite
  <2>2. CASE last # NULL
    BY <1>1, <1>2, <1>6, <2>2, ChunkWordWrite
  <2>3. QED
    BY <2>1, <2>2
<1>8. Laid(h, c, len, last, b) = g5
  BY DEF Laid, g1, g2, g3, g4, g5, n
<1>. HIDE DEF g5
<1>9. Frame(h, g5)
  BY <1>3, <1>4, <1>5, <1>6, <1>7 DEF Writes, Frame
<1>10. \A x \in B : x \notin C /\ x # NULL
  BY WordFacts DEF Slots
<1>11. \A x \in B : /\ Get(g5, x, SIZE) = IF x = b THEN len - 48 ELSE Get(h, x, SIZE)
                    /\ Get(g5, x, NEXT) = Get(h, x, NEXT) /\ Get(g5, x, PREV) = Get(h, x, PREV)
  BY <1>1, <1>3, <1>4, <1>5, <1>6, <1>7, <1>10 DEF Writes, BlockFields, SIZE, NEXT, PREV, CHUNK_SIZE, FREE
<1>12. \A d \in C : /\ Get(g5, d, NEXT) = IF d = last THEN c ELSE Get(h, d, NEXT)
                    /\ Get(g5, d, PREV) = IF d = c THEN last ELSE Get(h, d, PREV)
                    /\ Get(g5, d, FREE) = IF d = c THEN b ELSE Get(h, d, FREE)
                    /\ Get(g5, d, ALLOC) = Get(h, d, ALLOC)
                    /\ Get(g5, d, CHUNK_SIZE) = IF d = c THEN len ELSE Get(h, d, CHUNK_SIZE)
  BY <1>3, <1>4, <1>5, <1>6, <1>7, <1>10
  DEF Writes, ChunkFields, SIZE, NEXT, PREV, CHUNK_SIZE, FREE, ALLOC
<1>13. QED
  BY <1>8, <1>9, <1>11, <1>12

\* The headers in a memory with a new mapping, and what is in them.
LEMMA MappedSlots ==
  ASSUME NEW h, NEW C, NEW B, NEW A, NEW F, Shape(h, C, B, A, F),
         NEW len \in Nat, len % 8 = 0, len >= 80, NEW c \in Room(h, len)
  PROVE  LET g == Mapped(h, c, len)
             b == c + 48
         IN  /\ Slots(g, C \cup {c}, B \cup {b}) /\ c \notin C /\ b \notin B
             /\ \A d \in C : d + 48 <= c \/ c + len <= d
             /\ \A x \in B : x + 24 <= c \/ c + len <= x
             /\ \A x \in B : \A k \in BlockFields : Get(g, x, k) = Get(h, x, k)
             /\ \A d \in C : \A k \in ChunkFields : Get(g, d, k) = Get(h, d, k)
             /\ \A k \in BlockFields : Get(g, b, k) = 0
             /\ \A k \in ChunkFields : Get(g, c, k) = 0
<1>. DEFINE g == Mapped(h, c, len)
            b == c + 48
<1>1. HeapType(h) /\ Mapping(h) /\ C \subseteq DOMAIN h.maps /\ Typed(h)
  BY DEF Shape, Typed
<1>2. /\ Typed(g) /\ c \in Nat /\ c > 0 /\ c % 8 = 0 /\ c + len <= MmapTop
      /\ c \notin DOMAIN h.maps /\ DOMAIN g.maps = DOMAIN h.maps \cup {c}
      /\ g.maps[c] = len
      /\ DOMAIN h.mem \subseteq DOMAIN g.mem
      /\ \A d \in DOMAIN h.maps : Limit(h, d) <= c \/ c + len <= d
      /\ \A a \in DOMAIN h.mem : g.mem[a] = h.mem[a]
      /\ \A a \in DOMAIN g.mem \ DOMAIN h.mem : g.mem[a] = 0
      /\ \A a \in DOMAIN h.mem : ~(c <= a /\ a < c + len)
  BY <1>1, MappedTyped
<1>3. Slots(h, C, B)
  BY ShapeSlots DEF Shape
<1>. HIDE DEF g
<1>4. \A k \in {0, 8, 16, 24, 32, 40, 48, 56, 64} : c + k \in DOMAIN g.mem /\ c + k \notin DOMAIN h.mem
  <2>1. SUFFICES ASSUME NEW k \in {0, 8, 16, 24, 32, 40, 48, 56, 64}
        PROVE  c + k \in DOMAIN g.mem /\ c + k \notin DOMAIN h.mem
    OBVIOUS
  <2>2. c + k \in Nat /\ c <= c + k /\ c + k < c + len /\ (c + k) % 8 = 0
    BY <1>2
  <2>3. c \in DOMAIN g.maps /\ Limit(g, c) = c + len
    BY <1>2 DEF Limit
  <2>4. c + k \in DOMAIN g.mem
    BY <1>2, <2>2, <2>3 DEF Typed, Mapping, kAlignment
  <2>5. QED
    BY <1>2, <2>2, <2>4
<1>5. \A d \in C : d \in Nat /\ (d + 48 <= c \/ c + len <= d)
  <2>1. SUFFICES ASSUME NEW d \in C PROVE d \in Nat /\ (d + 48 <= c \/ c + len <= d)
    OBVIOUS
  <2>2. d \in Nat /\ d + 80 <= Limit(h, d) /\ Limit(h, d) \in Nat
    BY <1>1, ChunkPlace
  <2>3. QED
    BY <1>1, <1>2, <2>2
<1>6. \A x \in B : x \in Nat /\ (x + 32 <= c \/ c + len <= x)
  <2>1. SUFFICES ASSUME NEW x \in B PROVE x \in Nat /\ (x + 32 <= c \/ c + len <= x)
    OBVIOUS
  <2>2. PICK d \in C : BlockOf(h, B, d, x)
    BY Home
  <2>3. x \in Nat /\ EndOf(h, x) \in Nat /\ d + 48 <= x /\ x + 32 <= EndOf(h, x) /\ EndOf(h, x) <= Limit(h, d)
    BY <2>2, BlockPlace DEF Shape
  <2>4. d \in Nat /\ Limit(h, d) \in Nat
    BY <1>1, ChunkPlace
  <2>5. QED
    BY <1>1, <1>2, <2>3, <2>4
<1>7. c \in Words /\ b \in Words /\ c # NULL /\ b # NULL /\ b \in Nat
  <2>1. b \in Nat /\ b <= MmapTop /\ c <= MmapTop /\ MmapTop \in Nat /\ b > 0
    BY <1>2, WordAssumption
  <2>2. QED
    BY <1>2, <2>1, WordFacts DEF NULL
<1>8. b + 0 = b /\ b + 8 = c + 56 /\ b + 16 = c + 64 /\ c + 0 = c
  BY <1>2
<1>9. {b, b + 8, b + 16} \subseteq DOMAIN g.mem
      /\ {c, c + 8, c + 16, c + 24, c + 32, c + 40} \subseteq DOMAIN g.mem
  BY <1>4, <1>8
<1>. DEFINE C2 == C \cup {c}
            B2 == B \cup {b}
<1>10. C2 \subseteq Words \ {NULL} /\ B2 \subseteq Words \ {NULL}
  BY <1>3, <1>7 DEF Slots
<1>11. /\ \A x \in B2 : {x, x + 8, x + 16} \subseteq DOMAIN g.mem
       /\ \A d \in C2 : {d, d + 8, d + 16, d + 24, d + 32, d + 40} \subseteq DOMAIN g.mem
  BY <1>2, <1>3, <1>9 DEF Slots
<1>12. \A x, y \in B2 : x < y => x + 24 <= y
  <2>1. SUFFICES ASSUME NEW x \in B2, NEW y \in B2, x < y PROVE x + 24 <= y
    OBVIOUS
  <2>2. CASE x \in B /\ y \in B
    BY <1>3, <2>1, <2>2 DEF Slots
  <2>3. CASE x \in B /\ y = b
    BY <1>2, <1>6, <2>1, <2>3
  <2>4. CASE x = b /\ y \in B
    BY <1>2, <1>6, <2>1, <2>4
  <2>5. QED
    BY <1>7, <2>1, <2>2, <2>3, <2>4
<1>13. \A d, e \in C2 : d < e => d + 48 <= e
  <2>1. SUFFICES ASSUME NEW d \in C2, NEW e \in C2, d < e PROVE d + 48 <= e
    OBVIOUS
  <2>2. CASE d \in C /\ e \in C
    BY <1>3, <2>1, <2>2 DEF Slots
  <2>3. CASE d \in C /\ e = c
    BY <1>2, <1>5, <2>1, <2>3
  <2>4. CASE d = c /\ e \in C
    BY <1>2, <1>5, <2>1, <2>4
  <2>5. QED
    BY <1>2, <2>1, <2>2, <2>3, <2>4
<1>14. \A d \in C2, x \in B2 : d + 48 <= x \/ x + 24 <= d
  <2>1. SUFFICES ASSUME NEW d \in C2, NEW x \in B2 PROVE d + 48 <= x \/ x + 24 <= d
    OBVIOUS
  <2>2. CASE d \in C /\ x \in B
    BY <1>3, <2>2 DEF Slots
  <2>3. CASE d \in C /\ x = b
    BY <1>2, <1>5, <2>3
  <2>4. CASE d = c /\ x \in B
    BY <1>2, <1>6, <2>4
  <2>5. CASE d = c /\ x = b
    BY <1>2, <2>5
  <2>6. QED
    BY <2>1, <2>2, <2>3, <2>4, <2>5
<1>15. Slots(g, C2, B2)
  <2>. HIDE DEF C2, B2
  <2>1. QED
    BY <1>10, <1>11, <1>12, <1>13, <1>14 DEF Slots
<1>16. \A x \in B : \A k \in BlockFields : Get(g, x, k) = Get(h, x, k)
  <2>1. SUFFICES ASSUME NEW x \in B, NEW k \in {0, 8, 16} PROVE Get(g, x, k) = Get(h, x, k)
    BY DEF BlockFields, SIZE, NEXT, PREV
  <2>2. x + k \in DOMAIN h.mem
    BY <1>3, <1>6, <2>1 DEF Slots
  <2>3. QED
    BY <1>2, <2>2 DEF Get
<1>17. \A d \in C : \A k \in ChunkFields : Get(g, d, k) = Get(h, d, k)
  <2>1. SUFFICES ASSUME NEW d \in C, NEW k \in {8, 16, 24, 32, 40} PROVE Get(g, d, k) = Get(h, d, k)
    BY DEF ChunkFields, NEXT, PREV, FREE, ALLOC, CHUNK_SIZE
  <2>2. d + k \in DOMAIN h.mem
    BY <1>3, <2>1 DEF Slots
  <2>3. QED
    BY <1>2, <2>2 DEF Get
<1>18. \A k \in BlockFields : Get(g, b, k) = 0
  <2>1. SUFFICES ASSUME NEW k \in {0, 8, 16} PROVE Get(g, b, k) = 0
    BY DEF BlockFields, SIZE, NEXT, PREV
  <2>2. b + k \in DOMAIN g.mem \ DOMAIN h.mem
    BY <1>4, <1>8, <2>1
  <2>3. QED
    BY <1>2, <2>2 DEF Get
<1>19. \A k \in ChunkFields : Get(g, c, k) = 0
  <2>1. SUFFICES ASSUME NEW k \in {8, 16, 24, 32, 40} PROVE Get(g, c, k) = 0
    BY DEF ChunkFields, NEXT, PREV, FREE, ALLOC, CHUNK_SIZE
  <2>2. c + k \in DOMAIN g.mem \ DOMAIN h.mem
    BY <1>4, <2>1
  <2>3. QED
    BY <1>2, <2>2 DEF Get
<1>20. c \notin C /\ b \notin B
  BY <1>2, <1>5, <1>6
<1>21. \A x \in B : x + 24 <= c \/ c + len <= x
  BY <1>2, <1>6
<1>22. QED
  BY <1>5, <1>15, <1>16, <1>17, <1>18, <1>19, <1>20, <1>21 DEF g

\* The last chunk of the list is the highest.
LEMMA LastChunk ==
  ASSUME NEW h, NEW C, Chunked(h, C)
  PROVE  \/ last_chunk_from_OS(h) = NULL /\ h.first_map = NULL /\ C = {}
         \/ /\ last_chunk_from_OS(h) \in C /\ h.first_map # NULL
            /\ \A d \in C : d <= last_chunk_from_OS(h)
<1>. DEFINE s == Chunks(h)
<1>1. C \subseteq Nat
  BY DEF Chunked, Mapping
<1>2. /\ s \in Seq(C) /\ Elements(s) = C /\ (s = << >> <=> h.first_map = NULL)
      /\ \A j, k \in DOMAIN s : j < k => s[j] < s[k]
  BY ChunksMet
<1>. HIDE DEF s
<1>3. CASE h.first_map = NULL
  <2>1. DOMAIN s = {}
    BY <1>2, <1>3
  <2>2. QED
    BY <1>2, <1>3, <2>1 DEF Elements, last_chunk_from_OS
<1>4. CASE h.first_map # NULL
  <2>1. s # << >> /\ DOMAIN s = 1 .. Len(s) /\ Len(s) \in Nat
    BY <1>2, <1>4
  <2>2. Len(s) \in DOMAIN s /\ s[Len(s)] \in C
    BY <1>2, <2>1
  <2>3. ASSUME NEW d \in C PROVE d <= s[Len(s)]
    <3>1. PICK k \in DOMAIN s : d = s[k]
      BY <1>2 DEF Elements
    <3>2. k < Len(s) \/ k = Len(s)
      BY <2>1, <3>1
    <3>3. k < Len(s) => s[k] < s[Len(s)]
      BY <1>2, <2>2, <3>1
    <3>4. s[k] \in Nat /\ s[Len(s)] \in Nat
      BY <1>1, <2>2, <3>1
    <3>5. QED
      BY <3>1, <3>2, <3>3, <3>4
  <2>4. last_chunk_from_OS(h) = s[Len(s)]
    BY <1>4 DEF last_chunk_from_OS, s
  <2>5. QED
    BY <1>4, <2>2, <2>3, <2>4
<1>5. QED
  BY <1>3, <1>4

\* The length of a mapping that is asked for.
LEMMA UnitsAsked ==
  ASSUME NEW multiple \in Nat \ {0}
  PROVE  /\ multiple * kMemorySize \in Nat /\ (multiple * kMemorySize) % 8 = 0
         /\ kMemorySize <= multiple * kMemorySize /\ 80 <= kMemorySize
         /\ kMemorySize \in Nat /\ kMemorySize % 8 = 0
<1>1. kMemorySize \in Nat /\ kMemorySize % 8 = 0 /\ 80 <= kMemorySize
  BY RawMemoryAssumption DEF SizeofChunk, kMetadataSize, kMinAllocationSize, kAlignment
<1>2. PICK q \in Nat : kMemorySize = 8 * q
  <2>1. kMemorySize = 8 * (kMemorySize \div 8) /\ kMemorySize \div 8 \in Nat
    BY <1>1
  <2>2. QED
    BY <2>1
<1>3. multiple * kMemorySize = 8 * (multiple * q)
  BY <1>2
<1>4. multiple * q \in Nat
  BY <1>2
<1>5. (multiple * kMemorySize) % 8 = 0
  BY <1>3, <1>4
<1>6. multiple * kMemorySize \in Nat /\ kMemorySize <= multiple * kMemorySize
  BY <1>1
<1>7. QED
  BY <1>1, <1>5, <1>6

\* What get_chunk_from_OS returns.
LEMMA OSReturns ==
  ASSUME NEW h, NEW multiple, NEW r \in get_chunk_from_OS(h, multiple)
  PROVE  LET len == multiple * kMemorySize
             c   == r.chunk
         IN  \/ r.m = h /\ c = NULL
             \/ /\ c \in Room(h, len)
                /\ r.m = Laid(Fenced(Mapped(h, c, len), c), c, len, last_chunk_from_OS(h),
                              round_up(c + SizeofChunk, kAlignment))
BY DEF get_chunk_from_OS

\* A chunk from the OS, in a sound memory: what is written of the headers.
LEMMA FreshWrites ==
  ASSUME NEW h, NEW C, NEW B, NEW A, NEW F, Shape(h, C, B, A, F),
         NEW multiple \in Nat \ {0}, NEW r \in get_chunk_from_OS(h, multiple), r.chunk # NULL
  PROVE  LET c    == r.chunk
             b    == c + 48
             len  == multiple * kMemorySize
             last == last_chunk_from_OS(h)
             g    == r.m
         IN  /\ HeapType(g) /\ Mapping(g) /\ g.first_map = h.first_map /\ g.fault = h.fault
             /\ len \in Nat /\ len >= 80 /\ len % 8 = 0
             /\ c \in Nat /\ c > 0 /\ c % 8 = 0 /\ c \in Words
             /\ c \notin C /\ b \notin B
             /\ DOMAIN g.maps = DOMAIN h.maps \cup {c}
             /\ Limit(g, c) = c + len /\ \A d \in C : Limit(g, d) = Limit(h, d) /\ g.maps[d] = h.maps[d]
             /\ g.maps[c] = len
             /\ \A d \in DOMAIN h.maps : Limit(h, d) <= c \/ c + len <= d
             /\ \A x \in B : /\ Get(g, x, SIZE) = Get(h, x, SIZE)
                             /\ Get(g, x, NEXT) = Get(h, x, NEXT) /\ Get(g, x, PREV) = Get(h, x, PREV)
             /\ Get(g, b, SIZE) = len - 48 /\ Get(g, b, NEXT) = NULL /\ Get(g, b, PREV) = NULL
             /\ \A d \in C : /\ Get(g, d, NEXT) = IF d = last THEN c ELSE Get(h, d, NEXT)
                             /\ Get(g, d, PREV) = Get(h, d, PREV) /\ Get(g, d, FREE) = Get(h, d, FREE)
                             /\ Get(g, d, ALLOC) = Get(h, d, ALLOC)
                             /\ Get(g, d, CHUNK_SIZE) = Get(h, d, CHUNK_SIZE)
             /\ Get(g, c, NEXT) = NULL /\ Get(g, c, PREV) = last /\ Get(g, c, FREE) = b
             /\ Get(g, c, ALLOC) = NULL /\ Get(g, c, CHUNK_SIZE) = len
<1>. DEFINE c    == r.chunk
            b    == c + 48
            len  == multiple * kMemorySize
            last == last_chunk_from_OS(h)
            g0   == Mapped(h, c, len)
            g1   == Fenced(g0, c)
            g    == r.m
            C2   == C \cup {c}
            B2   == B \cup {b}
<1>1. /\ len \in Nat /\ len % 8 = 0 /\ kMemorySize <= len /\ 80 <= kMemorySize
      /\ kMemorySize \in Nat /\ kMemorySize % 8 = 0
  BY UnitsAsked
<1>2. /\ c \in Room(h, len)
      /\ g = Laid(g1, c, len, last, round_up(c + SizeofChunk, kAlignment))
  BY OSReturns
<1>. HIDE DEF len, c, g, last
<1>3. Typed(h) /\ Chunked(h, C)
  BY ShapeChunked DEF Shape, Typed
<1>4. /\ Typed(g0) /\ g0.first_map = h.first_map /\ g0.fault = h.fault
      /\ c \in Nat /\ c > 0 /\ c % 8 = 0 /\ c + len <= MmapTop
      /\ c \notin DOMAIN h.maps /\ DOMAIN g0.maps = DOMAIN h.maps \cup {c}
      /\ g0.maps[c] = len /\ \A d \in DOMAIN h.maps : g0.maps[d] = h.maps[d]
      /\ \A d \in DOMAIN h.maps : Limit(h, d) <= c \/ c + len <= d
  BY <1>1, <1>2, <1>3, MappedTyped
<1>5. /\ Slots(g0, C2, B2) /\ c \notin C /\ b \notin B
      /\ \A d \in C : d + 48 <= c \/ c + len <= d
      /\ \A x \in B : x + 24 <= c \/ c + len <= x
      /\ \A x \in B : \A k \in BlockFields : Get(g0, x, k) = Get(h, x, k)
      /\ \A d \in C : \A k \in ChunkFields : Get(g0, d, k) = Get(h, d, k)
      /\ \A k \in BlockFields : Get(g0, b, k) = 0
      /\ \A k \in ChunkFields : Get(g0, c, k) = 0
  BY <1>1, <1>2, MappedSlots
<1>6. len \in Words /\ c \in Words
  BY <1>1, <1>4, WordAssumption, WordFacts
<1>7. round_up(c + SizeofChunk, kAlignment) = b
  BY <1>4, RoundUp DEF SizeofChunk
<1>. HIDE DEF g0
<1>8. c + kMemorySize - 8 \in DOMAIN g0.mem
  <2>1. c + kMemorySize - 8 \in Nat /\ c <= c + kMemorySize - 8 /\ c + kMemorySize - 8 < c + len
        /\ (c + kMemorySize - 8) % 8 = 0
    BY <1>1, <1>4
  <2>2. c \in DOMAIN g0.maps /\ Limit(g0, c) = c + len
    BY <1>4 DEF Limit
  <2>3. QED
    BY <1>4, <2>1, <2>2 DEF Typed, Mapping, kAlignment
<1>9. /\ HeapType(g1) /\ Slots(g1, C2, B2) /\ Frame(g0, g1)
      /\ \A x \in B2 : \A k \in BlockFields : Get(g1, x, k) = Get(g0, x, k)
      /\ \A d \in C2 : \A k \in ChunkFields : Get(g1, d, k) = Get(g0, d, k)
  <2>1. /\ \A d \in C2 : d = c \/ d + 48 <= c \/ c + len <= d
        /\ \A x \in B2 : x = c + 48 \/ x + 24 <= c \/ c + len <= x
        /\ c \in C2 /\ c + 48 \in B2 /\ HeapType(g0)
    BY <1>4, <1>5 DEF Typed
  <2>. HIDE DEF C2, B2
  <2>2. QED
    BY <1>1, <1>5, <1>8, <2>1, FencedWrites
<1>. HIDE DEF g1
<1>10. last \in C \cup {NULL}
  BY <1>3, LastChunk DEF last
<1>11. last \in (C2 \ {c}) \cup {NULL} /\ c # last
  BY <1>4, <1>5, <1>10 DEF NULL
<1>12. /\ Frame(g1, g)
       /\ \A x \in B2 : /\ Get(g, x, SIZE) = IF x = b THEN len - 48 ELSE Get(g1, x, SIZE)
                        /\ Get(g, x, NEXT) = Get(g1, x, NEXT) /\ Get(g, x, PREV) = Get(g1, x, PREV)
       /\ \A d \in C2 : /\ Get(g, d, NEXT) = IF d = last THEN c ELSE Get(g1, d, NEXT)
                        /\ Get(g, d, PREV) = IF d = c THEN last ELSE Get(g1, d, PREV)
                        /\ Get(g, d, FREE) = IF d = c THEN b ELSE Get(g1, d, FREE)
                        /\ Get(g, d, ALLOC) = Get(g1, d, ALLOC)
                        /\ Get(g, d, CHUNK_SIZE) = IF d = c THEN len ELSE Get(g1, d, CHUNK_SIZE)
  <2>1. c \in C2 /\ b \in B2 /\ b = c + 48 /\ len >= 48
    BY <1>1
  <2>2. g = Laid(g1, c, len, last, b)
    BY <1>2, <1>7
  <2>. HIDE DEF C2, B2, b
  <2>3. QED
    BY <1>6, <1>9, <1>11, <2>1, <2>2, LaidWrites
<1>13. Frame(g0, g)
  BY <1>9, <1>12 DEF Frame
<1>14. HeapType(g) /\ Mapping(g) /\ g.first_map = h.first_map /\ g.fault = h.fault /\ g.maps = g0.maps
  BY <1>4, <1>13 DEF Frame, Typed, Mapping, Limit
<1>15. /\ DOMAIN g.maps = DOMAIN h.maps \cup {c} /\ g.maps[c] = len /\ Limit(g, c) = c + len
       /\ \A d \in C : Limit(g, d) = Limit(h, d) /\ g.maps[d] = h.maps[d]
  BY <1>4, <1>14 DEF Limit, Shape
<1>16. \A x \in B : x # b
  BY <1>5
<1>17. {SIZE, NEXT, PREV} \subseteq BlockFields /\ {NEXT, PREV, FREE, ALLOC, CHUNK_SIZE} \subseteq ChunkFields
  BY DEF BlockFields, ChunkFields
<1>18. /\ \A x \in B : /\ Get(g, x, SIZE) = Get(h, x, SIZE)
                       /\ Get(g, x, NEXT) = Get(h, x, NEXT) /\ Get(g, x, PREV) = Get(h, x, PREV)
       /\ Get(g, b, SIZE) = len - 48 /\ Get(g, b, NEXT) = NULL /\ Get(g, b, PREV) = NULL
  BY <1>5, <1>9, <1>12, <1>16, <1>17 DEF NULL
<1>19. \A d \in C : /\ Get(g, d, NEXT) = IF d = last THEN c ELSE Get(h, d, NEXT)
                    /\ Get(g, d, PREV) = Get(h, d, PREV) /\ Get(g, d, FREE) = Get(h, d, FREE)
                    /\ Get(g, d, ALLOC) = Get(h, d, ALLOC)
                    /\ Get(g, d, CHUNK_SIZE) = Get(h, d, CHUNK_SIZE)
  BY <1>5, <1>9, <1>12, <1>17
<1>20. /\ Get(g, c, NEXT) = NULL /\ Get(g, c, PREV) = last /\ Get(g, c, FREE) = b
       /\ Get(g, c, ALLOC) = NULL /\ Get(g, c, CHUNK_SIZE) = len
  BY <1>5, <1>9, <1>11, <1>12, <1>17 DEF NULL
<1>21. QED
  BY <1>1, <1>4, <1>5, <1>6, <1>14, <1>15, <1>18, <1>19, <1>20 DEF c, g, len, last

\* g is the memory h with a new chunk c above the others, one free block.
Grown(h, g, C, B, A, F, c) ==
  LET b == c + 48
  IN  /\ Shape(g, C \cup {c}, B \cup {b}, A, F \cup {b})
      /\ b \notin B /\ g.fault = h.fault
      /\ \A x \in B : Get(g, x, SIZE) = Get(h, x, SIZE) /\ EndOf(g, x) < b
      /\ EndOf(g, b) = Limit(g, c)

\* A chunk that is put into the list above all others, as its first if there
\* is none, is one free block.
LEMMA FreshShape ==
  ASSUME NEW h, NEW C, NEW B, NEW A, NEW F, Shape(h, C, B, A, F),
         NEW multiple \in Nat \ {0}, NEW r \in get_chunk_from_OS(h, multiple), r.chunk # NULL,
         \A d \in C : d < r.chunk,
         NEW g, g = [r.m EXCEPT !.first_map = IF C = {} THEN r.chunk ELSE @]
  PROVE  Grown(h, g, C, B, A, F, r.chunk)
<1>. DEFINE c    == r.chunk
            b    == c + 48
            len  == multiple * kMemorySize
            last == last_chunk_from_OS(h)
            C2   == C \cup {c}
            B2   == B \cup {b}
            F2   == F \cup {b}
<1>1. /\ HeapType(r.m) /\ Mapping(r.m) /\ r.m.first_map = h.first_map /\ r.m.fault = h.fault
      /\ len \in Nat /\ len >= 80 /\ len % 8 = 0
      /\ c \in Nat /\ c > 0 /\ c % 8 = 0 /\ c \in Words
      /\ c \notin C /\ b \notin B
      /\ DOMAIN r.m.maps = DOMAIN h.maps \cup {c}
      /\ Limit(r.m, c) = c + len
      /\ \A d \in C : Limit(r.m, d) = Limit(h, d) /\ r.m.maps[d] = h.maps[d]
      /\ r.m.maps[c] = len
      /\ \A d \in DOMAIN h.maps : Limit(h, d) <= c \/ c + len <= d
      /\ \A x \in B : /\ Get(r.m, x, SIZE) = Get(h, x, SIZE)
                      /\ Get(r.m, x, NEXT) = Get(h, x, NEXT) /\ Get(r.m, x, PREV) = Get(h, x, PREV)
      /\ Get(r.m, b, SIZE) = len - 48 /\ Get(r.m, b, NEXT) = NULL /\ Get(r.m, b, PREV) = NULL
      /\ \A d \in C : /\ Get(r.m, d, NEXT) = IF d = last THEN c ELSE Get(h, d, NEXT)
                      /\ Get(r.m, d, PREV) = Get(h, d, PREV) /\ Get(r.m, d, FREE) = Get(h, d, FREE)
                      /\ Get(r.m, d, ALLOC) = Get(h, d, ALLOC)
                      /\ Get(r.m, d, CHUNK_SIZE) = Get(h, d, CHUNK_SIZE)
      /\ Get(r.m, c, NEXT) = NULL /\ Get(r.m, c, PREV) = last /\ Get(r.m, c, FREE) = b
      /\ Get(r.m, c, ALLOC) = NULL /\ Get(r.m, c, CHUNK_SIZE) = len
  BY FreshWrites
<1>. HIDE DEF len, c, last
<1>2. /\ g.first_map = IF C = {} THEN c ELSE h.first_map
      /\ g.mem = r.m.mem /\ g.maps = r.m.maps /\ g.fault = h.fault
      /\ g = [first_map |-> g.first_map, mem |-> g.mem, maps |-> g.maps, fault |-> g.fault]
  BY <1>1 DEF HeapType, c
<1>3. /\ \A x, k : Get(g, x, k) = Get(r.m, x, k)
      /\ \A d : Limit(g, d) = Limit(r.m, d)
      /\ \A x : EndOf(g, x) = EndOf(r.m, x)
  BY <1>2 DEF Get, Limit, EndOf
<1>4. HeapType(g) /\ Mapping(g)
  <2>1. HeapType(g)
    BY <1>1, <1>2 DEF HeapType, Shape
  <2>2. QED
    BY <1>1, <1>2, <1>3, <2>1 DEF Mapping
<1>5. /\ HeapType(h) /\ Mapping(h) /\ C \subseteq DOMAIN h.maps /\ Chunked(h, C)
      /\ A \subseteq B /\ F \subseteq B /\ A \cap F = {}
      /\ Tiled(h, C, B) /\ Listed(h, C, A, F)
  BY ShapeChunked DEF Shape
<1>6. \A d \in C : d \in Nat /\ d # NULL /\ d + 80 <= Limit(h, d) /\ Limit(h, d) \in Nat /\ d < c /\ Limit(h, d) <= c
  <2>1. SUFFICES ASSUME NEW d \in C
                 PROVE  d \in Nat /\ d # NULL /\ d + 80 <= Limit(h, d) /\ Limit(h, d) \in Nat /\ d < c /\ Limit(h, d) <= c
    OBVIOUS
  <2>2. d \in Nat /\ d > 0 /\ d + 80 <= Limit(h, d) /\ Limit(h, d) \in Nat
    BY <1>5, ChunkPlace
  <2>3. d < c
    BY DEF c
  <2>4. QED
    BY <1>1, <1>5, <2>2, <2>3 DEF NULL
<1>7. \A x \in B : /\ x \in Nat /\ x # NULL /\ EndOf(h, x) \in Nat /\ x < EndOf(h, x) /\ EndOf(h, x) <= c
                   /\ EndOf(g, x) = EndOf(h, x)
  <2>1. SUFFICES ASSUME NEW x \in B
                 PROVE  /\ x \in Nat /\ x # NULL /\ EndOf(h, x) \in Nat /\ x < EndOf(h, x) /\ EndOf(h, x) <= c
                        /\ EndOf(g, x) = EndOf(h, x)
    OBVIOUS
  <2>2. PICK d \in C : BlockOf(h, B, d, x)
    BY Home
  <2>3. /\ x \in Nat /\ x > 0 /\ EndOf(h, x) \in Nat /\ x + 32 <= EndOf(h, x) /\ EndOf(h, x) <= Limit(h, d)
    BY <1>5, <2>2, BlockPlace
  <2>4. EndOf(g, x) = EndOf(h, x)
    BY <1>1, <1>3 DEF EndOf
  <2>5. QED
    BY <1>1, <1>6, <2>2, <2>3, <2>4 DEF NULL
<1>8. b \in Nat /\ EndOf(g, b) = c + len /\ b < EndOf(g, b) /\ b # NULL /\ b % 8 = 0 /\ c < b /\ Limit(g, c) = c + len
  BY <1>1, <1>3 DEF EndOf, NULL
<1>9. Tiled(g, C2, B2)
  <2>1. ASSUME NEW d \in C2 PROVE d + SizeofChunk \in B2 /\ Get(g, d, CHUNK_SIZE) = g.maps[d]
    <3>1. CASE d = c
      BY <1>1, <1>2, <1>3, <3>1 DEF SizeofChunk
    <3>2. CASE d \in C
      BY <1>1, <1>2, <1>3, <1>5, <3>2 DEF Tiled
    <3>3. QED
      BY <2>1, <3>1, <3>2
  <2>2. ASSUME NEW x \in B2
        PROVE  /\ x \in Nat /\ x % kAlignment = 0
               /\ Get(g, x, SIZE) >= kMetadataSize + kMinAllocationSize
               /\ \E d \in C2 : BlockOf(g, B2, d, x)
    <3>1. CASE x = b
      <4>1. BlockOf(g, B2, c, b)
        BY <1>1, <1>3, <1>8 DEF BlockOf, SizeofChunk
      <4>2. QED
        BY <1>1, <1>3, <1>8, <3>1, <4>1 DEF kAlignment, kMetadataSize, kMinAllocationSize
    <3>2. CASE x \in B
      <4>1. PICK d \in C : BlockOf(h, B, d, x)
        BY <3>2, Home
      <4>2. BlockOf(g, B2, d, x)
        BY <1>1, <1>3, <1>7, <3>2, <4>1 DEF BlockOf
      <4>3. QED
        BY <1>1, <1>3, <1>5, <3>2, <4>2 DEF Tiled
    <3>3. QED
      BY <2>2, <3>1, <3>2
  <2>3. ASSUME NEW x \in B2, NEW y \in B2, x < y PROVE EndOf(g, x) <= y
    <3>1. CASE x \in B /\ y \in B
      BY <1>5, <1>7, <2>3, <3>1 DEF Tiled
    <3>2. CASE x \in B /\ y = b
      BY <1>1, <1>7, <1>8, <3>2
    <3>3. CASE x = b /\ y \in B
      <4>1. y \in Nat /\ EndOf(h, y) \in Nat /\ y < EndOf(h, y) /\ EndOf(h, y) <= c
        BY <1>7, <3>3
      <4>2. y < b
        BY <1>1, <1>8, <4>1
      <4>3. QED
        BY <1>8, <2>3, <3>3, <4>1, <4>2
    <3>4. CASE x = b /\ y = b
      BY <1>8, <2>3, <3>4
    <3>5. QED
      BY <2>3, <3>1, <3>2, <3>3, <3>4
  <2>4. QED
    BY <2>1, <2>2, <2>3 DEF Tiled
<1>10. Linked(h, C) /\ After(C, NULL, h.first_map) /\ C \subseteq Nat \ {NULL} /\ c \in Nat \ {NULL} /\ c \notin C
  BY <1>1, <1>5, <1>6 DEF Listed, NULL
<1>11. Before(C, c, last) /\ After(C, c, NULL)
  <2>1. \A d \in C : d \in Nat /\ d < c
    BY <1>6
  <2>2. \/ last = NULL /\ C = {}
        \/ last \in C /\ \A d \in C : d <= last
    BY <1>5, LastChunk DEF last
  <2>3. QED
    BY <1>1, <2>1, <2>2 DEF Before, After
<1>12. PutIn(h, g, C, c, last, NULL)
  <2>1. \A d \in C : d # NULL
    BY <1>6
  <2>2. QED
    BY <1>1, <1>3, <2>1 DEF PutIn
<1>13. Linked(g, C2) /\ After(C2, NULL, g.first_map)
  <2>1. Linked(g, C2)
    BY <1>10, <1>11, <1>12, PutLinked
  <2>2. last = NULL <=> C = {}
    BY <1>5, <1>6, LastChunk DEF last
  <2>3. After(C2, NULL, IF last = NULL THEN c ELSE h.first_map)
    BY <1>10, <1>11, PutHead
  <2>4. QED
    BY <1>2, <2>1, <2>2, <2>3
<1>14. \A d \in C : Within(g, d, A) = Within(h, d, A) /\ Within(g, d, F2) = Within(h, d, F)
  BY <1>1, <1>3, <1>6, <1>8 DEF Within
<1>15. Within(g, c, A) = {} /\ Within(g, c, F2) = {b}
  <2>1. \A x \in B : x < c /\ x \in Nat
    BY <1>1, <1>7
  <2>2. QED
    BY <1>1, <1>5, <1>8, <2>1 DEF Within
<1>16. ASSUME NEW d \in C PROVE ChunkLists(g, d, Within(g, d, A), Within(g, d, F2))
  <2>1. ChunkLists(h, d, Within(h, d, A), Within(h, d, F))
    BY <1>5 DEF Listed
  <2>2. Within(h, d, A) \subseteq B /\ Within(h, d, F) \subseteq B
    BY <1>5 DEF Within
  <2>3. Linked(g, Within(h, d, A)) /\ Linked(g, Within(h, d, F))
    BY <1>1, <1>3, <2>1, <2>2, LinkedKept DEF ChunkLists
  <2>4. Limit(g, d) = Limit(h, d) /\ Get(g, d, FREE) = Get(h, d, FREE) /\ Get(g, d, ALLOC) = Get(h, d, ALLOC)
    BY <1>1, <1>3
  <2>5. ChunkLists(g, d, Within(h, d, A), Within(h, d, F))
    BY <2>1, <2>3, <2>4 DEF ChunkLists
  <2>. HIDE DEF F2
  <2>6. QED
    BY <1>14, <2>5
<1>17. ChunkLists(g, c, Within(g, c, A), Within(g, c, F2))
  <2>1. After({b}, NULL, b) /\ After({b}, b, NULL) /\ Before({b}, b, NULL)
    BY <1>8 DEF After, Before, NULL
  <2>2. Linked(g, {b})
    BY <1>1, <1>3, <2>1 DEF Linked
  <2>3. Linked(g, {})
    BY DEF Linked
  <2>4. Get(g, c, FREE) = b /\ Get(g, c, ALLOC) = NULL
    BY <1>1, <1>3
  <2>5. ChunkLists(g, c, {}, {b})
    BY <2>1, <2>2, <2>3, <2>4 DEF ChunkLists
  <2>. HIDE DEF F2
  <2>6. QED
    BY <1>15, <2>5
<1>18. Listed(g, C2, A, F2)
  BY <1>13, <1>16, <1>17 DEF Listed
<1>19. C2 \subseteq DOMAIN g.maps /\ A \subseteq B2 /\ F2 \subseteq B2 /\ A \cap F2 = {}
  BY <1>1, <1>2, <1>5
<1>20. Shape(g, C2, B2, A, F2)
  <2>. HIDE DEF C2, B2, F2
  <2>1. QED
    BY <1>4, <1>9, <1>18, <1>19 DEF Shape
<1>21. \A x \in B : Get(g, x, SIZE) = Get(h, x, SIZE) /\ EndOf(g, x) < b
  BY <1>1, <1>3, <1>7, <1>8
<1>22. QED
  BY <1>1, <1>2, <1>8, <1>20, <1>21 DEF c, Grown

-----------------------------------------------------------------------------
(* Types, whatever goes wrong *)

\* What FirstWith picks is an element, or NULL.
LEMMA Chosen ==
  ASSUME NEW s, DOMAIN s \subseteq Nat, NEW H, H \subseteq DOMAIN s
  PROVE  (IF H = {} THEN NULL ELSE s[CHOOSE k \in H : \A j \in H : k <= j]) \in Elements(s) \cup {NULL}
<1>1. CASE H # {}
  <2>. DEFINE k == CHOOSE k \in H : \A j \in H : k <= j
  <2>1. H \subseteq Nat
    OBVIOUS
  <2>2. k \in H
    BY <1>1, <2>1, LeastChosen
  <2>. HIDE DEF k
  <2>3. s[k] \in Elements(s)
    BY <2>2 DEF Elements
  <2>4. QED
    BY <1>1, <2>3 DEF k
<1>2. QED
  BY <1>1

\* The elements of a list are words.
LEMMA ChainWords ==
  ASSUME NEW h, Typed(h), NEW p \in Words
  PROVE  Chain(h, p) \in Seq(Words) /\ (p # NULL => Chain(h, p) # << >>)
<1>. DEFINE next  == [x \in DOMAIN h.mem |-> Get(h, x, NEXT)]
            limit == Cardinality(DOMAIN h.mem)
            T     == {s \in Seq(Words) : p # NULL => s # << >>}
<1>1. limit \in Nat
  BY FS_CardinalityType DEF Typed, Mapping
<1>2. \A x \in DOMAIN next : next[x] \in Words
  BY GetType DEF Typed
<1>. HIDE DEF next
<1>3. First(p) \in T
  BY DEF First
<1>4. ASSUME NEW s \in T PROVE Extend(next, s) \in T
  <2>1. CASE s = << >> \/ s[Len(s)] \notin DOMAIN next
    BY <1>4, <2>1 DEF Extend
  <2>2. CASE s # << >> /\ s[Len(s)] \in DOMAIN next
    <3>1. next[s[Len(s)]] \in Words
      BY <1>2, <2>2
    <3>2. Extend(next, s) = s \/ Extend(next, s) = Append(s, next[s[Len(s)]])
      BY <2>2 DEF Extend
    <3>3. Append(s, next[s[Len(s)]]) \in Seq(Words) /\ Append(s, next[s[Len(s)]]) # << >>
      BY <1>4, <3>1
    <3>4. QED
      BY <1>4, <3>2, <3>3
  <2>3. QED
    BY <2>1, <2>2
<1>. HIDE DEF T, limit
<1>5. Follow(next, p, limit) \in T
  BY <1>1, <1>3, <1>4, FollowInduction
<1>6. Chain(h, p) = Follow(next, p, limit)
  BY DEF Chain, next, limit
<1>7. QED
  BY <1>5, <1>6 DEF T

\* The lists.
LEMMA ListWords ==
  ASSUME NEW h, Typed(h)
  PROVE  /\ Chunks(h) \in Seq(Words) /\ (h.first_map # NULL => Chunks(h) # << >>)
         /\ \A c : FreeChain(h, c) \in Seq(Words) /\ AllocChain(h, c) \in Seq(Words)
<1>1. h.first_map \in Words /\ \A c : Get(h, c, FREE) \in Words /\ Get(h, c, ALLOC) \in Words
  BY GetType DEF Typed, HeapType
<1>2. QED
  BY <1>1, ChainWords DEF Chunks, FreeChain, AllocChain

\* An element of a sequence of words.
LEMMA ElementWord ==
  ASSUME NEW s \in Seq(Words)
  PROVE  Elements(s) \subseteq Words /\ DOMAIN s \subseteq Nat /\ NULL \in Words
BY WordFacts DEF Elements, NULL

\* Where the loop of insert_free stops that looks for b.
FreeStop(h, c, b) == FirstWith(FreeChain(h, c), LAMBDA x : x >= b)

\* Where loops stop.
LEMMA StopWords ==
  ASSUME NEW h, Typed(h), NEW b, NEW c
  PROVE  /\ chunk_from_block(h, b) \in Words
         /\ alloc_before(h, c, b) \in Words
         /\ FreeStop(h, c, b) \in Words
<1>1. Chunks(h) \in Seq(Words) /\ FreeChain(h, c) \in Seq(Words) /\ AllocChain(h, c) \in Seq(Words)
  BY ListWords
<1>2. chunk_from_block(h, b) \in Words
  <2>. DEFINE s == Chunks(h)
              H == {k \in DOMAIN s : b < s[k] + Get(h, s[k], CHUNK_SIZE)}
  <2>1. H \subseteq DOMAIN s /\ DOMAIN s \subseteq Nat /\ Elements(s) \subseteq Words /\ NULL \in Words
    BY <1>1, ElementWord
  <2>2. chunk_from_block(h, b) \in {NULL, IF H = {} THEN NULL ELSE s[CHOOSE k \in H : \A j \in H : k <= j]}
    BY DEF chunk_from_block, FirstWith
  <2>. HIDE DEF H, s
  <2>3. (IF H = {} THEN NULL ELSE s[CHOOSE k \in H : \A j \in H : k <= j]) \in Elements(s) \cup {NULL}
    BY <2>1, Chosen
  <2>4. QED
    BY <2>1, <2>2, <2>3
<1>3. alloc_before(h, c, b) \in Words
  <2>. DEFINE s == AllocChain(h, c)
              H == {k \in DOMAIN s : s[k] >= b}
  <2>1. H \subseteq DOMAIN s /\ DOMAIN s \subseteq Nat /\ Elements(s) \subseteq Words /\ NULL \in Words
    BY <1>1, ElementWord
  <2>2. alloc_before(h, c, b) = IF H = {} THEN NULL ELSE s[CHOOSE k \in H : \A j \in H : k <= j]
    BY DEF alloc_before, FirstWith
  <2>. HIDE DEF H, s
  <2>3. (IF H = {} THEN NULL ELSE s[CHOOSE k \in H : \A j \in H : k <= j]) \in Elements(s) \cup {NULL}
    BY <2>1, Chosen
  <2>4. QED
    BY <2>1, <2>2, <2>3
<1>4. FreeStop(h, c, b) \in Words
  <2>. DEFINE s == FreeChain(h, c)
              H == {k \in DOMAIN s : s[k] >= b}
  <2>1. H \subseteq DOMAIN s /\ DOMAIN s \subseteq Nat /\ Elements(s) \subseteq Words /\ NULL \in Words
    BY <1>1, ElementWord
  <2>2. FreeStop(h, c, b) = IF H = {} THEN NULL ELSE s[CHOOSE k \in H : \A j \in H : k <= j]
    BY DEF FreeStop, FirstWith
  <2>. HIDE DEF H, s
  <2>3. (IF H = {} THEN NULL ELSE s[CHOOSE k \in H : \A j \in H : k <= j]) \in Elements(s) \cup {NULL}
    BY <2>1, Chosen
  <2>4. QED
    BY <2>1, <2>2, <2>3
<1>5. QED
  BY <1>2, <1>3, <1>4

\* The next block in memory.
LEMMA NextWord ==
  ASSUME NEW h, Typed(h), NEW b \in Words
  PROVE  get_next_block(h, b) \in Words
<1>. DEFINE c == chunk_from_block(h, b)
            d == Get(h, c, NEXT)
            starts == {Get(h, d, FREE), Get(h, d, ALLOC)} \ {NULL}
<1>1. \A p, f : Get(h, p, f) \in Words
  BY GetType DEF Typed
<1>2. Wrap(b + Get(h, b, SIZE)) \in Words
  <2>1. Get(h, b, SIZE) \in Nat /\ b \in Nat
    BY <1>1, WordFacts
  <2>2. b + Get(h, b, SIZE) \in Int
    BY <2>1
  <2>3. QED
    BY <2>2, WrapFacts
<1>3. starts \subseteq Words /\ NULL \in Words /\ Words \subseteq Nat
  BY <1>1, WordFacts DEF NULL
<1>4. get_start_block_in_chunk(h, d) \in Words
  <2>1. get_start_block_in_chunk(h, d) =
          IF starts = {} THEN NULL ELSE CHOOSE x \in starts : \A y \in starts : x <= y
    BY DEF get_start_block_in_chunk
  <2>. HIDE DEF starts
  <2>2. CASE starts # {}
    <3>1. (CHOOSE x \in starts : \A y \in starts : x <= y) \in starts
      BY <1>3, <2>2, LeastChosen
    <3>2. QED
      BY <1>3, <2>1, <2>2, <3>1
  <2>3. QED
    BY <1>3, <2>1, <2>2
<1>5. QED
  BY <1>2, <1>3, <1>4 DEF get_next_block, block_after

\* The search finds a block of a free list, or NULL.
LEMMA FitFound ==
  ASSUME NEW h, Typed(h), NEW n
  PROVE  \/ best_fit(h, n) = NULL
         \/ \E c \in Elements(Chunks(h)) : best_fit(h, n) \in Elements(FreeChain(h, c))
<1>1. Chunks(h) \in Seq(Words) /\ \A c : FreeChain(h, c) \in Seq(Words)
  BY ListWords
<1>2. ASSUME NEW c PROVE best_fit_in_chunk(h, c, n) \in Elements(FreeChain(h, c)) \cup {NULL}
  <2>. DEFINE s == FreeChain(h, c)
              H == {k \in DOMAIN s : \A y \in Elements(s) : excess(h, s[k], n) <= excess(h, y, n)}
  <2>1. H \subseteq DOMAIN s /\ DOMAIN s \subseteq Nat
    BY <1>1, ElementWord
  <2>2. best_fit_in_chunk(h, c, n) = IF H = {} THEN NULL ELSE s[CHOOSE k \in H : \A j \in H : k <= j]
    BY DEF best_fit_in_chunk, Least, FirstWith
  <2>. HIDE DEF H, s
  <2>3. QED
    BY <2>1, <2>2, Chosen DEF s
<1>. DEFINE chunks == Chunks(h)
            offers == [k \in DOMAIN chunks |-> best_fit_in_chunk(h, chunks[k], n)]
            H == {k \in DOMAIN offers : offers[k] # NULL /\ \A x \in Elements(offers) \ {NULL} :
                                          Get(h, offers[k], SIZE) <= Get(h, x, SIZE)}
<1>3. H \subseteq DOMAIN offers /\ DOMAIN offers \subseteq Nat
  BY <1>1, ElementWord
<1>4. best_fit(h, n) = IF H = {} THEN NULL ELSE offers[CHOOSE k \in H : \A j \in H : k <= j]
  BY DEF best_fit, FirstWith
<1>5. \A k \in DOMAIN offers : \E c \in Elements(chunks) : offers[k] \in Elements(FreeChain(h, c)) \cup {NULL}
  BY <1>2 DEF Elements
<1>. HIDE DEF H, offers
<1>6. best_fit(h, n) \in Elements(offers) \cup {NULL}
  BY <1>3, <1>4, Chosen
<1>7. QED
  BY <1>5, <1>6 DEF Elements

\* Writes of words into lists.
LEMMA SetTwice ==
  ASSUME NEW h, Typed(h), NEW p, NEW f, NEW v \in Words, NEW q, NEW k, NEW w \in Words
  PROVE  /\ Typed(Set(Set(h, p, f, v), q, k, w)) /\ Typed(SetIf(Set(h, p, f, v), q, k, w))
         /\ Typed(Set(SetIf(h, p, f, v), q, k, w)) /\ Typed(SetIf(SetIf(h, p, f, v), q, k, w))
<1>1. Typed(Set(h, p, f, v)) /\ Typed(SetIf(h, p, f, v))
  BY SetTyped
<1>2. QED
  BY <1>1, SetTyped

\* Taking a block keeps the types.
LEMMA TakeTyped ==
  ASSUME NEW h, Typed(h), NEW b \in Words
  PROVE  Typed(taken(h, b).m)
<1>. DEFINE c == chunk_from_block(h, b)
            p == Get(h, b, PREV)
            n == Get(h, b, NEXT)
            u == unlisted(h, b)
            e == place(h, b)
<1>1. p \in Words /\ n \in Words /\ c \in Words /\ NULL \in Words
  BY GetType, StopWords, WordFacts DEF Typed, NULL
<1>2. Typed(u)
  <2>1. u = SetIf(IF p # NULL THEN Set(h, p, NEXT, n) ELSE Set(h, c, FREE, n), n, PREV, p)
    BY DEF unlisted, unlink_free
  <2>2. QED
    BY <1>1, <2>1, SetTwice
<1>3. e \in Words
  BY <1>2, StopWords DEF place
<1>. DEFINE a == IF e = NULL THEN NULL ELSE Get(u, e, PREV)
<1>4. a \in Words
  BY <1>1, <1>2, GetType DEF Typed
<1>. HIDE DEF c, p, n, u, e, a
<1>5. Typed(Set(Set(u, b, NEXT, e), b, PREV, a))
  BY <1>2, <1>3, <1>4, SetTwice
<1>6. Typed(link_alloc(u, c, b, e, a))
  <2>. DEFINE w == Set(Set(u, b, NEXT, e), b, PREV, a)
  <2>1. Typed(w)
    BY <1>5
  <2>2. link_alloc(u, c, b, e, a) =
          SetIf(IF a # NULL THEN Set(w, a, NEXT, b) ELSE Set(w, c, ALLOC, b), e, PREV, b)
    BY DEF link_alloc
  <2>. HIDE DEF w
  <2>3. QED
    BY <2>1, <2>2, SetTwice
<1>7. mallocing_up(h, b) = IF c = NULL THEN h ELSE link_alloc(u, c, b, e, a)
  BY DEF mallocing_up, insert_alloc, c, u, e, a
<1>8. QED
  BY <1>6, <1>7 DEF taken

\* So does splitting one.
LEMMA SplitTyped ==
  ASSUME NEW h, Typed(h), NEW b \in Words, NEW n \in Words, NEW r \in split_block(h, b, n)
  PROVE  Typed(r.m) /\ r.block \in Words
<1>. DEFINE cut == Set(h, b, SIZE, Wrap(Get(h, b, SIZE) - n))
            right == get_next_block(cut, b)
            g == Set(cut, right, SIZE, n)
            x == Get(g, b, NEXT)
            g2 == Set(g, right, NEXT, x)
            g3 == SetIf(g2, x, PREV, right)
<1>1. r = [m |-> lay_right(cut, b, right, n), block |-> right]
  BY DEF split_block
<1>2. Wrap(Get(h, b, SIZE) - n) \in Words
  <2>1. Get(h, b, SIZE) - n \in Int
    <3>1. Get(h, b, SIZE) \in Nat
      BY GetNat DEF Typed
    <3>2. n \in Nat
      BY WordFacts
    <3>3. QED
      BY <3>1, <3>2
  <2>2. QED
    BY <2>1, WrapFacts
<1>3. Typed(cut)
  BY <1>2, SetTyped
<1>. HIDE DEF cut
<1>4. right \in Words
  BY <1>3, NextWord
<1>. HIDE DEF right
<1>5. Typed(g)
  BY <1>3, SetTyped
<1>. HIDE DEF g
<1>6. x \in Words
  BY <1>5, GetType DEF Typed
<1>. HIDE DEF x
<1>7. Typed(g3)
  BY <1>4, <1>5, <1>6, SetTwice
<1>8. lay_right(cut, b, right, n) = Set(Set(g3, b, NEXT, right), right, PREV, b)
  BY DEF lay_right, link_after, g, x
<1>. HIDE DEF g3
<1>9. Typed(lay_right(cut, b, right, n))
  BY <1>4, <1>7, <1>8, SetTwice
<1>10. QED
  BY <1>1, <1>4, <1>9

\* Giving a block back keeps the types.
LEMMA PutBackTyped ==
  ASSUME NEW h, Typed(h), NEW b \in Words
  PROVE  Typed(put_back(h, b))
<1>. DEFINE g == freeing_up(h, b)
<1>1. Typed(g)
  <2>1. Get(h, b, PREV) \in Words /\ Get(h, b, NEXT) \in Words
    BY GetType DEF Typed
  <2>2. QED
    BY <2>1, SetTwice DEF freeing_up
<1>. HIDE DEF g
<1>2. put_back(h, b) = insert_free(g, chunk_from_block(h, b), b)
  BY DEF put_back, g
<1>3. ASSUME NEW d PROVE Typed(insert_free(g, d, b))
  <2>. DEFINE t == FreeChain(g, d)
              n == FirstWith(t, LAMBDA x : x >= b)
              l == IF t = << >> THEN NULL ELSE t[Len(t)]
              q == IF n = NULL THEN l ELSE Get(g, n, PREV)
              w1 == Set(Set(g, b, NEXT, n), b, PREV, q)
              w2 == SetIf(SetIf(w1, q, NEXT, b), n, PREV, b)
  <2>1. n \in Words
    <3>1. n = FreeStop(g, d, b)
      BY DEF FreeStop
    <3>. HIDE DEF n
    <3>2. QED
      BY <1>1, <3>1, StopWords
  <2>2. l \in Words
    <3>1. t \in Seq(Words)
      BY <1>1, ListWords
    <3>2. QED
      BY <3>1, WordFacts DEF NULL
  <2>3. q \in Words
    BY <1>1, <2>2, GetType DEF Typed
  <2>4. insert_free(g, d, b) = link_free(g, d, q, b, n)
    BY DEF insert_free
  <2>. HIDE DEF n, l, q, t
  <2>5. Typed(w1)
    BY <1>1, <2>1, <2>3, SetTwice
  <2>. HIDE DEF w1
  <2>6. Typed(w2)
    BY <2>5, SetTwice
  <2>7. link_free(g, d, q, b, n) = IF n = Get(g, d, FREE) THEN Set(w2, d, FREE, b) ELSE w2
    BY DEF link_free, w1
  <2>. HIDE DEF w2
  <2>8. QED
    BY <2>4, <2>6, <2>7, SetTyped
<1>4. QED
  BY <1>2, <1>3

\* And joining two.
LEMMA JoinTyped ==
  ASSUME NEW h, Typed(h), NEW a \in Words, NEW b \in Words
  PROVE  Typed(join(h, a, b))
<1>1. Get(h, a, SIZE) + Get(h, b, SIZE) \in Int /\ Get(h, b, NEXT) \in Words
  <2>1. Get(h, a, SIZE) \in Nat /\ Get(h, b, SIZE) \in Nat
    BY GetNat DEF Typed
  <2>2. Get(h, b, NEXT) \in Words
    BY GetType DEF Typed
  <2>3. QED
    BY <2>1, <2>2
<1>2. Wrap(Get(h, a, SIZE) + Get(h, b, SIZE)) \in Words
  BY <1>1, WrapFacts
<1>3. Typed(Set(Set(h, a, SIZE, Wrap(Get(h, a, SIZE) + Get(h, b, SIZE))), a, NEXT, Get(h, b, NEXT)))
  BY <1>1, <1>2, SetTwice
<1>4. QED
  BY <1>3, SetTyped DEF join

\* All of my_free does.
LEMMA FreeTyped ==
  ASSUME NEW h, Typed(h), NEW b \in Words
  PROVE  Typed(my_free(h, b))
<1>1. Typed(put_back(h, b))
  BY PutBackTyped
<1>2. Typed(join_next(put_back(h, b), b))
  BY <1>1, NextWord, JoinTyped DEF join_next
<1>3. Typed(join_prev(join_next(put_back(h, b), b), b))
  <2>. DEFINE g == join_next(put_back(h, b), b)
  <2>1. Get(g, b, PREV) \in Words
    BY <1>2, GetType DEF Typed
  <2>. HIDE DEF g
  <2>2. QED
    BY <1>2, <2>1, JoinTyped DEF join_prev, g
<1>4. QED
  BY <1>3 DEF my_free

\* And so does get_chunk_from_OS.
LEMMA OSTyped ==
  ASSUME NEW h, Typed(h), NEW multiple \in Nat \ {0}, NEW r \in get_chunk_from_OS(h, multiple)
  PROVE  Typed(r.m) /\ r.chunk \in Words
<1>. DEFINE len  == multiple * kMemorySize
            c    == r.chunk
            last == last_chunk_from_OS(h)
            start == round_up(c + SizeofChunk, kAlignment)
            g0   == Mapped(h, c, len)
            g1   == Fenced(g0, c)
            g2   == Set(Set(g1, c, PREV, last), c, CHUNK_SIZE, len)
            n    == len - (start - c)
            g3   == Set(Set(g2, c, FREE, start), start, SIZE, n)
<1>1. len \in Nat /\ len % 8 = 0 /\ 80 <= len
  BY UnitsAsked
<1>2. CASE r.m = h /\ c = NULL
  BY <1>2, WordFacts DEF NULL
<1>3. CASE c \in Room(h, len) /\ r.m = Laid(g1, c, len, last, start)
  <2>. HIDE DEF len, c, last
  <2>1. Typed(g0) /\ c \in Nat /\ c % 8 = 0 /\ c + len <= MmapTop
    BY <1>1, <1>3, MappedTyped
  <2>2. start = c + 48
    BY <2>1, RoundUp DEF SizeofChunk
  <2>3. len \in Words /\ c \in Words /\ start \in Words /\ n \in Words
    BY <1>1, <2>1, <2>2, WordFacts, WordAssumption
  <2>4. last \in Words
    BY ListWords, WordFacts DEF last, last_chunk_from_OS, NULL
  <2>. HIDE DEF g0, start, n
  <2>5. Typed(g1)
    BY <2>1, WordFacts, SetTwice DEF Fenced
  <2>. HIDE DEF g1
  <2>6. Typed(g2)
    BY <2>3, <2>4, <2>5, SetTwice
  <2>. HIDE DEF g2
  <2>7. Typed(g3)
    BY <2>3, <2>6, SetTwice
  <2>8. Laid(g1, c, len, last, start) = SetIf(g3, last, NEXT, c)
    BY DEF Laid, g2, n
  <2>. HIDE DEF g3
  <2>9. QED
    BY <1>3, <2>3, <2>7, <2>8, SetTyped DEF c
<1>4. QED
  BY <1>2, <1>3, OSReturns

==============================================================================
