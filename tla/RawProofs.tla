------------------------------ MODULE RawProofs ------------------------------
(***************************************************************************)
(* The first allocator, src/mymalloc-raw.c: its memory stays sound, block  *)
(* for block and link for link, until a mishap is recorded.                *)
(***************************************************************************)
EXTENDS RawListProofs

-----------------------------------------------------------------------------
(* Taking a block *)

\* mallocing_up moves a free block to the list of allocated blocks, if the loop
\* along that list stops where the block belongs.
LEMMA TakenShape ==
  ASSUME NEW h, NEW C, NEW B, NEW A, NEW F, Shape(h, C, B, A, F),
         NEW b \in F, NEW c \in C, BlockOf(h, B, c, b),
         After(Within(h, c, A), b, place(h, b)),
         place(h, b) = NULL => Within(h, c, A) = {}
  PROVE  /\ Shape(mallocing_up(h, b), C, B, A \cup {b}, F \ {b})
         /\ LinksOnly(h, mallocing_up(h, b), C, B)
<1>. DEFINE u == unlisted(h, b)
            n == place(h, b)
<1>1. b \in B /\ b \notin A /\ c # NULL
  <2>1. c \in Nat /\ c > 0
    BY ChunkPlace DEF Shape
  <2>2. QED
    BY <2>1 DEF Shape, NULL
<1>2. Shape(u, C, B, A, F \ {b}) /\ LinksOnly(h, u, C, B)
  BY UnlistedShape
<1>3. chunk_from_block(h, b) = c
  BY <1>1, ChunkOfBlock
<1>4. mallocing_up(h, b) = insert_alloc(u, c, b, n)
  BY <1>1, <1>3 DEF mallocing_up
<1>. HIDE DEF u, n
<1>5. \A d : Limit(u, d) = Limit(h, d)
  BY <1>2 DEF LinksOnly, Frame, Limit
<1>6. Within(u, c, A) = Within(h, c, A)
  BY <1>5 DEF Within
<1>7. BlockOf(u, B, c, b)
  <2>1. \A x \in B : EndOf(u, x) = EndOf(h, x)
    BY <1>2 DEF LinksOnly, EndOf
  <2>2. QED
    BY <1>1, <1>5, <2>1 DEF BlockOf
<1>8. b \in B \ (A \cup (F \ {b}))
  BY <1>1
<1>9. After(Within(u, c, A), b, n) /\ (n = NULL => Within(u, c, A) = {})
  BY <1>6 DEF n
<1>10. /\ Shape(insert_alloc(u, c, b, n), C, B, A \cup {b}, F \ {b})
       /\ LinksOnly(u, insert_alloc(u, c, b, n), C, B)
  BY <1>2, <1>7, <1>8, <1>9, EnlistedShape
<1>11. QED
  BY <1>2, <1>4, <1>10 DEF LinksOnly, Frame

\* The blocks that chunk_from_block gives a chunk.
LEMMA HeldOf ==
  ASSUME NEW h, NEW C, NEW B, NEW A, NEW F, Shape(h, C, B, A, F), NEW c \in C
  PROVE  {x \in A : chunk_from_block(h, x) = c} = Within(h, c, A)
<1>1. A \subseteq B
  BY DEF Shape
<1>2. ASSUME NEW x \in A PROVE chunk_from_block(h, x) = c <=> c <= x /\ x < Limit(h, c)
  <2>1. PICK d \in C : BlockOf(h, B, d, x)
    BY <1>1, Home
  <2>2. chunk_from_block(h, x) = d
    BY <1>1, <2>1, ChunkOfBlock
  <2>3. x \in Nat /\ d + 48 <= x /\ x < Limit(h, d)
    BY <1>1, <2>1, BlockPlace DEF Shape
  <2>4. c \in Nat /\ d \in Nat /\ Limit(h, c) \in Nat /\ Limit(h, d) \in Nat
    BY ChunkPlace DEF Shape
  <2>5. c = d \/ Limit(h, c) <= d \/ Limit(h, d) <= c
    BY ChunksApart DEF Shape
  <2>6. QED
    BY <2>2, <2>3, <2>4, <2>5
<1>3. QED
  BY <1>2 DEF Within

\* What a block that is not misplaced is put in front of.
LEMMA PlaceAccepted ==
  ASSUME NEW C, NEW B, NEW F, Shape(m, C, B, Held, F),
         NEW c \in C, NEW b \in Nat \ {NULL}, c <= b, b < Limit(m, c), b \notin Held,
         NEW before, ~Misplaced(b, before)
  PROVE  After(Within(m, c, Held), b, before) /\ (before = NULL => Within(m, c, Held) = {})
<1>. DEFINE inlist == {x \in Held : chunk_from_block(m, x) = chunk_from_block(m, b)}
            above  == {x \in inlist : x > b}
            S      == Within(m, c, Held)
<1>1. chunk_from_block(m, b) = c
  BY ShapeChunked, ChunkFound
<1>2. Held \subseteq B /\ B \subseteq Nat \ {NULL} /\ HeapType(m) /\ Mapping(m)
  BY BlockNumbers DEF Shape
<1>3. inlist = S
  BY <1>1, HeldOf
<1>4. ~(IF above = {} THEN before # NULL \/ inlist # {}
        ELSE before # CHOOSE x \in above : \A y \in above : x <= y)
  BY DEF Misplaced
<1>5. \A x \in S : x \in Nat /\ x # NULL
  BY <1>2 DEF Within
<1>6. CASE above = {}
  <2>1. before = NULL /\ S = {}
    BY <1>3, <1>4, <1>6
  <2>2. QED
    BY <2>1 DEF After
<1>7. CASE above # {}
  <2>1. above \subseteq Nat /\ above \subseteq S
    BY <1>3, <1>5
  <2>2. before \in above /\ \A y \in above : before <= y
    <3>1. before = CHOOSE x \in above : \A y \in above : x <= y
      BY <1>4, <1>7
    <3>. HIDE DEF above
    <3>2. QED
      BY <1>7, <2>1, <3>1, LeastChosen
  <2>3. before \in S /\ b < before /\ before # NULL
    BY <1>5, <2>1, <2>2
  <2>4. \A x \in S : x <= b \/ before <= x
    BY <1>3, <1>5, <2>2
  <2>5. QED
    BY <2>3, <2>4 DEF After
<1>8. QED
  BY <1>6, <1>7

\* A sound memory between calls: what is not allocated is free, and no two free
\* blocks are neighbours.
Kept(h, C, B, A) == Shape(h, C, B, A, B \ A) /\ Coalesced(h, B \ A)

\* r is the memory after a block of n bytes or more joined those the client holds.
Taken(r, C, B, n) ==
  \E B2 : /\ B \subseteq B2 /\ r.block \in B2 \ Held
         /\ Kept(r.m, C, B2, Held \cup {r.block})
         /\ r.m.fault = m.fault /\ Get(r.m, r.block, SIZE) >= n
         /\ \A x \in Held : Get(r.m, x, SIZE) = Get(m, x, SIZE)

\* The rest of my_malloc keeps the memory sound when the block is large enough
\* and is not misplaced.
LEMMA TakeKept ==
  ASSUME NEW C, NEW B, Kept(m, C, B, Held), NEW b \in B \ Held,
         NEW n \in Nat, n % 8 = 0, n >= 32, Get(m, b, SIZE) >= n,
         NEW r \in take(m, b, n), ~Misplaced(r.block, r.before)
  PROVE  Taken(r, C, B, n)
<1>. DEFINE F == B \ Held
<1>1. Shape(m, C, B, Held, F) /\ Coalesced(m, F) /\ b \in F /\ Held \subseteq B /\ F \subseteq B
  BY DEF Kept, Shape
<1>. HIDE DEF F
<1>2. PICK c \in C : BlockOf(m, B, c, b)
  BY <1>1, Home
<1>3. /\ b \in Nat /\ b > 0 /\ Get(m, b, SIZE) \in Nat /\ c + 48 <= b /\ b < Limit(m, c)
      /\ EndOf(m, b) \in Nat /\ EndOf(m, b) <= Limit(m, c) /\ EndOf(m, b) = b + Get(m, b, SIZE)
  BY <1>1, <1>2, BlockPlace DEF Shape, EndOf
<1>4. c \in Nat /\ c > 0 /\ Limit(m, c) \in Nat
  BY <1>1, ChunkPlace DEF Shape
<1>5. excess(m, b, n) = Get(m, b, SIZE) - n
  <2>1. Get(m, b, SIZE) \in Words
    BY <1>1, GetType DEF Shape
  <2>2. Get(m, b, SIZE) - n \in Nat /\ Get(m, b, SIZE) - n <= Get(m, b, SIZE)
    BY <1>3
  <2>3. Get(m, b, SIZE) - n \in Words
    BY <2>1, <2>2, WordBelow
  <2>4. QED
    BY <1>3, <2>3, WrapFacts DEF excess
<1>6. kMinAllocationSize + kMetadataSize = 32
  BY DEF kMinAllocationSize, kMetadataSize, kAlignment
<1>7. CASE excess(m, b, n) < 32
  <2>1. r = [m |-> mallocing_up(m, b), block |-> b, before |-> place(m, b)]
    BY <1>6, <1>7 DEF take, taken
  <2>2. b \in Nat \ {NULL} /\ c <= b /\ b \notin Held /\ ~Misplaced(b, place(m, b))
    BY <1>1, <1>3, <1>4, <2>1 DEF NULL
  <2>3. After(Within(m, c, Held), b, place(m, b)) /\ (place(m, b) = NULL => Within(m, c, Held) = {})
    BY <1>1, <1>3, <2>2, PlaceAccepted
  <2>4. Shape(r.m, C, B, Held \cup {b}, F \ {b}) /\ LinksOnly(m, r.m, C, B)
    BY <1>1, <1>2, <2>1, <2>3, TakenShape
  <2>5. \A x \in B : Get(r.m, x, SIZE) = Get(m, x, SIZE) /\ EndOf(r.m, x) = EndOf(m, x)
    BY <2>4 DEF LinksOnly, EndOf
  <2>6. Coalesced(r.m, F \ {b})
    BY <1>1, <2>5 DEF Coalesced
  <2>7. F \ {b} = B \ (Held \cup {b}) /\ r.block = b
    BY <2>1 DEF F
  <2>8. Kept(r.m, C, B, Held \cup {r.block})
    BY <2>4, <2>6, <2>7 DEF Kept
  <2>9. r.m.fault = m.fault
    BY <2>4 DEF LinksOnly, Frame
  <2>10. QED
    BY <1>1, <2>5, <2>7, <2>8, <2>9 DEF Taken
<1>8. CASE ~(excess(m, b, n) < 32)
  <2>. DEFINE right == EndOf(m, b) - n
              B2 == B \cup {right}
  <2>1. Get(m, b, SIZE) >= n + 32
    BY <1>3, <1>5, <1>8
  <2>2. PICK q \in split_block(m, b, n) :
               r = [m |-> mallocing_up(q.m, q.block), block |-> q.block, before |-> place(q.m, q.block)]
    BY <1>6, <1>8 DEF take, taken
  <2>3. /\ q.block = right
        /\ right \in Nat \ B /\ b < right
        /\ Shape(q.m, C, B2, Held, F \cup {right})
        /\ Frame(m, q.m)
        /\ Get(q.m, right, SIZE) = n
        /\ \A x \in B : Get(q.m, x, SIZE) = IF x = b THEN Get(m, b, SIZE) - n ELSE Get(m, x, SIZE)
    <3>1. /\ q = [m |-> q.m, block |-> EndOf(m, b) - n]
          /\ EndOf(m, b) - n \in Nat \ B /\ b < EndOf(m, b) - n
          /\ Shape(q.m, C, B \cup {EndOf(m, b) - n}, Held, F \cup {EndOf(m, b) - n})
          /\ Frame(m, q.m) /\ Get(q.m, EndOf(m, b) - n, SIZE) = n
          /\ \A x \in B : Get(q.m, x, SIZE) = IF x = b THEN Get(m, b, SIZE) - n ELSE Get(m, x, SIZE)
      <4>1. Shape(m, C, B, Held, F) /\ b \in F /\ Get(m, b, SIZE) >= n + 32
        BY <1>1, <2>1
      <4>2. n \in Nat /\ n % 8 = 0 /\ n >= 32 /\ q \in split_block(m, b, n)
        OBVIOUS
      <4>3. Splits(m, C, B, Held, F, b, n, q)
        BY <4>1, <4>2, SplitShape
      <4>4. QED
        BY <4>3 DEF Splits
    <3>. HIDE DEF right
    <3>2. q.block = EndOf(m, b) - n
      BY <3>1
    <3>3. QED
      BY <3>1, <3>2 DEF right
  <2>4. r.block = right /\ r.m = mallocing_up(q.m, right) /\ r.before = place(q.m, right)
    BY <2>2, <2>3
  <2>. HIDE DEF right
  <2>5. PICK d \in C : BlockOf(q.m, B2, d, right)
    BY <2>3, Home
  <2>6. /\ d + 48 <= right /\ right < Limit(q.m, d) /\ right > 0
    BY <2>3, <2>5, BlockPlace DEF Shape
  <2>7. \A x : Limit(q.m, x) = Limit(m, x)
    BY <2>3 DEF Frame, Limit
  <2>8. d \in Nat
    BY <1>1, ChunkPlace DEF Shape
  <2>9. right \in Nat \ {NULL} /\ d <= right /\ right < Limit(m, d) /\ right \notin Held
    BY <1>1, <2>3, <2>6, <2>7, <2>8 DEF NULL
  <2>10. After(Within(m, d, Held), right, r.before) /\ (r.before = NULL => Within(m, d, Held) = {})
    BY <1>1, <2>4, <2>9, PlaceAccepted
  <2>11. Within(q.m, d, Held) = Within(m, d, Held)
    BY <2>7 DEF Within
  <2>12. Shape(r.m, C, B2, Held \cup {right}, (F \cup {right}) \ {right}) /\ LinksOnly(q.m, r.m, C, B2)
    <3>1. right \in F \cup {right}
      OBVIOUS
    <3>2. After(Within(q.m, d, Held), right, place(q.m, right))
          /\ (place(q.m, right) = NULL => Within(q.m, d, Held) = {})
      BY <2>4, <2>10, <2>11
    <3>3. Shape(q.m, C, B2, Held, F \cup {right}) /\ BlockOf(q.m, B2, d, right)
      BY <2>3, <2>5
    <3>. DEFINE F2 == F \cup {right}
    <3>. HIDE DEF B2, F2
    <3>4. Shape(mallocing_up(q.m, right), C, B2, Held \cup {right}, F2 \ {right})
          /\ LinksOnly(q.m, mallocing_up(q.m, right), C, B2)
      BY <3>1, <3>2, <3>3, TakenShape DEF F2
    <3>5. QED
      BY <2>4, <3>4 DEF F2
  <2>13. B2 \ (Held \cup {right}) = F /\ (F \cup {right}) \ {right} = F
    BY <2>3 DEF F
  <2>14. \A x \in B2 : Get(r.m, x, SIZE) = Get(q.m, x, SIZE)
    BY <2>12 DEF LinksOnly
  <2>15. \A x \in F : EndOf(r.m, x) = IF x = b THEN right ELSE EndOf(m, x)
    <3>1. b + (Get(m, b, SIZE) - n) = right
      BY <1>3 DEF right
    <3>2. \A x \in F : x \in B /\ x \in B2
      BY <1>1
    <3>. HIDE DEF B2
    <3>3. \A x \in F : Get(r.m, x, SIZE) = IF x = b THEN Get(m, b, SIZE) - n ELSE Get(m, x, SIZE)
      BY <2>3, <2>14, <3>2
    <3>4. QED
      BY <3>1, <3>3 DEF EndOf
  <2>16. Coalesced(r.m, F)
    <3>1. right \notin F
      BY <1>1, <2>3
    <3>2. \A x \in F : EndOf(m, x) \notin F
      BY <1>1 DEF Coalesced
    <3>3. QED
      BY <2>15, <3>1, <3>2 DEF Coalesced
  <2>17. Kept(r.m, C, B2, Held \cup {r.block})
    BY <2>4, <2>12, <2>13, <2>16 DEF Kept
  <2>18. r.m.fault = m.fault
    BY <2>3, <2>12 DEF LinksOnly, Frame
  <2>19. \A x \in Held : Get(r.m, x, SIZE) = Get(m, x, SIZE)
    BY <1>1, <2>3, <2>14
  <2>20. Get(r.m, r.block, SIZE) >= n
    BY <2>3, <2>4, <2>14
  <2>21. B \subseteq B2 /\ r.block \in B2 \ Held
    BY <2>4, <2>9
  <2>. HIDE DEF B2
  <2>22. QED
    BY <2>17, <2>18, <2>19, <2>20, <2>21 DEF Taken
<1>9. QED
  BY <1>7, <1>8

-----------------------------------------------------------------------------
(* Giving a block back *)

\* The next block is merged if it is free; if not apart, it is where b ends.
LEMMA JoinableNext ==
  ASSUME NEW h, NEW C, NEW B, NEW A, NEW F, Shape(h, C, B, A, F), NEW b \in B,
         joinable(h, get_next_block(h, b)) => get_next_block(h, b) = EndOf(h, b)
  PROVE  /\ joinable(h, get_next_block(h, b)) <=> EndOf(h, b) \in F
         /\ EndOf(h, b) \in F => get_next_block(h, b) = EndOf(h, b)
<1>. DEFINE e == EndOf(h, b)
            next == get_next_block(h, b)
<1>1. PICK c \in C : BlockOf(h, B, c, b)
  BY Home
<1>2. /\ b \in Nat /\ e \in Nat /\ c + 48 <= b /\ b + 32 <= e /\ e <= Limit(h, c)
  BY <1>1, BlockPlace DEF Shape
<1>3. c \in Nat /\ c > 0 /\ Limit(h, c) \in Nat
  BY ChunkPlace DEF Shape
<1>4. /\ e < Limit(h, c) => next = e
      /\ e = Limit(h, c) => next # e
  BY <1>1, NextBlock
<1>. HIDE DEF next, e
<1>5. CASE e = Limit(h, c)
  <2>1. ~joinable(h, next)
    BY <1>4, <1>5 DEF next, e
  <2>2. e \notin F
    <3>1. SUFFICES ASSUME e \in F PROVE FALSE
      OBVIOUS
    <3>2. e \in B
      BY <3>1 DEF Shape
    <3>3. BlockOf(h, B, c, e)
      BY <1>1, <3>2, SameChunk DEF e
    <3>4. e < Limit(h, c)
      BY <3>2, <3>3, BlockPlace DEF Shape
    <3>5. QED
      BY <1>3, <1>5, <3>4
  <2>3. QED
    BY <2>1, <2>2 DEF next, e
<1>6. CASE e < Limit(h, c)
  <2>1. next = e /\ e \in Nat \ {NULL} /\ c <= e
    BY <1>2, <1>3, <1>4, <1>6 DEF NULL
  <2>2. is_free(h, e) <=> e \in F
    BY <1>6, <2>1, FreeKnown
  <2>3. e \in F => ~is_fencepost(h, e)
    BY NoFencepost DEF Shape
  <2>4. QED
    BY <2>1, <2>2, <2>3 DEF joinable, next, e
<1>7. QED
  BY <1>2, <1>3, <1>5, <1>6

\* A block of a free list, and the one before it there.
LEMMA PrevFree ==
  ASSUME NEW h, NEW C, NEW B, NEW A, NEW F, Shape(h, C, B, A, F), NEW b \in F
  PROVE  LET p == Get(h, b, PREV)
         IN  /\ p = NULL => \A x \in F : EndOf(h, x) # b
             /\ p # NULL => p \in F /\ p \in Nat /\ b \in Nat /\ p < b /\ joinable(h, p)
<1>. DEFINE p == Get(h, b, PREV)
<1>1. b \in B /\ F \subseteq B
  BY DEF Shape
<1>2. PICK c \in C : BlockOf(h, B, c, b) /\ b \in Within(h, c, F)
  BY <1>1, Home
<1>. DEFINE S == Within(h, c, F)
<1>3. S \subseteq Nat \ {NULL} /\ S \subseteq F
  BY <1>1, BlockNumbers
<1>4. Linked(h, S)
  BY DEF Shape, Listed, ChunkLists
<1>5. p \in (S \ {b}) \cup {NULL} /\ Before(S, b, p)
  BY <1>2, <1>3, <1>4, Neighbours
<1>6. c \in Nat /\ c > 0 /\ Limit(h, c) \in Nat
  BY ChunkPlace DEF Shape
<1>7. p = NULL => \A x \in F : EndOf(h, x) # b
  <2>1. SUFFICES ASSUME p = NULL, NEW x \in F, EndOf(h, x) = b PROVE FALSE
    OBVIOUS
  <2>2. PICK d \in C : BlockOf(h, B, d, x)
    BY <1>1, Home
  <2>3. x < b /\ BlockOf(h, B, d, b) /\ b \in Within(h, d, B) /\ x \in Within(h, d, B)
    BY <1>1, <2>1, <2>2, SameChunk
  <2>4. b \in Within(h, c, B)
    BY <1>1, <1>2 DEF Within
  <2>5. d = c
    BY <2>3, <2>4, OneChunk
  <2>6. x \in S
    BY <2>1, <2>3, <2>5 DEF Within
  <2>7. b \in Nat /\ x \in Nat
    BY <1>2, <1>3, <2>6
  <2>8. b <= x
    BY <1>3, <1>5, <2>1, <2>6 DEF Before
  <2>9. QED
    BY <2>3, <2>7, <2>8
<1>8. ASSUME p # NULL PROVE p \in F /\ p \in Nat /\ b \in Nat /\ p < b /\ joinable(h, p)
  <2>1. p \in S /\ p < b
    BY <1>5, <1>8 DEF Before
  <2>2. p \in F /\ p \in Nat \ {NULL} /\ b \in Nat
    BY <1>2, <1>3, <2>1
  <2>3. c <= p /\ p < Limit(h, c)
    BY <2>1 DEF Within
  <2>. HIDE DEF p
  <2>4. is_free(h, p)
    BY <2>2, <2>3, FreeKnown
  <2>5. ~is_fencepost(h, p)
    BY <1>1, <2>2, NoFencepost
  <2>6. QED
    BY <1>8, <2>1, <2>2, <2>4, <2>5 DEF joinable
<1>9. QED
  BY <1>7, <1>8

\* The block after a free block in its list is above it.
LEMMA NextAbove ==
  ASSUME NEW h, NEW C, NEW B, NEW A, NEW F, Shape(h, C, B, A, F), NEW b \in F
  PROVE  Get(h, b, NEXT) = NULL \/ b < Get(h, b, NEXT)
<1>1. b \in B /\ F \subseteq B
  BY DEF Shape
<1>2. PICK c \in C : b \in Within(h, c, F)
  BY <1>1, Home
<1>3. Linked(h, Within(h, c, F))
  BY DEF Shape, Listed, ChunkLists
<1>4. QED
  BY <1>2, <1>3 DEF Linked, After

\* g is the memory after b left the blocks the client holds.
Freed(g, C, b) ==
  \E B2 : /\ Held \ {b} \subseteq B2 /\ Kept(g, C, B2, Held \ {b})
         /\ g.fault = m.fault
         /\ \A x \in Held \ {b} : Get(g, x, SIZE) = Get(m, x, SIZE)

\* my_free keeps the memory sound when it merges neighbours only.
LEMMA FreeKept ==
  ASSUME NEW C, NEW B, Kept(m, C, B, Held), NEW b \in Held, ~JoinsApart(b)
  PROVE  ~is_free(m, b) /\ Freed(my_free(m, b), C, b)
<1>. DEFINE F == B \ Held
            A == Held \ {b}
            g == put_back(m, b)
            F2 == F \cup {b}
            e == EndOf(m, b)
            g1 == join_next(g, b)
            B1 == B \ (IF e \in F2 THEN {e} ELSE {})
            F1 == F2 \ (IF e \in F2 THEN {e} ELSE {})
            p  == Get(g, b, PREV)
            g2 == join_prev(g1, b)
<1>1. Shape(m, C, B, Held, F) /\ Coalesced(m, F) /\ Held \subseteq B /\ b \in B /\ HeapType(m) /\ Mapping(m)
      /\ b \notin F /\ F2 \subseteq B /\ A \cap F2 = {}
  BY DEF Kept, Shape
<1>2. PICK c \in C : BlockOf(m, B, c, b)
  BY <1>1, Home
<1>3. /\ b \in Nat /\ b > 0 /\ c + 48 <= b /\ b < Limit(m, c) /\ c \in Nat /\ c > 0
      /\ e \in Nat /\ b < e /\ Get(m, b, SIZE) \in Nat
  <2>1. c \in Nat /\ c > 0
    BY <1>1, ChunkPlace DEF Shape
  <2>2. b \in Nat /\ b > 0 /\ c + 48 <= b /\ b < Limit(m, c) /\ e \in Nat /\ b + 32 <= e /\ Get(m, b, SIZE) \in Nat
    BY <1>1, <1>2, BlockPlace DEF Shape
  <2>3. QED
    BY <2>1, <2>2
<1>4. chunk_from_block(m, b) = c /\ c # NULL
  BY <1>1, <1>2, <1>3, ChunkOfBlock DEF NULL
<1>5. ~is_free(m, b) /\ ~is_fencepost(m, b)
  <2>1. is_free(m, b) <=> b \in F
    BY <1>1, <1>3, FreeKnown DEF NULL
  <2>2. QED
    BY <1>1, <2>1, NoFencepost
<1>6. my_free(m, b) = g2
  BY <1>4, <1>5 DEF my_free
<1>7. Shape(g, C, B, A, F2) /\ LinksOnly(m, g, C, B)
  <2>. DEFINE w == freeing_up(m, b)
  <2>1. Shape(w, C, B, A, F) /\ LinksOnly(m, w, C, B)
    BY <1>1, <1>2, FreeingUpShape
  <2>. HIDE DEF w
  <2>2. BlockOf(w, B, c, b)
    <3>1. \A x \in B : EndOf(w, x) = EndOf(m, x)
      BY <2>1 DEF LinksOnly, EndOf
    <3>2. Limit(w, c) = Limit(m, c)
      BY <2>1 DEF LinksOnly, Frame, Limit
    <3>3. QED
      BY <1>1, <1>2, <3>1, <3>2 DEF BlockOf
  <2>3. Shape(insert_free(w, c, b), C, B, A, F2) /\ LinksOnly(w, insert_free(w, c, b), C, B)
    <3>1. b \in B \ (A \cup F)
      BY <1>1
    <3>2. QED
      BY <2>1, <2>2, <3>1, InsertFreeShape
  <2>4. g = insert_free(w, c, b)
    BY <1>4 DEF put_back, w
  <2>5. QED
    BY <2>1, <2>3, <2>4 DEF LinksOnly, Frame
<1>8. /\ joinable(g, get_next_block(g, b)) => get_next_block(g, b) = b + Get(m, b, SIZE)
      /\ p # NULL => p + Get(m, p, SIZE) = b
  BY DEF JoinsApart
<1>. HIDE DEF g
<1>9. \A x \in B : Get(g, x, SIZE) = Get(m, x, SIZE) /\ EndOf(g, x) = EndOf(m, x)
  BY <1>7 DEF LinksOnly, EndOf
<1>10. e = EndOf(g, b) /\ e = b + Get(m, b, SIZE)
  BY <1>1, <1>9 DEF EndOf
<1>. HIDE DEF e, F, F2, A
<1>11. /\ joinable(g, get_next_block(g, b)) <=> e \in F2
       /\ e \in F2 => get_next_block(g, b) = e
  <2>1. Shape(g, C, B, A, F2) /\ b \in B /\ (joinable(g, get_next_block(g, b)) => get_next_block(g, b) = EndOf(g, b))
    BY <1>1, <1>7, <1>8, <1>10
  <2>2. /\ joinable(g, get_next_block(g, b)) <=> EndOf(g, b) \in F2
        /\ EndOf(g, b) \in F2 => get_next_block(g, b) = EndOf(g, b)
    BY <2>1, JoinableNext
  <2>3. QED
    BY <1>10, <2>2
<1>12. b \in F2 /\ e # b
  BY <1>3 DEF F2, e
<1>13. /\ Shape(g1, C, B1, A, F1) /\ g1.fault = m.fault
       /\ \A x \in B1 \ {b} : Get(g1, x, SIZE) = Get(m, x, SIZE)
       /\ Get(g1, b, PREV) = p
       /\ EndOf(g1, b) \notin F1
  <2>1. CASE e \in F2
    <3>1. g1 = join(g, b, e)
      BY <1>11, <2>1 DEF join_next
    <3>2. /\ Shape(g1, C, B \ {e}, A, F2 \ {e})
          /\ \A x \in B \ {e} :
               Get(g1, x, SIZE) = IF x = b THEN Get(g, b, SIZE) + Get(g, e, SIZE) ELSE Get(g, x, SIZE)
          /\ \A x \in B \ {e} : Get(g1, x, PREV) = IF x = Get(g, e, NEXT) THEN b ELSE Get(g, x, PREV)
          /\ Frame(g, g1)
      <4>1. Shape(g, C, B, A, F2) /\ b \in F2 /\ EndOf(g, b) = e
        BY <1>7, <1>10, <1>12
      <4>. HIDE DEF A
      <4>2. QED
        BY <2>1, <3>1, <4>1, JoinShape
    <3>3. Get(g, e, NEXT) # b
      <4>1. Get(g, e, NEXT) = NULL \/ e < Get(g, e, NEXT)
        BY <1>7, <2>1, NextAbove
      <4>2. QED
        BY <1>3, <4>1 DEF NULL
    <3>4. B1 = B \ {e} /\ F1 = F2 \ {e} /\ b \in B \ {e}
      BY <1>1, <1>12, <2>1
    <3>5. EndOf(g1, b) = EndOf(m, e)
      <4>1. Get(g1, b, SIZE) = Get(m, b, SIZE) + Get(m, e, SIZE)
        BY <1>1, <1>9, <2>1, <3>2, <3>4
      <4>2. Get(m, b, SIZE) \in Int /\ Get(m, e, SIZE) \in Int
        BY <1>1, GetNat
      <4>3. QED
        BY <1>3, <1>10, <4>1, <4>2 DEF EndOf
    <3>6. EndOf(m, e) \notin F2
      <4>1. e \in F
        BY <1>12, <2>1 DEF F2
      <4>2. EndOf(m, e) \notin F
        BY <1>1, <4>1 DEF Coalesced
      <4>3. EndOf(m, e) # b
        <5>1. e \in B
          BY <4>1 DEF F
        <5>2. PICK d \in C : BlockOf(m, B, d, e)
          BY <1>1, <5>1, Home
        <5>3. e + 32 <= EndOf(m, e) /\ EndOf(m, e) \in Nat
          BY <1>1, <5>1, <5>2, BlockPlace DEF Shape
        <5>4. QED
          BY <1>3, <5>3
      <4>4. QED
        BY <4>2, <4>3 DEF F2
    <3>7. g1.fault = m.fault
      BY <1>7, <3>2 DEF LinksOnly, Frame
    <3>8. QED
      BY <1>9, <3>2, <3>3, <3>4, <3>5, <3>6, <3>7
  <2>2. CASE e \notin F2
    <3>1. g1 = g /\ B1 = B /\ F1 = F2
      BY <1>11, <2>2 DEF join_next
    <3>2. g1.fault = m.fault
      BY <1>7, <3>1 DEF LinksOnly, Frame
    <3>3. QED
      BY <1>7, <1>9, <1>10, <2>2, <3>1, <3>2
  <2>3. QED
    BY <2>1, <2>2
<1>14. b \in F1 /\ F1 = B1 \ A /\ A \subseteq B1 /\ F1 \ {b} \subseteq F
  <2>1. F2 = B \ A /\ A \subseteq B /\ F1 \ {b} \subseteq F2 \ {b} /\ F2 \ {b} \subseteq F
    BY <1>1 DEF A, F, F2
  <2>2. A \cap F2 = {}
    BY <1>1
  <2>. HIDE DEF A, F
  <2>3. QED
    BY <1>12, <2>1, <2>2
<1>15. \A x \in F1 \ {b} : EndOf(g1, x) = EndOf(m, x) /\ EndOf(m, x) \notin F
  BY <1>1, <1>13, <1>14 DEF EndOf, Coalesced
<1>. HIDE DEF g1, B1, F1, F, A
<1>16. CASE p = NULL
  <2>1. g2 = g1
    BY <1>13, <1>16 DEF join_prev, joinable
  <2>2. \A x \in F1 : EndOf(g1, x) # b
    BY <1>13, <1>14, <1>16, PrevFree
  <2>3. Coalesced(g1, F1)
    BY <1>13, <1>14, <1>15, <2>2 DEF Coalesced
  <2>4. Kept(g1, C, B1, A)
    BY <1>13, <1>14, <2>3 DEF Kept
  <2>5. \A x \in A : Get(g1, x, SIZE) = Get(m, x, SIZE)
    BY <1>13, <1>14 DEF A
  <2>6. QED
    <3>1. my_free(m, b) = g1 /\ g1.fault = m.fault /\ A \subseteq B1
      BY <1>6, <1>13, <1>14, <2>1
    <3>. HIDE DEF g2
    <3>2. Freed(my_free(m, b), C, b)
      BY <2>4, <2>5, <3>1 DEF A, Freed
    <3>3. QED
      BY <1>5, <3>2
<1>17. CASE p # NULL
  <2>1. p \in F1 /\ p < b /\ joinable(g1, p) /\ p \in Nat
    BY <1>13, <1>14, <1>17, PrevFree
  <2>2. p \in F1 \ {b} /\ p \in B1 /\ p \in B
    BY <1>3, <1>14, <2>1 DEF B1
  <2>3. EndOf(g1, p) = b
    <3>1. Get(g1, p, SIZE) = Get(m, p, SIZE)
      BY <1>13, <2>2
    <3>2. QED
      BY <1>8, <1>17, <3>1 DEF EndOf
  <2>4. g2 = join(g1, p, b)
    BY <1>13, <2>1 DEF join_prev
  <2>. HIDE DEF g2, p
  <2>5. /\ Shape(g2, C, B1 \ {b}, A, F1 \ {b})
        /\ \A x \in B1 \ {b} :
             Get(g2, x, SIZE) = IF x = p THEN Get(g1, p, SIZE) + Get(g1, b, SIZE) ELSE Get(g1, x, SIZE)
        /\ Frame(g1, g2)
    BY <1>13, <1>14, <2>1, <2>3, <2>4, JoinShape
  <2>6. EndOf(g2, p) = EndOf(g1, b)
    <3>1. Get(g2, p, SIZE) = Get(g1, p, SIZE) + Get(g1, b, SIZE)
      BY <2>2, <2>5
    <3>2. Get(g1, p, SIZE) \in Int /\ Get(g1, b, SIZE) \in Int
      BY <1>13, GetNat DEF Shape
    <3>3. QED
      BY <2>1, <2>3, <3>1, <3>2 DEF EndOf
  <2>7. Coalesced(g2, F1 \ {b})
    <3>1. ASSUME NEW x \in F1 \ {b} PROVE EndOf(g2, x) \notin F1 \ {b}
      <4>1. CASE x = p
        BY <1>13, <2>6, <4>1
      <4>2. CASE x # p
        <5>1. x \in B1 \ {b}
          BY <1>14, <3>1
        <5>2. EndOf(g2, x) = EndOf(m, x)
          BY <1>15, <2>5, <3>1, <4>2, <5>1 DEF EndOf
        <5>3. QED
          BY <1>14, <1>15, <3>1, <5>2
      <4>3. QED
        BY <4>1, <4>2
    <3>2. QED
      BY <3>1 DEF Coalesced
  <2>8. F1 \ {b} = (B1 \ {b}) \ A /\ A \subseteq B1 \ {b}
    BY <1>14 DEF A
  <2>9. Kept(g2, C, B1 \ {b}, A)
    BY <2>5, <2>7, <2>8 DEF Kept
  <2>10. \A x \in A : Get(g2, x, SIZE) = Get(m, x, SIZE)
    <3>1. p \notin A
      BY <1>14, <2>2
    <3>2. QED
      BY <1>13, <2>5, <2>8, <3>1
  <2>11. g2.fault = m.fault
    BY <1>13, <2>5 DEF Frame
  <2>12. QED
    <3>1. my_free(m, b) = g2
      BY <1>6 DEF g2
    <3>. DEFINE B2 == B1 \ {b}
    <3>2. Kept(g2, C, B2, A) /\ A \subseteq B2
      BY <2>8, <2>9
    <3>. HIDE DEF B2
    <3>3. Freed(my_free(m, b), C, b)
      BY <2>10, <2>11, <3>1, <3>2 DEF A, Freed
    <3>4. QED
      BY <1>5, <3>3
<1>18. QED
  BY <1>16, <1>17

-----------------------------------------------------------------------------
(* The invariant *)

RawTyped ==
  /\ Typed(m)
  /\ live \in [DOMAIN live -> Nat] /\ DOMAIN live \subseteq Nat /\ Held \subseteq Words
  /\ pc \in {"client", "search", "ask"}
  /\ request \in 0 .. kMaxAllocationSize /\ (pc # "client" => request > 0)
  /\ mishap \in {"none", "small", "misplaced", "apart", "below"}

\* The blocks the client holds have room for what it asked for.
Served == \A p \in DOMAIN live : Get(m, ptr_to_block(p), SIZE) >= total_size(live[p])

\* Short of the mishaps the memory is sound, and what the client holds is what
\* is allocated.
RawInv ==
  /\ RawTyped
  /\ mishap = "none" => m.fault = "none" /\ Served /\ \E C, B : Kept(m, C, B, Held)

\* What a request comes to.
LEMMA TotalSize ==
  ASSUME NEW n \in 1 .. kMaxAllocationSize
  PROVE  /\ total_size(n) \in Nat /\ total_size(n) % 8 = 0 /\ total_size(n) >= 32
         /\ total_size(n) \in Words
         /\ units(total_size(n)) \in Nat \ {0}
<1>. DEFINE t == total_size(n)
            W == HalfWord * HalfWord
<1>1. kMaxAllocationSize \in Nat /\ n \in Nat /\ n >= 1 /\ n <= kMaxAllocationSize
  BY RawMemoryAssumption
<1>2. t = round_up(n + 24, kAlignment)
  BY DEF total_size, kMetadataSize
<1>3. t \in Nat /\ t % 8 = 0 /\ n + 24 <= t /\ t < n + 24 + 8
  BY <1>1, <1>2, RoundUp
<1>4. W \in Nat /\ kMaxAllocationSize + 24 + 8 < W
  BY WordAssumption DEF kMetadataSize, kAlignment
<1>. HIDE DEF t, W
<1>5. t \in 0 .. W - 1
  BY <1>1, <1>3, <1>4
<1>6. t >= 32
  BY <1>1, <1>3
<1>7. units(t) \in Nat \ {0}
  <2>. DEFINE x == t + SizeofChunk + kMemorySize - 1
  <2>1. kMemorySize \in Nat /\ kMemorySize > 0 /\ x \in Nat /\ x >= kMemorySize
    BY <1>3, RawMemoryAssumption DEF SizeofChunk, kMetadataSize, kMinAllocationSize, kAlignment
  <2>2. units(t) = x \div kMemorySize
    BY DEF units
  <2>. HIDE DEF x
  <2>3. x \div kMemorySize \in Nat /\ x < kMemorySize * (x \div kMemorySize) + kMemorySize
    BY <2>1
  <2>4. x \div kMemorySize # 0
    BY <2>1, <2>3
  <2>5. QED
    BY <2>2, <2>3, <2>4
<1>8. QED
  BY <1>3, <1>5, <1>6, <1>7 DEF t, W, Words

\* What my_malloc does with a block keeps the types.
LEMMA TakeAllTyped ==
  ASSUME NEW h, Typed(h), NEW b \in Words, NEW n \in Words, NEW r \in take(h, b, n)
  PROVE  Typed(r.m) /\ r.block \in Words
<1>1. CASE r \in {taken(h, b)}
  BY <1>1, TakeTyped DEF taken
<1>2. CASE r \in {taken(q.m, q.block) : q \in split_block(h, b, n)}
  <2>1. PICK q \in split_block(h, b, n) : r = taken(q.m, q.block)
    BY <1>2
  <2>2. Typed(q.m) /\ q.block \in Words
    BY SplitTyped
  <2>3. QED
    BY <2>1, <2>2, TakeTyped DEF taken
<1>3. QED
  BY <1>1, <1>2 DEF take

\* Setting first_map keeps the types.
LEMMA FirstTyped ==
  ASSUME NEW h, Typed(h), NEW p \in Words, NEW g, g = [h EXCEPT !.first_map = p]
  PROVE  Typed(g)
<1>1. /\ g.first_map = p /\ g.mem = h.mem /\ g.maps = h.maps /\ g.fault = h.fault
      /\ g = [first_map |-> g.first_map, mem |-> g.mem, maps |-> g.maps, fault |-> g.fault]
  BY DEF Typed, HeapType
<1>2. QED
  BY <1>1 DEF Typed, HeapType, Mapping, Limit

\* Without chunks there are no blocks.
LEMMA NoChunks ==
  ASSUME NEW h, NEW C, NEW B, NEW A, NEW F, Shape(h, C, B, A, F)
  PROVE  (h.first_map = NULL <=> C = {}) /\ (C = {} => B = {} /\ A = {} /\ F = {})
<1>1. h.first_map = NULL <=> C = {}
  BY ShapeChunked, LastChunk
<1>2. C = {} => B = {}
  BY Home
<1>3. QED
  BY <1>1, <1>2 DEF Shape

\* g is sound and the allocated blocks are as in h.
Same(h, g, A) ==
  /\ \E C, B : Kept(g, C, B, A)
  /\ g.fault = h.fault
  /\ \A x \in A : Get(g, x, SIZE) = Get(h, x, SIZE)

\* A chunk from the OS that is put above all others keeps the memory sound.
LEMMA FreshKept ==
  ASSUME NEW h, NEW C, NEW B, NEW A, Kept(h, C, B, A),
         NEW multiple \in Nat \ {0}, NEW r \in get_chunk_from_OS(h, multiple), r.chunk # NULL,
         \A d \in C : d < r.chunk,
         NEW g, g = [r.m EXCEPT !.first_map = IF C = {} THEN r.chunk ELSE @]
  PROVE  Same(h, g, A)
<1>. DEFINE c  == r.chunk
            b  == c + 48
            F  == B \ A
            C2 == C \cup {c}
            B2 == B \cup {b}
<1>1. Shape(h, C, B, A, F) /\ Coalesced(h, F) /\ A \subseteq B
  BY DEF Kept, Shape
<1>2. /\ Shape(g, C2, B2, A, F \cup {b})
      /\ b \notin B /\ g.fault = h.fault
      /\ \A x \in B : Get(g, x, SIZE) = Get(h, x, SIZE) /\ EndOf(g, x) < b
      /\ EndOf(g, b) = Limit(g, c)
  <2>. HIDE DEF F
  <2>1. Grown(h, g, C, B, A, F, r.chunk)
    BY <1>1, FreshShape
  <2>2. QED
    BY <2>1 DEF Grown
<1>. HIDE DEF c, b
<1>3. F \cup {b} = B2 \ A
  BY <1>1, <1>2
<1>4. PICK d \in C2 : BlockOf(g, B2, d, b)
  BY <1>2, Home
<1>a. HeapType(g) /\ Mapping(g) /\ C2 \subseteq DOMAIN g.maps /\ Tiled(g, C2, B2)
  BY <1>2 DEF Shape
<1>b. \A x \in B2, k \in C2 : BlockOf(g, B2, k, x) =>
         x \in Nat /\ EndOf(g, x) \in Nat /\ x + 32 <= EndOf(g, x)
  <2>. HIDE DEF B2, C2
  <2>1. QED
    BY <1>a, BlockPlace
<1>5. b \in Nat /\ EndOf(g, b) \in Nat /\ b + 32 <= EndOf(g, b)
  BY <1>4, <1>b
<1>6. ASSUME NEW x \in F PROVE EndOf(g, x) \notin F \cup {b}
  <2>1. EndOf(g, x) = EndOf(h, x)
    BY <1>2, <1>6 DEF EndOf
  <2>2. EndOf(g, x) \notin F
    BY <1>1, <1>6, <2>1 DEF Coalesced
  <2>3. EndOf(g, x) # b
    BY <1>2, <1>5, <1>6
  <2>4. QED
    BY <2>2, <2>3
<1>7. EndOf(g, b) \notin F \cup {b}
  <2>1. ASSUME NEW x \in F PROVE EndOf(g, b) # x
    <3>1. x \in B2
      BY <2>1
    <3>2. PICK k \in C2 : BlockOf(g, B2, k, x)
      BY <1>2, <3>1, Home
    <3>3. x \in Nat /\ x + 32 <= EndOf(g, x) /\ EndOf(g, x) \in Nat
      BY <3>1, <3>2, <1>b
    <3>4. EndOf(g, x) < b
      BY <1>2, <2>1
    <3>5. QED
      BY <1>5, <3>3, <3>4
  <2>2. EndOf(g, b) # b
    BY <1>5
  <2>3. QED
    BY <2>1, <2>2
<1>8. Coalesced(g, F \cup {b})
  BY <1>6, <1>7 DEF Coalesced
<1>9. Kept(g, C2, B2, A)
  BY <1>2, <1>3, <1>8 DEF Kept
<1>10. \A x \in A : Get(g, x, SIZE) = Get(h, x, SIZE)
  BY <1>1, <1>2
<1>. HIDE DEF C2, B2
<1>11. QED
  BY <1>2, <1>9, <1>10 DEF Same

LEMMA RawInitInv == Init => RawInv
<1>. SUFFICES ASSUME Init PROVE RawInv
  OBVIOUS
<1>1. m = InitRaw /\ live = [p \in {} |-> 0] /\ pc = "client" /\ request = 0 /\ mishap = "none"
  BY DEF Init
<1>2. m = [first_map |-> 0, mem |-> [a \in {} |-> 0], maps |-> [a \in {} |-> 0], fault |-> "none"]
  BY <1>1 DEF InitRaw, NULL
<1>3. m.first_map = 0 /\ m.mem = [a \in {} |-> 0] /\ m.maps = [a \in {} |-> 0] /\ m.fault = "none"
      /\ DOMAIN m.mem = {} /\ DOMAIN m.maps = {}
  BY <1>2
<1>4. HeapType(m)
  <2>1. m.mem \in [DOMAIN m.mem -> Words] /\ m.maps \in [DOMAIN m.maps -> Nat]
    BY <1>3
  <2>2. m = [first_map |-> m.first_map, mem |-> m.mem, maps |-> m.maps, fault |-> m.fault]
    BY <1>2
  <2>3. QED
    BY <1>3, <2>1, <2>2, WordFacts DEF HeapType
<1>5. Mapping(m)
  BY <1>3, FS_EmptySet DEF Mapping
<1>6. DOMAIN live = {} /\ Held = {} /\ live \in [DOMAIN live -> Nat]
  BY <1>1 DEF Held
<1>7. RawTyped
  BY <1>1, <1>4, <1>5, <1>6, RawMemoryAssumption DEF RawTyped, Typed
<1>8. Kept(m, {}, {}, Held)
  <2>1. Tiled(m, {}, {})
    BY DEF Tiled
  <2>2. Listed(m, {}, {}, {})
    BY <1>3 DEF Listed, After, Linked, NULL
  <2>3. Shape(m, {}, {}, {}, {})
    BY <1>4, <1>5, <2>1, <2>2 DEF Shape
  <2>4. QED
    BY <1>6, <2>3 DEF Kept, Coalesced
<1>9. QED
  BY <1>1, <1>3, <1>6, <1>7, <1>8 DEF RawInv, Served

\* A step that leaves the memory and what the client holds alone.
LEMMA IdleInv ==
  ASSUME RawInv, UNCHANGED <<m, live, mishap>>,
         pc' \in {"client", "search", "ask"}, request' \in 0 .. kMaxAllocationSize,
         pc' # "client" => request' > 0
  PROVE  RawInv'
<1>1. Held' = Held
  BY DEF Held
<1>2. RawTyped'
  BY <1>1 DEF RawInv, RawTyped
<1>3. Served <=> Served'
  BY DEF Served, total_size, ptr_to_block
<1>4. QED
  BY <1>1, <1>2, <1>3 DEF RawInv

LEMMA MallocInv ==
  ASSUME RawInv, NEW n \in Requests, my_malloc(n)
  PROVE  RawInv'
<1>1. n \in Nat /\ pc = "client"
  BY RawRequestsAssumption DEF my_malloc
<1>2. CASE UNCHANGED vars
  <2>1. UNCHANGED <<m, live, mishap, pc, request>>
    BY <1>2 DEF vars
  <2>2. QED
    BY <2>1, IdleInv DEF RawInv, RawTyped
<1>3. CASE n > 0 /\ n <= kMaxAllocationSize /\ pc' = "search" /\ request' = n /\ m' = m /\ UNCHANGED <<live, mishap>>
  BY <1>1, <1>3, IdleInv, RawMemoryAssumption
<1>4. ASSUME n > 0, n <= kMaxAllocationSize, pc' = "search", request' = n, m.first_map = NULL,
             UNCHANGED <<live, mishap>>,
             NEW r \in get_chunk_from_OS(m, units(total_size(n))), m' = [r.m EXCEPT !.first_map = r.chunk]
      PROVE  RawInv'
  <2>1. units(total_size(n)) \in Nat \ {0}
    BY <1>1, <1>4, TotalSize, RawMemoryAssumption
  <2>2. Typed(m) /\ Held' = Held
    BY <1>4 DEF RawInv, RawTyped, Held
  <2>3. Typed(r.m) /\ r.chunk \in Words
    BY <2>1, <2>2, OSTyped
  <2>4. Typed(m')
    BY <1>4, <2>3, FirstTyped
  <2>5. RawTyped'
    BY <1>1, <1>4, <2>2, <2>4, RawMemoryAssumption DEF RawInv, RawTyped
  <2>6. ASSUME mishap = "none" PROVE m'.fault = "none" /\ Served' /\ \E C2, B2 : Kept(m', C2, B2, Held')
    <3>1. PICK C, B : Kept(m, C, B, Held)
      BY <2>6 DEF RawInv
    <3>2. m.fault = "none" /\ Served
      BY <2>6 DEF RawInv
    <3>3. C = {} /\ B = {} /\ Held = {}
      BY <1>4, <3>1, NoChunks DEF Kept
    <3>4. DOMAIN live = {}
      BY <3>3 DEF Held
    <3>5. Served'
      BY <1>4, <3>4 DEF Served
    <3>6. CASE r.chunk = NULL
      <4>1. r.m = m
        <5>1. r.chunk \notin Room(m, units(total_size(n)) * kMemorySize)
          BY <3>6, RawMemoryAssumption DEF Room, NULL
        <5>2. QED
          BY <5>1, OSReturns
      <4>2. m' = m
        BY <1>4, <2>2, <3>6, <4>1 DEF Typed, HeapType
      <4>3. QED
        BY <2>2, <3>1, <3>2, <3>5, <4>2
    <3>7. CASE r.chunk # NULL
      <4>1. m' = [r.m EXCEPT !.first_map = IF C = {} THEN r.chunk ELSE @]
        BY <1>4, <3>3
      <4>2. \A d \in C : d < r.chunk
        BY <3>3
      <4>3. Same(m, m', Held)
        BY <2>1, <3>1, <3>7, <4>1, <4>2, FreshKept
      <4>4. QED
        BY <2>2, <3>2, <3>5, <4>3 DEF Same
    <3>8. QED
      BY <3>6, <3>7
  <2>7. QED
    BY <1>4, <2>5, <2>6 DEF RawInv
<1>5. QED
  BY <1>2, <1>3, <1>4 DEF my_malloc

LEMMA AskInv ==
  ASSUME RawInv, malloc_ask
  PROVE  RawInv'
<1>1. request \in 1 .. kMaxAllocationSize /\ pc = "ask"
  BY DEF RawInv, RawTyped, malloc_ask
<1>2. PICK r \in get_chunk_from_OS(m, units(total_size(request))) :
             /\ m' = r.m
             /\ pc' = IF r.chunk = NULL THEN "client" ELSE "search"
             /\ request' = IF r.chunk = NULL THEN 0 ELSE request
             /\ mishap' = IF r.chunk # NULL /\ \E c \in Elements(Chunks(m)) : c > r.chunk
                          THEN "below" ELSE mishap
  BY DEF malloc_ask
<1>3. live' = live /\ Held' = Held
  BY DEF malloc_ask, Held
<1>4. units(total_size(request)) \in Nat \ {0}
  BY <1>1, TotalSize
<1>5. Typed(m) /\ Typed(m')
  BY <1>2, <1>4, OSTyped DEF RawInv, RawTyped
<1>6. RawTyped'
  BY <1>1, <1>2, <1>3, <1>5, RawMemoryAssumption DEF RawInv, RawTyped
<1>7. ASSUME mishap' = "none" PROVE m'.fault = "none" /\ Served' /\ \E C2, B2 : Kept(m', C2, B2, Held')
  <2>1. mishap = "none"
    BY <1>2, <1>7
  <2>2. PICK C, B : Kept(m, C, B, Held)
    BY <2>1 DEF RawInv
  <2>3. m.fault = "none" /\ Served
    BY <2>1 DEF RawInv
  <2>4. Shape(m, C, B, Held, B \ Held)
    BY <2>2 DEF Kept
  <2>5. CASE r.chunk = NULL
    <3>1. r.m = m
      <4>1. r.chunk \notin Room(m, units(total_size(request)) * kMemorySize)
        BY <2>5, RawMemoryAssumption DEF Room, NULL
      <4>2. QED
        BY <4>1, OSReturns
    <3>2. Served'
      BY <1>2, <1>3, <2>3, <3>1 DEF Served, total_size, ptr_to_block
    <3>3. QED
      BY <1>2, <1>3, <2>2, <2>3, <3>1, <3>2
  <2>6. CASE r.chunk # NULL
    <3>1. /\ HeapType(r.m) /\ Mapping(r.m) /\ r.m.first_map = m.first_map /\ r.m.fault = m.fault
          /\ r.chunk \in Nat /\ r.chunk \notin C
      BY <1>4, <2>4, <2>6, FreshWrites
    <3>2. CASE C = {}
      <4>1. m'.first_map = NULL /\ Held = {} /\ B = {}
        BY <1>2, <2>4, <3>1, <3>2, NoChunks
      <4>2. Tiled(m', {}, {})
        BY DEF Tiled
      <4>3. Listed(m', {}, {}, {})
        BY <4>1 DEF Listed, After, Linked, NULL
      <4>4. Shape(m', {}, {}, {}, {})
        BY <1>2, <3>1, <4>2, <4>3 DEF Shape
      <4>5. Kept(m', {}, {}, Held')
        BY <1>3, <4>1, <4>4 DEF Kept, Coalesced
      <4>6. DOMAIN live = {}
        BY <4>1 DEF Held
      <4>7. Served'
        BY <1>3, <4>6 DEF Served
      <4>8. QED
        BY <1>2, <2>3, <3>1, <4>5, <4>7
    <3>3. CASE C # {}
      <4>1. Elements(Chunks(m)) = C /\ C \subseteq Nat
        BY <2>4, ShapeChunked, ChunksMet DEF Chunked, Mapping
      <4>2. \A d \in C : ~(d > r.chunk)
        BY <1>2, <1>7, <2>6, <4>1
      <4>3. \A d \in C : d < r.chunk
        BY <3>1, <4>1, <4>2
      <4>4. m' = [r.m EXCEPT !.first_map = IF C = {} THEN r.chunk ELSE @]
        BY <1>2, <3>1, <3>3 DEF HeapType
      <4>5. /\ \E C2, B2 : Kept(m', C2, B2, Held)
            /\ m'.fault = m.fault
            /\ \A x \in Held : Get(m', x, SIZE) = Get(m, x, SIZE)
        <5>1. Same(m, m', Held)
          BY <1>4, <2>2, <2>6, <4>3, <4>4, FreshKept
        <5>2. QED
          BY <5>1 DEF Same
      <4>6. Served'
        BY <1>3, <2>3, <4>5 DEF Served, Held, total_size, ptr_to_block
      <4>7. QED
        BY <1>3, <2>3, <4>5, <4>6
    <3>4. QED
      BY <3>2, <3>3
  <2>7. QED
    BY <2>5, <2>6
<1>8. QED
  BY <1>6, <1>7 DEF RawInv

LEMMA SearchInv ==
  ASSUME RawInv, malloc_search
  PROVE  RawInv'
<1>. DEFINE n == total_size(request)
            b == best_fit(m, n)
<1>1. request \in 1 .. kMaxAllocationSize /\ pc = "search"
  BY DEF RawInv, RawTyped, malloc_search
<1>2. n \in Nat /\ n % 8 = 0 /\ n >= 32 /\ n \in Words
  BY <1>1, TotalSize
<1>3. Typed(m)
  BY DEF RawInv, RawTyped
<1>. HIDE DEF n
<1>4. CASE b = NULL /\ pc' = "ask" /\ UNCHANGED <<m, live, request, mishap>>
  BY <1>1, <1>4, IdleInv
<1>5. ASSUME b # NULL, pc' = "client", request' = 0, NEW r \in take(m, b, n), m' = r.m,
             live' = [q \in DOMAIN live \cup {r.block + kMetadataSize} |->
                        IF q = r.block + kMetadataSize THEN request ELSE live[q]],
             mishap' = take_mishap(b, r)
      PROVE  RawInv'
  <2>. DEFINE new == r.block + kMetadataSize
  <2>1. PICK c \in Elements(Chunks(m)) : b \in Elements(FreeChain(m, c))
    BY <1>3, <1>5, FitFound
  <2>2. b \in Words
    BY <1>3, <2>1, ListWords, ElementWord
  <2>. HIDE DEF b
  <2>3. Typed(m') /\ r.block \in Words
    BY <1>2, <1>3, <1>5, <2>2, TakeAllTyped
  <2>4. r.block \in Nat /\ new \in Nat /\ ptr_to_block(new) = r.block
    <3>1. r.block \in Nat
      BY <2>3, WordFacts
    <3>2. new = r.block + 24 /\ ptr_to_block(new) = new - 24
      BY DEF kMetadataSize, ptr_to_block
    <3>3. QED
      BY <3>1, <3>2
  <2>. HIDE DEF new
  <2>5. DOMAIN live' = DOMAIN live \cup {new} /\ live'[new] = request
        /\ \A q \in DOMAIN live \ {new} : live'[q] = live[q]
    BY <1>5 DEF new
  <2>6. Held' = Held \cup {r.block}
    <3>1. Held' = {ptr_to_block(p) : p \in DOMAIN live'}
      BY DEF Held, ptr_to_block
    <3>2. QED
      BY <2>4, <2>5, <3>1 DEF Held
  <2>7. live \in [DOMAIN live -> Nat] /\ DOMAIN live \subseteq Nat /\ Held \subseteq Words
    BY DEF RawInv, RawTyped
  <2>8. live' \in [DOMAIN live' -> Nat] /\ DOMAIN live' \subseteq Nat /\ Held' \subseteq Words
    <3>1. request \in Nat
      BY <1>1
    <3>2. \A q \in DOMAIN live : live[q] \in Nat
      BY <2>7
    <3>3. live' \in [DOMAIN live \cup {new} -> Nat]
      BY <1>5, <3>1, <3>2 DEF new
    <3>4. QED
      BY <2>3, <2>4, <2>5, <2>6, <2>7, <3>3
  <2>9. mishap' \in {mishap, "small", "misplaced"}
    BY <1>5 DEF take_mishap
  <2>10. RawTyped'
    BY <1>5, <2>3, <2>8, <2>9, RawMemoryAssumption DEF RawInv, RawTyped
  <2>11. ASSUME mishap' = "none" PROVE m'.fault = "none" /\ Served' /\ \E C2, B2 : Kept(m', C2, B2, Held')
    <3>1. mishap = "none" /\ ~(Get(m, b, SIZE) < n) /\ ~Misplaced(r.block, r.before)
      BY <1>5, <2>11 DEF take_mishap, n
    <3>2. PICK C, B : Kept(m, C, B, Held)
      BY <3>1 DEF RawInv
    <3>3. m.fault = "none" /\ Served
      BY <3>1 DEF RawInv
    <3>4. Shape(m, C, B, Held, B \ Held)
      BY <3>2 DEF Kept
    <3>5. c \in C
      BY <2>1, <3>4, ShapeChunked, ChunksMet
    <3>6. b \in B \ Held
      <4>1. b \in Within(m, c, B \ Held)
        BY <2>1, <3>4, <3>5, FreeListMet
      <4>2. QED
        BY <4>1 DEF Within
    <3>7. Get(m, b, SIZE) >= n
      <4>1. Get(m, b, SIZE) \in Nat
        BY <1>3, GetType, WordFacts DEF Typed
      <4>2. QED
        BY <1>2, <3>1, <4>1
    <3>8. PICK B2 : /\ B \subseteq B2 /\ r.block \in B2 \ Held
                    /\ Kept(r.m, C, B2, Held \cup {r.block})
                    /\ r.m.fault = m.fault /\ Get(r.m, r.block, SIZE) >= n
                    /\ \A x \in Held : Get(r.m, x, SIZE) = Get(m, x, SIZE)
      <4>1. n \in Nat /\ n % 8 = 0 /\ n >= 32 /\ b \in B \ Held /\ Get(m, b, SIZE) >= n
            /\ r \in take(m, b, n) /\ ~Misplaced(r.block, r.before)
        BY <1>2, <1>5, <3>1, <3>6, <3>7
      <4>2. Taken(r, C, B, n)
        BY <3>2, <4>1, TakeKept
      <4>3. QED
        BY <4>2 DEF Taken
    <3>9. Served'
      <4>1. ASSUME NEW p \in DOMAIN live' PROVE Get(m', ptr_to_block(p), SIZE) >= total_size(live'[p])
        <5>1. CASE p = new
          BY <1>5, <2>4, <2>5, <3>8, <5>1 DEF n
        <5>2. CASE p # new
          <6>1. p \in DOMAIN live /\ live'[p] = live[p] /\ ptr_to_block(p) \in Held
            BY <2>5, <4>1, <5>2 DEF Held
          <6>2. Get(m', ptr_to_block(p), SIZE) = Get(m, ptr_to_block(p), SIZE)
            BY <1>5, <3>8, <6>1
          <6>3. QED
            BY <3>3, <6>1, <6>2 DEF Served
        <5>3. QED
          BY <5>1, <5>2
      <4>2. QED
        BY <4>1 DEF Served, total_size, ptr_to_block
    <3>10. QED
      BY <1>5, <2>6, <3>3, <3>8, <3>9
  <2>12. QED
    BY <2>10, <2>11 DEF RawInv
<1>6. QED
  BY <1>4, <1>5 DEF malloc_search, n, b

\* Freeing what the client holds.
LEMMA ReleaseHeldInv ==
  ASSUME RawInv, NEW p \in DOMAIN live, release(p)
  PROVE  RawInv'
<1>. DEFINE b == ptr_to_block(p)
<1>1. b \in Held /\ b \in Words /\ p \in Nat /\ p # NULL /\ b = p - 24
  <2>1. b \in Held /\ b \in Words /\ p \in Nat /\ b = p - 24
    BY DEF Held, RawInv, RawTyped, ptr_to_block, kMetadataSize
  <2>2. QED
    BY <2>1, WordFacts DEF NULL
<1>2. /\ m' = my_free(m, b) /\ live' = [q \in DOMAIN live \ {p} |-> live[q]]
      /\ UNCHANGED <<pc, request>>
      /\ mishap' = IF ~is_free(m, b) /\ JoinsApart(b) THEN "apart" ELSE mishap
  BY <1>1 DEF release
<1>. HIDE DEF b
<1>3. DOMAIN live' = DOMAIN live \ {p} /\ \A q \in DOMAIN live' : live'[q] = live[q]
  BY <1>2
<1>4. Held' = Held \ {b}
  <2>1. Held' = {ptr_to_block(q) : q \in DOMAIN live'}
    BY DEF Held, ptr_to_block
  <2>2. \A q \in DOMAIN live : q \in Nat /\ ptr_to_block(q) = q - 24
    BY DEF RawInv, RawTyped, ptr_to_block, kMetadataSize
  <2>3. \A q \in DOMAIN live : ptr_to_block(q) = b <=> q = p
    BY <1>1, <2>2
  <2>4. QED
    BY <1>3, <2>1, <2>3 DEF Held
<1>5. live' \in [DOMAIN live' -> Nat] /\ DOMAIN live' \subseteq Nat /\ Held' \subseteq Words
  <2>1. live \in [DOMAIN live -> Nat] /\ DOMAIN live \subseteq Nat /\ Held \subseteq Words
    BY DEF RawInv, RawTyped
  <2>2. QED
    BY <1>2, <1>3, <1>4, <2>1
<1>6. Typed(m')
  BY <1>1, <1>2, FreeTyped DEF RawInv, RawTyped
<1>7. RawTyped'
  BY <1>2, <1>5, <1>6 DEF RawInv, RawTyped
<1>8. ASSUME mishap' = "none" PROVE m'.fault = "none" /\ Served' /\ \E C2, B2 : Kept(m', C2, B2, Held')
  <2>1. mishap = "none" /\ (is_free(m, b) \/ ~JoinsApart(b))
    BY <1>2, <1>8
  <2>2. PICK C, B : Kept(m, C, B, Held)
    BY <2>1 DEF RawInv
  <2>3. m.fault = "none" /\ Served
    BY <2>1 DEF RawInv
  <2>4. ~is_free(m, b)
    <3>1. Shape(m, C, B, Held, B \ Held) /\ Held \subseteq B
      BY <2>2 DEF Kept, Shape
    <3>2. PICK c \in C : BlockOf(m, B, c, b)
      BY <1>1, <3>1, Home
    <3>3. b \in Nat /\ b > 0 /\ c + 48 <= b /\ b < Limit(m, c) /\ c \in Nat
      BY <1>1, <3>1, <3>2, BlockPlace, ChunkPlace DEF Shape
    <3>4. c <= b /\ b \in Nat \ {NULL}
      BY <3>3 DEF NULL
    <3>5. is_free(m, b) <=> b \in B \ Held
      BY <3>1, <3>3, <3>4, FreeKnown
    <3>6. QED
      BY <1>1, <3>5
  <2>5. PICK B2 : /\ Held \ {b} \subseteq B2
                  /\ Kept(my_free(m, b), C, B2, Held \ {b})
                  /\ my_free(m, b).fault = m.fault
                  /\ \A x \in Held \ {b} : Get(my_free(m, b), x, SIZE) = Get(m, x, SIZE)
    <3>1. Freed(my_free(m, b), C, b)
      <4>1. b \in Held /\ ~JoinsApart(b)
        BY <1>1, <2>1, <2>4
      <4>2. QED
        BY <2>2, <4>1, FreeKept
    <3>2. QED
      BY <3>1 DEF Freed
  <2>6. Served'
    <3>1. ASSUME NEW q \in DOMAIN live' PROVE Get(m', ptr_to_block(q), SIZE) >= total_size(live'[q])
      <4>1. q \in DOMAIN live /\ live'[q] = live[q] /\ ptr_to_block(q) \in Held'
        BY <1>3, <3>1 DEF Held, ptr_to_block
      <4>2. Get(m', ptr_to_block(q), SIZE) = Get(m, ptr_to_block(q), SIZE)
        BY <1>2, <1>4, <2>5, <4>1
      <4>3. QED
        BY <2>3, <4>1, <4>2 DEF Served
    <3>2. QED
      BY <3>1 DEF Served, total_size, ptr_to_block
  <2>7. QED
    BY <1>2, <1>4, <2>3, <2>5, <2>6
<1>9. QED
  BY <1>7, <1>8 DEF RawInv

\* Freeing NULL, or what is free already.
LEMMA ReleaseFreeInv ==
  ASSUME RawInv, NEW p \in FreedPtrs \cup {NULL}, p \notin DOMAIN live, release(p)
  PROVE  RawInv'
<1>1. /\ m' = IF p = NULL THEN m ELSE my_free(m, ptr_to_block(p))
      /\ live' = [q \in DOMAIN live \ {p} |-> live[q]]
      /\ UNCHANGED <<pc, request>>
      /\ mishap' = IF p # NULL /\ ~is_free(m, ptr_to_block(p)) /\ JoinsApart(ptr_to_block(p))
                   THEN "apart" ELSE mishap
  BY DEF release
<1>2. live' = live
  <2>1. live \in [DOMAIN live -> Nat] /\ DOMAIN live \ {p} = DOMAIN live
    BY DEF RawInv, RawTyped
  <2>2. QED
    BY <1>1, <2>1
<1>3. Held' = Held
  BY <1>2 DEF Held
<1>4. CASE p = NULL
  <2>1. UNCHANGED <<m, live, mishap>>
    BY <1>1, <1>2, <1>4
  <2>2. QED
    BY <1>1, <2>1, IdleInv DEF RawInv, RawTyped
<1>5. CASE p # NULL
  <2>. DEFINE b == ptr_to_block(p)
  <2>1. PICK c \in Elements(Chunks(m)) : p \in {x + kMetadataSize : x \in Elements(FreeChain(m, c))}
    BY <1>5 DEF FreedPtrs
  <2>2. PICK x \in Elements(FreeChain(m, c)) : p = x + kMetadataSize
    BY <2>1
  <2>3. Typed(m)
    BY DEF RawInv, RawTyped
  <2>4. x \in Words
    BY <2>2, <2>3, ListWords, ElementWord
  <2>5. b = x /\ b \in Words
    BY <2>2, <2>4, WordFacts DEF ptr_to_block, kMetadataSize
  <2>. HIDE DEF b
  <2>6. Typed(m')
    BY <1>1, <1>5, <2>3, <2>5, FreeTyped DEF b
  <2>7. RawTyped'
    BY <1>1, <1>2, <1>3, <2>6 DEF RawInv, RawTyped
  <2>8. ASSUME mishap' = "none" PROVE m'.fault = "none" /\ Served' /\ \E C2, B2 : Kept(m', C2, B2, Held')
    <3>1. mishap = "none"
      BY <1>1, <2>8
    <3>2. PICK C, B : Kept(m, C, B, Held)
      BY <3>1 DEF RawInv
    <3>3. m.fault = "none" /\ Served
      BY <3>1 DEF RawInv
    <3>4. Shape(m, C, B, Held, B \ Held)
      BY <3>2 DEF Kept
    <3>5. c \in C
      BY <2>1, <3>4, ShapeChunked, ChunksMet
    <3>6. b \in Within(m, c, B \ Held)
      BY <2>2, <2>5, <3>4, <3>5, FreeListMet
    <3>7. b \in Nat \ {NULL} /\ c <= b /\ b < Limit(m, c) /\ b \in B \ Held
      BY <3>4, <3>6, BlockNumbers DEF Within
    <3>8. is_free(m, b)
      BY <3>4, <3>5, <3>7, FreeKnown
    <3>9. m' = m
      BY <1>1, <1>5, <3>8 DEF my_free, b
    <3>10. Served'
      BY <1>2, <3>3, <3>9 DEF Served, total_size, ptr_to_block
    <3>11. QED
      BY <1>3, <3>2, <3>3, <3>9, <3>10
  <2>9. QED
    BY <2>7, <2>8 DEF RawInv
<1>6. QED
  BY <1>4, <1>5

LEMMA RawNextInv ==
  ASSUME RawInv, [Next]_vars
  PROVE  RawInv'
<1>1. CASE UNCHANGED vars
  <2>1. UNCHANGED <<m, live, mishap, pc, request>>
    BY <1>1 DEF vars
  <2>2. QED
    BY <2>1, IdleInv DEF RawInv, RawTyped
<1>2. CASE \E n \in Requests : my_malloc(n)
  BY <1>2, MallocInv
<1>3. CASE malloc_search
  BY <1>3, SearchInv
<1>4. CASE malloc_ask
  BY <1>4, AskInv
<1>5. CASE \E p \in DOMAIN live : release(p)
  BY <1>5, ReleaseHeldInv
<1>6. CASE \E p \in FreedPtrs \cup {NULL} : release(p)
  BY <1>6, ReleaseHeldInv, ReleaseFreeInv
<1>7. QED
  BY <1>1, <1>2, <1>3, <1>4, <1>5, <1>6 DEF Next

\* Short of the mishaps the memory is sound in every state of every execution.
THEOREM RawInvariance == Spec => []RawInv
<1>1. Init => RawInv
  BY RawInitInv
<1>2. RawInv /\ [Next]_vars => RawInv'
  BY RawNextInv
<1>3. QED
  BY <1>1, <1>2, PTL DEF Spec

-----------------------------------------------------------------------------
(* What follows from it *)

\* Every variable holds values of the C types that store it, whatever mishaps
\* the program goes on after.
THEOREM RawTypes == Spec => []RawTypeOK
<1>1. RawInv => RawTypeOK
  <2>1. SUFFICES ASSUME RawInv PROVE RawTypeOK
    OBVIOUS
  <2>2. HeapType(m)
    BY <2>1 DEF RawInv, RawTyped, Typed
  <2>3. m.first_map \in Nat /\ m.mem \in [DOMAIN m.mem -> 0 .. HalfWord * HalfWord - 1]
        /\ m.maps \in [DOMAIN m.maps -> Nat] /\ m.fault \in {"none", "wild"}
    BY <2>2, WordFacts DEF HeapType, Words
  <2>4. QED
    BY <2>1, <2>2, <2>3 DEF RawInv, RawTyped, RawTypeOK
<1>2. QED
  BY <1>1, RawInvariance, PTL

\* The walk by sizes along a chunk meets the blocks that lie in it.
LEMMA BlocksMet ==
  ASSUME NEW C, NEW B, NEW A, NEW F, Shape(m, C, B, A, F), NEW c \in C
  PROVE  LET s == BlocksOf(c)
             W == Within(m, c, B)
         IN  /\ s \in Seq(W) /\ s # << >> /\ Elements(s) = W
             /\ EndOf(m, s[Len(s)]) = Limit(m, c)
             /\ \A k \in DOMAIN s \ {1} : s[k] = EndOf(m, s[k - 1])
<1>. DEFINE W     == Within(m, c, B)
            end   == c + Get(m, c, CHUNK_SIZE)
            next  == [b \in DOMAIN m.mem |->
                        IF b + Get(m, b, SIZE) < end THEN b + Get(m, b, SIZE) ELSE NULL]
            limit == Cardinality(DOMAIN m.mem)
            first == c + SizeofChunk
            s     == Follow(next, first, limit)
<1>1. HeapType(m) /\ Mapping(m) /\ Tiled(m, C, B) /\ C \subseteq DOMAIN m.maps /\ IsFiniteSet(DOMAIN m.mem)
  BY DEF Shape, Mapping
<1>2. end = Limit(m, c) /\ Limit(m, c) \in Nat /\ c \in Nat /\ c > 0 /\ c + 80 <= Limit(m, c)
  BY <1>1, ChunkPlace DEF Tiled, Limit
<1>3. W \subseteq Nat \ {NULL} /\ W \subseteq B
  BY BlockNumbers DEF W
<1>4. ASSUME NEW b \in W
      PROVE  /\ BlockOf(m, B, c, b) /\ b \in DOMAIN m.mem /\ EndOf(m, b) \in Nat
             /\ b < EndOf(m, b) /\ EndOf(m, b) <= Limit(m, c)
             /\ EndOf(m, b) = Limit(m, c) \/ EndOf(m, b) \in W
  <2>1. b \in B /\ BlockOf(m, B, c, b)
    BY <1>4, WithinOf DEF W
  <2>2. /\ b \in Nat /\ EndOf(m, b) \in Nat /\ b + 32 <= EndOf(m, b) /\ EndOf(m, b) <= Limit(m, c)
        /\ b + 0 \in DOMAIN m.mem
    BY <1>1, <2>1, BlockPlace
  <2>3. ASSUME EndOf(m, b) \in B PROVE EndOf(m, b) \in W
    BY <2>1, <2>3, SameChunk DEF W
  <2>4. EndOf(m, b) = Limit(m, c) \/ EndOf(m, b) \in B
    BY <2>1 DEF BlockOf
  <2>5. QED
    BY <2>1, <2>2, <2>3, <2>4
<1>5. ASSUME NEW b \in W
      PROVE  b \in DOMAIN next /\ next[b] = IF EndOf(m, b) = Limit(m, c) THEN NULL ELSE EndOf(m, b)
  <2>1. b \in DOMAIN m.mem /\ (EndOf(m, b) = Limit(m, c) \/ EndOf(m, b) < Limit(m, c))
    BY <1>2, <1>4, <1>5
  <2>2. QED
    BY <1>2, <1>4, <1>5, <2>1 DEF EndOf
<1>6. first \in W
  <2>1. first \in B /\ c <= first /\ first < Limit(m, c)
    BY <1>1, <1>2 DEF Tiled, SizeofChunk
  <2>2. QED
    BY <2>1 DEF Within, W
<1>7. ASSUME NEW b \in W \ {first} PROVE \E a \in W : next[a] = b
  <2>1. BlockOf(m, B, c, b) /\ b \in Within(m, c, B)
    BY <1>4, <1>7 DEF W
  <2>2. PICK a \in B : EndOf(m, a) = b
    BY <1>7, <2>1 DEF BlockOf
  <2>3. PICK d \in C : BlockOf(m, B, d, a)
    BY Home
  <2>4. b \in Within(m, d, B) /\ a \in Within(m, d, B)
    BY <1>3, <1>7, <2>2, <2>3, SameChunk
  <2>5. d = c
    BY <2>1, <2>4, OneChunk
  <2>6. a \in W
    BY <2>4, <2>5 DEF W
  <2>7. b # Limit(m, c)
    BY <1>2, <1>3, <1>7, <2>1 DEF Within
  <2>8. next[a] = b
    BY <1>5, <2>2, <2>6, <2>7
  <2>9. QED
    BY <2>6, <2>8
<1>8. W \subseteq DOMAIN m.mem /\ limit \in Nat /\ IsFiniteSet(W) /\ Cardinality(W) <= limit
  <2>1. W \subseteq DOMAIN m.mem
    BY <1>4
  <2>. HIDE DEF W
  <2>2. QED
    BY <1>1, <2>1, FS_Subset, FS_CardinalityType
<1>9. W \subseteq DOMAIN next
  BY <1>5
<1>. HIDE DEF next, limit, W, first
<1>10. \A b \in W : next[b] = NULL \/ (next[b] \in W /\ b < next[b])
  BY <1>4, <1>5
<1>11. /\ s \in Seq(W) /\ s # << >>
       /\ Path(next, first, W, s) /\ Elements(s) = W
       /\ next[s[Len(s)]] = NULL
  BY <1>3, <1>6, <1>7, <1>8, <1>9, <1>10, FollowMeets
<1>12. BlocksOf(c) = s
  BY DEF BlocksOf, s, next, limit, first
<1>. HIDE DEF s
<1>13. EndOf(m, s[Len(s)]) = Limit(m, c)
  <2>1. s[Len(s)] \in W
    BY <1>11
  <2>2. EndOf(m, s[Len(s)]) # NULL
    <3>1. \A b \in W : EndOf(m, b) # NULL
      <4>1. SUFFICES ASSUME NEW b \in W PROVE EndOf(m, b) # NULL
        OBVIOUS
      <4>2. b \in Nat /\ b < EndOf(m, b)
        BY <1>3, <1>4, <4>1
      <4>3. QED
        BY <4>2 DEF NULL
    <3>2. QED
      BY <2>1, <3>1
  <2>3. QED
    BY <1>5, <1>11, <2>1, <2>2
<1>14. \A k \in DOMAIN s \ {1} : s[k] = EndOf(m, s[k - 1])
  <2>1. SUFFICES ASSUME NEW k \in DOMAIN s \ {1} PROVE s[k] = EndOf(m, s[k - 1])
    OBVIOUS
  <2>2. k - 1 \in DOMAIN s /\ s[k - 1] \in W /\ s[k] \in W
    BY <1>11, <2>1
  <2>3. s[k] = next[s[k - 1]]
    BY <1>11, <2>1 DEF Path
  <2>4. QED
    BY <1>3, <1>5, <2>2, <2>3
<1>15. QED
  BY <1>11, <1>12, <1>13, <1>14 DEF W

\* Short of the mishaps the blocks of a chunk tile it, each is held or listed as
\* free, no two free ones are neighbours, and nothing is stored elsewhere.
THEOREM BlocksTile == Spec => []RawBlocksTile
<1>1. RawInv => RawBlocksTile
  <2>1. SUFFICES ASSUME RawInv PROVE RawBlocksTile
    OBVIOUS
  <2>2. mishap = "none" => m.fault = "none"
    BY <2>1 DEF RawInv
  <2>3. ASSUME Sound, NEW c \in Elements(Chunks(m))
        PROVE  LET s == BlocksOf(c)
                   free == Elements(FreeChain(m, c))
               IN  /\ s[Len(s)] + Get(m, s[Len(s)], SIZE) = c + Get(m, c, CHUNK_SIZE)
                   /\ free = Elements(s) \ Held
                   /\ \A k \in DOMAIN s \ {1} : ~{s[k - 1], s[k]} \subseteq free
    <3>1. PICK C, B : Kept(m, C, B, Held)
      BY <2>1, <2>3 DEF RawInv, Sound
    <3>. DEFINE F == B \ Held
                s == BlocksOf(c)
                free == Elements(FreeChain(m, c))
                W == Within(m, c, B)
    <3>2. Shape(m, C, B, Held, F) /\ Coalesced(m, F)
      BY <3>1 DEF Kept
    <3>3. c \in C
      BY <2>3, <3>2, ShapeChunked, ChunksMet
    <3>4. /\ s \in Seq(W) /\ s # << >> /\ Elements(s) = W
          /\ EndOf(m, s[Len(s)]) = Limit(m, c)
          /\ \A k \in DOMAIN s \ {1} : s[k] = EndOf(m, s[k - 1])
      BY <3>2, <3>3, BlocksMet
    <3>5. free = Within(m, c, F)
      BY <3>2, <3>3, FreeListMet
    <3>. HIDE DEF s, free
    <3>6. free = Elements(s) \ Held
      BY <3>4, <3>5 DEF Within
    <3>7. s[Len(s)] + Get(m, s[Len(s)], SIZE) = c + Get(m, c, CHUNK_SIZE)
      BY <3>2, <3>3, <3>4 DEF EndOf, Limit, Shape, Tiled
    <3>8. ASSUME NEW k \in DOMAIN s \ {1}, {s[k - 1], s[k]} \subseteq free PROVE FALSE
      <4>1. s[k - 1] \in F /\ s[k] \in F
        BY <3>5, <3>8 DEF Within
      <4>2. QED
        BY <3>2, <3>4, <4>1 DEF Coalesced
    <3>9. QED
      BY <3>6, <3>7, <3>8 DEF s, free
  <2>4. QED
    BY <2>2, <2>3 DEF RawBlocksTile
<1>2. QED
  BY <1>1, RawInvariance, PTL

\* Short of the mishaps both lists of a chunk are in order of address and linked
\* both ways, and the list of allocated blocks has those the client holds there.
THEOREM ListsSorted == Spec => []RawListsSorted
<1>1. RawInv => RawListsSorted
  <2>1. SUFFICES ASSUME RawInv, Sound, NEW c \in Elements(Chunks(m))
                 PROVE  /\ DoublyLinked(FreeChain(m, c)) /\ ~Ring(m, Get(m, c, FREE))
                        /\ Get(m, c, ALLOC) \in Held =>
                             /\ DoublyLinked(AllocChain(m, c)) /\ ~Ring(m, Get(m, c, ALLOC))
                             /\ Elements(AllocChain(m, c)) = {b \in Held : chunk_from_block(m, b) = c}
    BY DEF RawListsSorted
  <2>2. PICK C, B : Kept(m, C, B, Held)
    BY <2>1 DEF RawInv, Sound
  <2>3. Shape(m, C, B, Held, B \ Held)
    BY <2>2 DEF Kept
  <2>4. c \in C
    BY <2>1, <2>3, ShapeChunked, ChunksMet
  <2>5. DoublyLinked(FreeChain(m, c)) /\ ~Ring(m, Get(m, c, FREE))
    <3>. DEFINE s == FreeChain(m, c)
                S == Within(m, c, B \ Held)
    <3>1. /\ s \in Seq(S)
          /\ \A j, k \in DOMAIN s : j < k => s[j] < s[k]
          /\ \A k \in DOMAIN s : Get(m, s[k], PREV) = IF k = 1 THEN NULL ELSE s[k - 1]
          /\ Get(m, c, FREE) # NULL => Get(m, s[Len(s)], NEXT) = NULL
      BY <2>3, <2>4, FreeListMet
    <3>2. s = Chain(m, Get(m, c, FREE))
      BY DEF FreeChain
    <3>. HIDE DEF s
    <3>3. \A k \in DOMAIN s : k > 1 => s[k - 1] < s[k]
      <4>1. SUFFICES ASSUME NEW k \in DOMAIN s, k > 1 PROVE s[k - 1] < s[k]
        OBVIOUS
      <4>2. k - 1 \in DOMAIN s /\ k - 1 < k
        BY <3>1, <4>1
      <4>3. QED
        BY <3>1, <4>2
    <3>4. DoublyLinked(s)
      BY <3>1, <3>3 DEF DoublyLinked
    <3>5. ~Ring(m, Get(m, c, FREE))
      BY <3>1, <3>2 DEF Ring
    <3>6. QED
      BY <3>4, <3>5 DEF s
  <2>6. ASSUME Get(m, c, ALLOC) \in Held
        PROVE  /\ DoublyLinked(AllocChain(m, c)) /\ ~Ring(m, Get(m, c, ALLOC))
               /\ Elements(AllocChain(m, c)) = {b \in Held : chunk_from_block(m, b) = c}
    <3>. DEFINE s == AllocChain(m, c)
                S == Within(m, c, Held)
                a == Get(m, c, ALLOC)
    <3>1. Held \subseteq B /\ HeapType(m) /\ Mapping(m) /\ IsFiniteSet(DOMAIN m.mem)
          /\ ChunkLists(m, c, S, Within(m, c, B \ Held))
      BY <2>3, <2>4 DEF Shape, Mapping, Listed
    <3>2. S \subseteq Nat \ {NULL} /\ S \subseteq Held
      BY <2>3, <3>1, BlockNumbers
    <3>3. S \subseteq DOMAIN m.mem
      <4>1. SUFFICES ASSUME NEW x \in S PROVE x \in DOMAIN m.mem
        OBVIOUS
      <4>2. x \in B /\ BlockOf(m, B, c, x)
        BY <2>3, <2>4, <3>1, WithinOf
      <4>3. x \in Nat /\ x + 0 \in DOMAIN m.mem
        BY <2>3, <2>4, <4>2, BlockPlace DEF Shape
      <4>4. QED
        BY <4>3
    <3>4. After(S, NULL, a)
      <4>1. a \in B /\ a # NULL /\ a \in Nat
        BY <2>3, <2>6, <3>1, BlockNumbers
      <4>2. c + 48 <= a /\ a < Limit(m, c) /\ c \in Nat
        BY <2>3, <2>4, <3>1, <4>1, ChunkPlace DEF ChunkLists, SizeofChunk, Shape
      <4>3. a \in S
        BY <2>6, <4>1, <4>2 DEF Within
      <4>4. \A x \in S : a <= x
        BY <3>1 DEF ChunkLists
      <4>5. QED
        BY <4>1, <4>3, <4>4 DEF After, NULL
    <3>5. Linked(m, S) /\ a # NULL
      BY <2>3, <2>6, <3>1, BlockNumbers DEF ChunkLists
    <3>6. s = Chain(m, a)
      BY DEF AllocChain
    <3>. HIDE DEF s, S, a
    <3>7. /\ s \in Seq(S) /\ Elements(s) = S
          /\ \A j, k \in DOMAIN s : j < k => s[j] < s[k]
          /\ \A k \in DOMAIN s : Get(m, s[k], PREV) = IF k = 1 THEN NULL ELSE s[k - 1]
          /\ Get(m, s[Len(s)], NEXT) = NULL
      BY <3>1, <3>2, <3>3, <3>4, <3>5, <3>6, ChainMeets
    <3>8. \A k \in DOMAIN s : k > 1 => s[k - 1] < s[k]
      <4>1. SUFFICES ASSUME NEW k \in DOMAIN s, k > 1 PROVE s[k - 1] < s[k]
        OBVIOUS
      <4>2. k - 1 \in DOMAIN s /\ k - 1 < k
        BY <3>7, <4>1
      <4>3. QED
        BY <3>7, <4>2
    <3>9. DoublyLinked(s)
      BY <3>7, <3>8 DEF DoublyLinked
    <3>10. ~Ring(m, a)
      BY <3>6, <3>7 DEF Ring
    <3>11. S = {b \in Held : chunk_from_block(m, b) = c}
      BY <2>3, <2>4, HeldOf DEF S
    <3>12. QED
      BY <3>7, <3>9, <3>10, <3>11 DEF s, a
  <2>7. QED
    BY <2>5, <2>6
<1>2. QED
  BY <1>1, RawInvariance, PTL

\* What the client holds lies in its block, and that in a chunk.
LEMMA HeldBlock ==
  ASSUME RawInv, Sound, NEW C, NEW B, Kept(m, C, B, Held), NEW p \in DOMAIN live
  PROVE  /\ p \in Nat /\ ptr_to_block(p) = p - 24 /\ ptr_to_block(p) \in B
         /\ EndOf(m, ptr_to_block(p)) \in Nat /\ live[p] \in Nat
         /\ p + live[p] <= EndOf(m, ptr_to_block(p))
         /\ \E x \in DOMAIN m.maps :
              x + SizeofChunk <= ptr_to_block(p) /\ p + live[p] <= x + m.maps[x]
<1>. DEFINE b == ptr_to_block(p)
<1>1. Shape(m, C, B, Held, B \ Held) /\ Held \subseteq B
  BY DEF Kept, Shape
<1>2. p \in Nat /\ live[p] \in Nat /\ b = p - 24 /\ b \in B
  BY <1>1 DEF RawInv, RawTyped, Held, ptr_to_block, kMetadataSize
<1>. HIDE DEF b
<1>3. PICK c \in C : BlockOf(m, B, c, b)
  BY <1>1, <1>2, Home
<1>4. /\ b \in Nat /\ Get(m, b, SIZE) \in Nat /\ EndOf(m, b) \in Nat
      /\ c + 48 <= b /\ EndOf(m, b) <= Limit(m, c)
  BY <1>1, <1>2, <1>3, BlockPlace DEF Shape
<1>5. Get(m, b, SIZE) >= total_size(live[p])
  BY DEF RawInv, Sound, Served, b
<1>6. live[p] + 24 <= total_size(live[p]) /\ total_size(live[p]) \in Nat
  BY <1>2, RoundUp DEF total_size, kMetadataSize
<1>7. p + live[p] <= EndOf(m, b)
  BY <1>2, <1>4, <1>5, <1>6 DEF EndOf
<1>8. c \in DOMAIN m.maps /\ c + SizeofChunk <= b /\ p + live[p] <= c + m.maps[c]
  <2>1. c \in DOMAIN m.maps /\ Limit(m, c) \in Nat
    BY <1>1, ChunkPlace DEF Shape
  <2>2. QED
    BY <1>2, <1>4, <1>7, <2>1 DEF Limit, SizeofChunk
<1>9. QED
  BY <1>2, <1>4, <1>7, <1>8 DEF b

\* Short of the mishaps what the client holds lies in the mappings, apart from
\* each other, each in a block with room for what was asked for.
THEOREM LiveFits == Spec => []RawLiveFits
<1>1. RawInv => RawLiveFits
  <2>1. SUFFICES ASSUME RawInv, Sound
                 PROVE  LiveApart /\ \A p \in DOMAIN live : Get(m, ptr_to_block(p), SIZE) >= total_size(live[p])
    BY DEF RawLiveFits
  <2>2. Served
    BY <2>1 DEF RawInv, Sound
  <2>3. PICK C, B : Kept(m, C, B, Held)
    BY <2>1 DEF RawInv, Sound
  <2>4. Shape(m, C, B, Held, B \ Held) /\ Held \subseteq B
    BY <2>3 DEF Kept, Shape
  <2>5. ASSUME NEW p \in DOMAIN live
        PROVE  /\ p \in Nat /\ ptr_to_block(p) = p - 24 /\ ptr_to_block(p) \in B
               /\ EndOf(m, ptr_to_block(p)) \in Nat /\ live[p] \in Nat
               /\ p + live[p] <= EndOf(m, ptr_to_block(p))
               /\ \E x \in DOMAIN m.maps :
                    x + SizeofChunk <= ptr_to_block(p) /\ p + live[p] <= x + m.maps[x]
    BY <2>1, <2>3, HeldBlock
  <2>6. ASSUME NEW p \in DOMAIN live, NEW q \in DOMAIN live, p < q
        PROVE  p + live[p] <= ptr_to_block(q)
    <3>1. ptr_to_block(p) < ptr_to_block(q)
      BY <2>5, <2>6
    <3>2. EndOf(m, ptr_to_block(p)) <= ptr_to_block(q)
      BY <2>4, <2>5, <3>1 DEF Shape, Tiled
    <3>3. p + live[p] \in Nat /\ p + live[p] <= EndOf(m, ptr_to_block(p)) /\ ptr_to_block(q) \in Int
          /\ EndOf(m, ptr_to_block(p)) \in Nat
      BY <2>5
    <3>4. QED
      BY <3>2, <3>3
  <2>7. LiveApart
    BY <2>5, <2>6 DEF LiveApart
  <2>8. QED
    BY <2>2, <2>7 DEF Served
<1>2. QED
  BY <1>1, RawInvariance, PTL

\* Where the program stops at every mishap, no free block ever covers memory
\* that the client holds.
THEOREM HeldCovered == Tolerated = {"none"} => (Spec => []HeldNotListed)
<1>1. RawInv /\ Tolerated = {"none"} => HeldNotListed
  <2>1. SUFFICES ASSUME RawInv, Tolerated = {"none"}, m.fault = "none", mishap \in Tolerated,
                        NEW c \in Elements(Chunks(m)), NEW f \in Elements(FreeChain(m, c)),
                        NEW p \in DOMAIN live
                 PROVE  p + live[p] <= f \/ f + Get(m, f, SIZE) <= ptr_to_block(p)
    BY DEF HeldNotListed
  <2>2. Sound
    BY <2>1 DEF Sound
  <2>3. PICK C, B : Kept(m, C, B, Held)
    BY <2>1, <2>2 DEF RawInv, Sound
  <2>4. Shape(m, C, B, Held, B \ Held)
    BY <2>3 DEF Kept
  <2>5. f \in B \ Held
    <3>1. c \in C
      BY <2>1, <2>4, ShapeChunked, ChunksMet
    <3>2. f \in Within(m, c, B \ Held)
      BY <2>1, <2>4, <3>1, FreeListMet
    <3>3. QED
      BY <3>2 DEF Within
  <2>6. /\ p \in Nat /\ live[p] \in Nat /\ ptr_to_block(p) \in B /\ ptr_to_block(p) \in Int
        /\ EndOf(m, ptr_to_block(p)) \in Nat /\ p + live[p] <= EndOf(m, ptr_to_block(p))
    BY <2>1, <2>2, <2>3, HeldBlock
  <2>7. ptr_to_block(p) # f /\ f \in Nat
    BY <2>1, <2>4, <2>5, BlockNumbers DEF Held
  <2>8. CASE f < ptr_to_block(p)
    BY <2>4, <2>5, <2>6, <2>8 DEF Shape, Tiled, EndOf
  <2>9. CASE ptr_to_block(p) < f
    <3>1. EndOf(m, ptr_to_block(p)) <= f
      BY <2>4, <2>5, <2>6, <2>9 DEF Shape, Tiled
    <3>2. QED
      BY <2>6, <2>7, <3>1
  <2>10. QED
    BY <2>6, <2>7, <2>8, <2>9
<1>2. SUFFICES ASSUME Tolerated = {"none"} PROVE Spec => []HeldNotListed
  OBVIOUS
<1>3. RawInv => HeldNotListed
  BY <1>1, <1>2
<1>4. QED
  BY <1>3, RawInvariance, PTL
=============================================================================
