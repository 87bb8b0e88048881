------------------------------ MODULE RawMalloc ------------------------------
(***************************************************************************)
(* The first allocator, src/mymalloc-raw.c, with a client that obeys its   *)
(* contract: it frees NULL, what it holds, or what it has freed and the    *)
(* code can still tell is free. my_malloc searches and asks the OS in a    *)
(* loop: its first statements, each search and each request are a step.    *)
(*                                                                         *)
(* Four things that put the code wrong are recorded in "mishap":           *)
(*   small      a block is taken that is smaller than what it is taken for *)
(*   misplaced  a block enters the list of allocated blocks out of order   *)
(*   apart      two blocks are merged that are not neighbours in memory    *)
(*   below      a chunk is mapped below an earlier one, and its blocks are  *)
(*              taken for blocks of that one                               *)
(* Tolerated says after which of them the model goes on.                   *)
(***************************************************************************)
EXTENDS RawHeap

CONSTANTS
  Requests,    \* sizes the client asks for
  Tolerated    \* mishaps after which the program goes on

VARIABLES
  m,        \* the memory and first_map
  live,     \* the client's: pointer it holds -> size it asked for
  pc,       \* "client", or where my_malloc is: "search" or "ask"
  request,  \* the size my_malloc was called with
  mishap    \* "none" or one of the above

vars == <<m, live, pc, request, mishap>>

ASSUME RawRequestsAssumption == Requests \subseteq Nat

GoesOn == m.fault = "none" /\ mishap \in Tolerated

\* After a mishap a list may be a ring, and a loop along it never ends: no call
\* is made any more.
Running ==
  /\ GoesOn
  /\ \A c \in Elements(Chunks(m)) : ~Ring(m, Get(m, c, FREE)) /\ ~Ring(m, Get(m, c, ALLOC))

Held == {ptr_to_block(p) : p \in DOMAIN live}

\* Mutant (RawLiveFits): no room is kept for the header.
total_size_without_header(n) == round_up(n, kAlignment)

total_size(n) == round_up(n + kMetadataSize, kAlignment)

\* The units asked of the OS for a block of "total" bytes.
units(total) == (total + SizeofChunk + kMemorySize - 1) \div kMemorySize

my_malloc(n) ==
  /\ Running
  /\ pc = "client"
  /\ \/ /\ n = 0 \/ n > kMaxAllocationSize
        /\ UNCHANGED vars
     \/ /\ n > 0 /\ n <= kMaxAllocationSize
        /\ pc' = "search"
        /\ request' = n
        /\ \/ m.first_map # NULL /\ UNCHANGED m
           \/ /\ m.first_map = NULL
              /\ \E r \in get_chunk_from_OS(m, units(total_size(n))) :
                   m' = [r.m EXCEPT !.first_map = r.chunk]
        /\ UNCHANGED <<live, mishap>>

\* The list of allocated blocks is searched from a block that is not in it any
\* more, or the block belongs at its end, where the code does not put it.
Misplaced(b, before) ==
  LET inlist == {x \in Held : chunk_from_block(m, x) = chunk_from_block(m, b)}
      above  == {x \in inlist : x > b}
  IN  IF above = {} THEN before # NULL \/ inlist # {}
      ELSE before # CHOOSE x \in above : \A y \in above : x <= y

take_mishap(b, r) ==
  IF Get(m, b, SIZE) < total_size(request) THEN "small"
  ELSE IF Misplaced(r.block, r.before) THEN "misplaced" ELSE mishap

\* The control of the loop.
turn == GoesOn /\ pc # "client" /\ pc' \in {"client", "search", "ask"} \ {pc}

\* The search, and the rest of my_malloc if it finds a block.
malloc_search ==
  /\ pc = "search"
  /\ turn
  /\ \E b \in {best_fit(m, total_size(request))} :
       \/ /\ b = NULL
          /\ pc' = "ask"
          /\ UNCHANGED <<m, live, request, mishap>>
       \/ /\ b # NULL
          /\ pc' = "client"
          /\ \E r \in take(m, b, total_size(request)) :
               /\ m' = r.m
               /\ live' = [q \in DOMAIN live \cup {r.block + kMetadataSize} |->
                             IF q = r.block + kMetadataSize THEN request ELSE live[q]]
               /\ mishap' = take_mishap(b, r)
          /\ request' = 0

\* Mutant (MallocReturns): a refusal does not end the loop.
malloc_ask_again ==
  /\ pc = "ask"
  /\ turn
  /\ \E r \in get_chunk_from_OS(m, units(total_size(request))) : m' = r.m
  /\ pc' = "search"
  /\ UNCHANGED <<live, request, mishap>>

\* The request; my_malloc returns NULL if it is refused.
malloc_ask ==
  /\ pc = "ask"
  /\ turn
  /\ \E r \in get_chunk_from_OS(m, units(total_size(request))) :
       /\ m' = r.m
       /\ pc' = IF r.chunk = NULL THEN "client" ELSE "search"
       /\ request' = IF r.chunk = NULL THEN 0 ELSE request
       /\ mishap' = IF r.chunk # NULL /\ \E c \in Elements(Chunks(m)) : c > r.chunk
                    THEN "below" ELSE mishap
  /\ UNCHANGED live

\* my_free is about to merge b with a block that is not next to it.
JoinsApart(b) ==
  LET next == get_next_block(put_back(m, b), b)
      prev == Get(put_back(m, b), b, PREV)
  IN  \/ joinable(put_back(m, b), next) /\ next # b + Get(m, b, SIZE)
      \/ prev # NULL /\ prev + Get(m, prev, SIZE) # b

release(p) ==
  /\ Running
  /\ pc = "client"
  /\ m' = IF p = NULL THEN m ELSE my_free(m, ptr_to_block(p))
  /\ live' = [q \in DOMAIN live \ {p} |-> live[q]]
  /\ mishap' = IF p # NULL /\ ~is_free(m, ptr_to_block(p)) /\ JoinsApart(ptr_to_block(p))
               THEN "apart" ELSE mishap
  /\ UNCHANGED <<pc, request>>

\* What the client has freed, where a block still starts.
FreedPtrs == UNION {{b + kMetadataSize : b \in Elements(FreeChain(m, c))} : c \in Elements(Chunks(m))}

Init ==
  /\ m = InitRaw
  /\ live = [p \in {} |-> 0]
  /\ pc = "client"
  /\ request = 0
  /\ mishap = "none"

Next ==
  \/ \E n \in Requests : my_malloc(n)
  \/ malloc_search
  \/ malloc_ask
  \/ \E p \in DOMAIN live : release(p)
  \/ \E p \in FreedPtrs \cup {NULL} : release(p)

\* my_malloc runs to its end: nothing else runs before it returns.
Spec == Init /\ [][Next]_vars /\ WF_pc(turn)

-----------------------------------------------------------------------------
(* Properties *)

Sound == m.fault = "none" /\ mishap = "none"

\* Every variable holds values of the C types that store it.
RawTypeOK ==
  /\ m.first_map \in Nat
  /\ m.mem \in [DOMAIN m.mem -> 0 .. HalfWord * HalfWord - 1]
  /\ m.maps \in [DOMAIN m.maps -> Nat]
  /\ m.fault \in {"none", "wild"}
  /\ live \in [DOMAIN live -> Nat]
  /\ pc \in {"client", "search", "ask"}
  /\ request \in Nat
  /\ mishap \in {"none", "small", "misplaced", "apart", "below"}

\* The blocks of a chunk in memory, by their sizes.
BlocksOf(c) ==
  LET end  == c + Get(m, c, CHUNK_SIZE)
      next == [b \in DOMAIN m.mem |->
                 IF b + Get(m, b, SIZE) < end THEN b + Get(m, b, SIZE) ELSE NULL]
  IN  Follow(next, c + SizeofChunk, Cardinality(DOMAIN m.mem))

\* Short of the mishaps: the walk by sizes from the start of a chunk meets its
\* end; each block on it is held by the client or in the free list, not both,
\* and no two free ones are neighbours, however chunks were filled and emptied.
\* Nothing is stored outside of the mappings.
RawBlocksTile ==
  /\ mishap = "none" => m.fault = "none"
  /\ Sound =>
    \A c \in Elements(Chunks(m)) :
      LET s == BlocksOf(c)
          free == Elements(FreeChain(m, c))
      IN  /\ s[Len(s)] + Get(m, s[Len(s)], SIZE) = c + Get(m, c, CHUNK_SIZE)
          /\ free = Elements(s) \ Held
          /\ \A k \in DOMAIN s \ {1} : ~{s[k - 1], s[k]} \subseteq free

DoublyLinked(s) ==
  \A k \in DOMAIN s :
    /\ Get(m, s[k], PREV) = IF k = 1 THEN NULL ELSE s[k - 1]
    /\ k > 1 => s[k - 1] < s[k]

\* Short of the mishaps: both lists of a chunk are in order of address and
\* linked both ways, and the list of allocated blocks has those the client
\* holds there, unless its first block was freed and none taken since.
RawListsSorted ==
  Sound =>
    \A c \in Elements(Chunks(m)) :
      /\ DoublyLinked(FreeChain(m, c)) /\ ~Ring(m, Get(m, c, FREE))
      /\ Get(m, c, ALLOC) \in Held =>
           /\ DoublyLinked(AllocChain(m, c)) /\ ~Ring(m, Get(m, c, ALLOC))
           /\ Elements(AllocChain(m, c)) = {b \in Held : chunk_from_block(m, b) = c}

\* What the client holds lies in the mappings, disjoint, headers included.
LiveApart ==
  /\ \A p \in DOMAIN live :
       \E x \in DOMAIN m.maps : x + SizeofChunk <= ptr_to_block(p) /\ p + live[p] <= x + m.maps[x]
  /\ \A p, q \in DOMAIN live : p < q => p + live[p] <= ptr_to_block(q)

\* No free block covers memory that the client holds.
HeldNotListed ==
  m.fault = "none" /\ mishap \in Tolerated =>
    \A c \in Elements(Chunks(m)) : \A f \in Elements(FreeChain(m, c)) : \A p \in DOMAIN live :
      p + live[p] <= f \/ f + Get(m, f, SIZE) <= ptr_to_block(p)

\* Short of the mishaps: that, and each block has room for what was asked for.
RawLiveFits ==
  Sound => LiveApart /\ \A p \in DOMAIN live : Get(m, ptr_to_block(p), SIZE) >= total_size(live[p])

\* A request is answered, if only by NULL when the OS has no more to give: a
\* first request that was refused leaves first_map NULL, the chunks that later
\* turns get are never found, and the loop goes on until the OS refuses.
MallocReturns == pc # "client" ~> pc = "client" \/ mishap # "none"
=============================================================================
