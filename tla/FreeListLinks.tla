---------------------------- MODULE FreeListLinks ----------------------------
(***************************************************************************)
(* The free lists of src/mymalloc.c as they are in memory: free_lists has  *)
(* the address of the first block of each list, and the header of a block  *)
(* has the distance in bytes to the next one, cut to an int32_t. A loop    *)
(* along a list takes one step per turn. What drives the lists (my_malloc, *)
(* my_free, coalesce) is their client: it puts a block that is in no list  *)
(* under the size it has by then, removes any block, listed or not, and    *)
(* searches. The code does not look whether a distance fits: "cut" records *)
(* that one did not, and the model goes no further.                        *)
(***************************************************************************)
EXTENDS Sizes, FiniteSets

CONSTANTS
  Blocks,         \* addresses of the blocks
  BlockSizes,     \* sizes the client gives them
  Totals,         \* sizes it searches for
  OffsetLimit     \* an int32_t is in -OffsetLimit .. OffsetLimit - 1 (2^31)

ASSUME BlocksAssumption == \A b \in Blocks : b \in Nat /\ b # NULL /\ b <= MmapTop

ASSUME BlockSizesAssumption == BlockSizes \subseteq Nat /\ Totals \subseteq Nat

ASSUME OffsetAssumption == OffsetLimit \in Nat \ {0}

VARIABLES
  free_lists,     \* the heads: a block, or NULL
  next_offset,    \* of each block, listed or not
  size,           \* of each block
  listed,         \* the client's: the blocks it has put and not removed
  cut,            \* a distance did not fit in its link
  pc,             \* "client", or the function a call is in
  index,          \* its locals: the list it is in
  curr,           \*   the block its loop has reached
  prev,           \*   remove_from_free_list: the block before that one
  block,          \*   remove_from_free_list: its argument
  total,          \*   best_fit, list_fit: the size searched for
  best,           \*   list_fit: the best block so far
  found           \* the block the last search returned, or NULL

memory == <<free_lists, next_offset, size, listed, cut>>
locals == <<index, curr, prev, block, total, best>>
vars == <<memory, pc, locals, found>>

Lists == 0 .. N_LISTS - 1

-----------------------------------------------------------------------------
(* Links *)

\* Mutant (LinksTypeOK): the conversion is to a uint32_t.
AsOffset_wide(d) == d % (2 * OffsetLimit)

\* The conversion to int32_t.
AsOffset(d) == ((d + OffsetLimit) % (2 * OffsetLimit)) - OffsetLimit

\* Of the block whose link is n.
next_of(b, n) == IF n = 0 THEN NULL ELSE b + n

get_next_through_off(b) == next_of(b, next_offset[b])

\* What set_next_off stores, and whether it is cut.
offset_to(from, to) == IF to = NULL THEN 0 ELSE AsOffset(to - from)

TooFar(from, to) == to # NULL /\ AsOffset(to - from) # to - from

set_next_off(links, from, to) == [links EXCEPT ![from] = offset_to(from, to)]

-----------------------------------------------------------------------------
(* put_block_in_free_list *)

\* Mutant (ListsSpelled): the head is set before the link is.
put_head_first(b, i) ==
  /\ free_lists' = [free_lists EXCEPT ![i] = b]
  /\ next_offset' = set_next_off(next_offset, b, b)

put_block_in_free_list(b, i) ==
  /\ next_offset' = set_next_off(next_offset, b, free_lists[i])
  /\ free_lists' = [free_lists EXCEPT ![i] = b]

\* The client frees b, or what b has become by a merge or a split.
put(b, n) ==
  /\ pc = "client"
  /\ ~cut
  /\ b \notin listed
  /\ cut' = TooFar(b, free_lists[calculate_index(n)])
  /\ size' = [size EXCEPT ![b] = n]
  /\ listed' = listed \cup {b}
  /\ put_block_in_free_list(b, calculate_index(n))
  /\ UNCHANGED <<pc, locals, found>>

-----------------------------------------------------------------------------
(* remove_from_free_list *)

remove_from_free_list(b) ==
  /\ pc = "client"
  /\ ~cut
  /\ pc' = "remove"
  /\ block' = b
  /\ index' = calculate_index(size[b])
  /\ curr' = free_lists[index']
  /\ prev' = NULL
  /\ UNCHANGED <<memory, total, best, found>>

\* Mutant (WalkKeepsPlace): prev is not moved along.
remove_turn_keeps_prev ==
  /\ pc = "remove"
  /\ curr # block
  /\ curr \in Blocks
  /\ curr' = get_next_through_off(curr)
  /\ UNCHANGED <<memory, pc, index, prev, block, total, best, found>>

\* A turn of the loop. A loop that has left the blocks would read a header
\* where there is none: the model stops there.
remove_turn ==
  /\ pc = "remove"
  /\ curr # block
  /\ curr \in Blocks
  /\ prev' = curr
  /\ curr' = get_next_through_off(curr)
  /\ UNCHANGED <<memory, pc, index, block, total, best, found>>

\* Mutant (WalkEnds): the block before the one removed keeps its link.
unlink_head_only(next) ==
  /\ free_lists' = IF prev = NULL THEN [free_lists EXCEPT ![index] = next] ELSE free_lists
  /\ next_offset' = set_next_off(next_offset, block, NULL)
  /\ cut' = FALSE

unlink(next) ==
  \/ /\ prev # NULL
     /\ next_offset' = set_next_off(set_next_off(next_offset, prev, next), block, NULL)
     /\ cut' = TooFar(prev, next)
     /\ UNCHANGED free_lists
  \/ /\ prev = NULL
     /\ free_lists' = [free_lists EXCEPT ![index] = next]
     /\ next_offset' = set_next_off(next_offset, block, NULL)
     /\ cut' = FALSE

\* The statements after the loop, and the return.
remove_returns ==
  /\ pc = "remove"
  /\ \/ curr = NULL /\ UNCHANGED <<free_lists, next_offset, cut>>
     \/ curr = block /\ unlink(get_next_through_off(block))
  /\ listed' = listed \ {block}
  /\ pc' = "client"
  /\ index' = 0 /\ curr' = NULL /\ prev' = NULL /\ block' = NULL
  /\ UNCHANGED <<size, total, best, found>>

-----------------------------------------------------------------------------
(* best_fit and list_fit *)

\* best_fit starts from the list of the size; my_malloc also searches the last
\* list alone.
search(n, first) ==
  /\ pc = "client"
  /\ ~cut
  /\ pc' = "search"
  /\ total' = n
  /\ index' = first
  /\ curr' = free_lists[first]
  /\ best' = NULL
  /\ UNCHANGED <<memory, prev, block, found>>

\* Mutant (ImplementsFreeLists): among equals the last block is taken.
better_or_equal(b) ==
  size[b] >= total /\ (best = NULL \/ size[b] - total <= size[best] - total)

better(b) ==
  size[b] >= total /\ (best = NULL \/ size[b] - total < size[best] - total)

list_fit_turn ==
  /\ pc = "search"
  /\ curr \in Blocks
  /\ best' = IF better(curr) THEN curr ELSE best
  /\ curr' = get_next_through_off(curr)
  /\ UNCHANGED <<memory, pc, index, prev, block, total, found>>

next_list ==
  /\ pc = "search"
  /\ curr = NULL /\ best = NULL /\ index < N_LISTS - 1
  /\ index' = index + 1
  /\ curr' = free_lists[index + 1]
  /\ UNCHANGED <<memory, pc, prev, block, total, best, found>>

search_returns ==
  /\ pc = "search"
  /\ curr = NULL
  /\ best # NULL \/ index = N_LISTS - 1
  /\ found' = best
  /\ pc' = "client"
  /\ index' = 0 /\ total' = 0 /\ best' = NULL
  /\ UNCHANGED <<memory, curr, prev, block>>

-----------------------------------------------------------------------------

Init ==
  /\ free_lists = [i \in Lists |-> NULL]
  /\ next_offset = [b \in Blocks |-> 0]
  /\ size \in [Blocks -> BlockSizes]
  /\ listed = {}
  /\ cut = FALSE
  /\ pc = "client"
  /\ index = 0 /\ curr = NULL /\ prev = NULL /\ block = NULL
  /\ total = 0 /\ best = NULL
  /\ found = NULL

turn == remove_turn \/ remove_returns \/ list_fit_turn \/ next_list \/ search_returns

Next ==
  \/ \E b \in Blocks, n \in BlockSizes : put(b, n)
  \/ \E b \in Blocks : remove_from_free_list(b)
  \/ \E n \in Totals : search(n, calculate_index(n)) \/ search(n, N_LISTS - 1)
  \/ turn

\* A call runs to its end: its next turn is taken.
Spec == Init /\ [][Next]_vars /\ WF_vars(turn)

-----------------------------------------------------------------------------
(* Properties *)

\* Every variable holds values of the C types that store it.
LinksTypeOK ==
  /\ free_lists \in [Lists -> Int] /\ curr \in Int
  /\ next_offset \in [Blocks -> -OffsetLimit .. OffsetLimit - 1]
  /\ size \in [Blocks -> BlockSizes]
  /\ listed \subseteq Blocks
  /\ cut \in BOOLEAN
  /\ pc \in {"client", "remove", "search"}
  /\ pc = "remove" => block \in Blocks
  /\ index \in Lists
  /\ {prev, block, best, found} \subseteq Blocks \cup {NULL}
  /\ total \in Totals \cup {0}

\* The lists a chain of links could be: each block at most once.
Chains ==
  {s \in UNION {[1 .. n -> Blocks] : n \in 0 .. Cardinality(Blocks)} :
     \A j, k \in DOMAIN s : s[j] = s[k] => j = k}

\* The links from the head of list i on spell s, and end there.
Spells(s, i) ==
  /\ free_lists[i] = IF s = << >> THEN NULL ELSE s[1]
  /\ \A k \in DOMAIN s :
       get_next_through_off(s[k]) = IF k = Len(s) THEN NULL ELSE s[k + 1]

\* As long as no distance was cut, the links lead from each head through the
\* listed blocks of that list, each once, to NULL: no removal or insertion
\* loses the rest of a list, joins two lists or closes a ring.
ListsSpelled ==
  ~cut =>
    \A i \in Lists : \E s \in Chains :
      /\ Spells(s, i)
      /\ Elements(s) = {b \in listed : calculate_index(size[b]) = i}

\* remove_from_free_list has in prev the block whose link leads to curr, or
\* NULL at the head: what it changes when it finds its block is that link.
WalkKeepsPlace ==
  pc = "remove" =>
    curr = IF prev = NULL THEN free_lists[index] ELSE get_next_through_off(prev)

\* Every removal and every search returns.
WalkEnds == pc # "client" ~> pc = "client"

\* The sequence that the links of list i spell.
Chain(i) == CHOOSE s \in Chains : Spells(s, i)

Abstract ==
  INSTANCE FreeLists WITH
    h           <- [free_lists |-> [i \in Lists |-> Chain(i)],
                    block      |-> [b \in Blocks |-> [size |-> size[b]]]],
    found       <- {found} \ {NULL},
    Ascending   <- TRUE,
    MmapMayFail <- TRUE

\* As long as no distance was cut, the links and loops implement the sequences
\* and operators of Heap: an insertion and a removal change that block's place
\* alone, and a search returns the first best fit.
ImplementsFreeLists == Abstract!Init /\ [][~cut' => Abstract!Step]_vars
=============================================================================
