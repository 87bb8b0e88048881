------------------------------ MODULE FreeLists ------------------------------
(***************************************************************************)
(* The free lists as the rest of the project takes them: sequences of      *)
(* blocks, changed and searched at once by the operators of Heap. What     *)
(* FreeListLinks, which has the links and the loops, implements.           *)
(***************************************************************************)
EXTENDS Heap

CONSTANTS
  BlockSizes,    \* sizes that blocks take
  Totals         \* sizes that are searched for

VARIABLES
  h,       \* the part of a heap that the lists are: free_lists and block sizes
  found    \* what the last search returned: a set of at most one block

Init ==
  /\ h.free_lists = [i \in 0 .. N_LISTS - 1 |-> << >>]
  /\ found = {}

Put(b, size) ==
  /\ h' = put_block_in_free_list([h EXCEPT !.block[b].size = size], b, calculate_index(size))
  /\ UNCHANGED found

Remove(b) == h' = remove_from_free_list(h, b) /\ UNCHANGED found

\* best_fit, and the search of the last list alone that my_malloc makes after
\* it has requested a chunk.
Search(total) ==
  /\ \/ found' = best_fit(h, total)
     \/ found' = list_fit(h, h.free_lists[N_LISTS - 1], total)
  /\ UNCHANGED h

Next ==
  \/ \E b \in DOMAIN h.block, size \in BlockSizes : Put(b, size)
  \/ \E b \in DOMAIN h.block : Remove(b)
  \/ \E total \in Totals : Search(total)

Step == Next \/ UNCHANGED <<h, found>>
=============================================================================
