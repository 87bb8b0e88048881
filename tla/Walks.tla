-------------------------------- MODULE Walks --------------------------------
(***************************************************************************)
(* Loops along a structure in memory that has a next element for each.     *)
(***************************************************************************)
EXTENDS Integers, Sequences

NULL == 0

Elements(s) == {s[k] : k \in DOMAIN s}

\* s and the element that follows its last one in "next"; s alone where a loop
\* along "next" ends: at NULL, at an element met before, or where it has left
\* the structure, outside of DOMAIN next.
Extend(next, s) ==
  IF s = << >> \/ s[Len(s)] \notin DOMAIN next THEN s
  ELSE LET x == next[s[Len(s)]]
       IN  IF x = NULL \/ x \in Elements(s) THEN s ELSE Append(s, x)

\* The elements met from p on; "limit" bounds their number.
Follow(next, p, limit) ==
  LET walk[k \in 0 .. limit] ==
        IF k = 0 THEN IF p = NULL THEN << >> ELSE <<p>> ELSE Extend(next, walk[k - 1])
  IN  walk[limit]
=============================================================================
