----------------------------- MODULE Allocator ------------------------------
(***************************************************************************)
(* What my_malloc and my_free promise their caller (src/mymalloc.h:85-86): *)
(* a pointer handed out is aligned and owns the bytes asked for, with room *)
(* for the bookkeeping on either side, disjoint from all that is handed    *)
(* out already; what it owns does not move until it is freed.              *)
(***************************************************************************)
EXTENDS Integers

CONSTANTS
  Addr,     \* addresses
  Sizes,    \* sizes that are asked for
  Header,   \* bytes of bookkeeping below a pointer
  Footer,   \* bytes of bookkeeping above the bytes asked for
  Align     \* of a pointer

VARIABLE live   \* pointer handed out -> bytes asked for

Apart(p, n, q) == p + n + Footer <= q - Header \/ q + live[q] + Footer <= p - Header

Init == live = [p \in {} |-> 0]

Malloc(n) ==
  \E p \in Addr \ DOMAIN live :
    /\ p % Align = 0
    /\ \A q \in DOMAIN live : Apart(p, n, q)
    /\ live' = [q \in DOMAIN live \cup {p} |-> IF q = p THEN n ELSE live[q]]

Free(p) == live' = [q \in DOMAIN live \ {p} |-> live[q]]

Next ==
  \/ \E n \in Sizes : Malloc(n)
  \/ \E p \in DOMAIN live : Free(p)

Spec == Init /\ [][Next]_live
=============================================================================
