--------------------------- MODULE MCFreeListLinks ---------------------------
(***************************************************************************)
(* Small instances of FreeListLinks: three blocks, and 8 lists, so that    *)
(* blocks of 40 bytes have a list of their own, those of 56 and 64 share   *)
(* the last one, and the list between is empty.                            *)
(***************************************************************************)
EXTENDS FreeListLinks

OneBase == {1000}

\* From the first to the last it is 128 bytes: the offsets of 8 bits reach from
\* the last to the first, and not from the first to the last.
ThreeBlocks == {1016, 1072, 1144}

ThreeSizes == {40, 56, 64}

\* A size of the first list, one of the last, and one that no block has.
ThreeTotals == {40, 56, 72}
=============================================================================
