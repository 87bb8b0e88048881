----------------------------- MODULE MCMyMalloc -----------------------------
(***************************************************************************)
(* Small instances of MyMalloc. A unit of 112 bytes gives chunks of 96 and *)
(* 208 bytes; with 8 lists the last one holds the blocks of 56 or more.    *)
(***************************************************************************)
EXTENDS MyMalloc

\* A mapping of one unit at 1000 is followed directly by the one at 1112:
\* neighbours in memory that belong to different chunks. One of two units
\* leaves no room for another chunk.
AdjacentBases == {1000, 1112}

\* 5 and 24: blocks of 40 and 56 bytes, so that the rest of a split is below,
\* at and above the 40 bytes a block needs; 64: all of a chunk of one unit;
\* 96: a block that needs two units; 209: more than the allocator serves.
MixedRequests == {0, 5, 24, 64, 96, 209}

\* 80: a block of 112 bytes, which a unit holds and a chunk of one unit does not.
EdgeRequests == {8, 80}

\* Outside of all mappings, and the first words after a chunk of one unit.
FarPtrs  == {2000}
EdgePtrs == {1112, 1120}
=============================================================================
