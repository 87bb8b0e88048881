----------------------------- MODULE MCRawMalloc -----------------------------
(***************************************************************************)
(* Small instances of RawMalloc. A unit of 144 bytes gives chunks of 96    *)
(* and 240 bytes, three blocks of 32 or one of 32 and one of 64.           *)
(***************************************************************************)
EXTENDS RawMalloc

AdjacentBases == {1000, 1144}

\* 8 and 40: blocks of 32 and 64 bytes.
RawRequests == {0, 8, 40, 300}

NoMishap == {"none"}
MergesApart == {"none", "apart"}
OneSize == {8}
=============================================================================
