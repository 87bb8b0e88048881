------------------------------- MODULE MCMyGC --------------------------------
(***************************************************************************)
(* Small instances of MyGC. In a chunk of 160 bytes there is room for      *)
(* three blocks of 40 bytes, or for one of 56 and two of 40; in one of 208 *)
(* for two of 56 and two of 40.                                            *)
(***************************************************************************)
EXTENDS MyGC

OneBase == {1000}

\* 8 and 24: blocks of 40 and 56 bytes; nothing, and more than is served.
GcRequests == {0, 8, 24, 216}

NoMishap   == {"none"}
FreesTwice == {"none", "second_free"}
LinksLeft  == {"none", "stale_link"}
=============================================================================
