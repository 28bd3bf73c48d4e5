--------------------------- MODULE MCKVCacheManager ---------------------------
(* Instances of KVCacheManager for TLC.                                    *)
EXTENDS KVCacheManager, TLC

CONSTANTS r1, r2

\* Two requests with a common first block (of size 2) that part in the second.  The
\* prompt of r2 is too short for a hit: it computes the common block itself, unless
\* it has been preempted when it was longer.
MCStream    == (r1 :> <<"a", "b", "c", "d", "e", "f">>) @@ (r2 :> <<"a", "b", "c", "x", "y">>)
MCPromptLen == (r1 :> 4) @@ (r2 :> 2)

\* The hashes of the instance: the prefixes of its streams.
MCHashes == UNION {{SubSeq(MCStream[r], 1, n) : n \in 1 .. Len(MCStream[r])} : r \in {r1, r2}}
=============================================================================
