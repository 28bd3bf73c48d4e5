------------------------ MODULE MCEncoderCacheManager ------------------------
(* Instances of EncoderCacheManager for TLC.                               *)
EXTENDS EncoderCacheManager

CONSTANTS r1, r2, r3, A, B, C

MCNumEmbeds == (A :> 2) @@ (B :> 3) @@ (C :> 1)

\* A request with both items, one with text before its items, and one that has the
\* same item twice.
Item(h, offset) == [hash |-> h, offset |-> offset]
MCFeatures == (r1 :> <<Item(A, 0), Item(B, 2)>>)
                @@ (r2 :> <<Item(B, 1), Item(C, 4)>>)
                @@ (r3 :> <<Item(C, 0), Item(A, 1), Item(C, 3)>>)
MCPromptLen == (r1 :> 6) @@ (r2 :> 5) @@ (r3 :> 5)
MCMaxTokens == (r1 :> 1) @@ (r2 :> 2) @@ (r3 :> 1)
=============================================================================
