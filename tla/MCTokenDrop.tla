----------------------------- MODULE MCTokenDrop -----------------------------
(* Instances of TokenDrop for TLC. *)
EXTENDS TokenDrop, TLC

CONSTANTS r1, r2

\* Two prompts, both longer than a threshold of 2.
MCBothLong    == (r1 :> 5) @@ (r2 :> 4)
MCBothLongMax == (r1 :> 7) @@ (r2 :> 6)

\* A long prompt, and one that never drops a token on its own.
MCOneShort    == (r1 :> 4) @@ (r2 :> 2)
MCOneShortMax == (r1 :> 6) @@ (r2 :> 5)

\* Whole prompts without preemption, also with a sliding layer before the drops,
\* and, under a threshold that a step never reaches, everything the scheduler does
\* with sliding layers anywhere.
Config(sink, chunked, preemption, sliding) ==
  [attentionSink |-> sink, lastQ |-> 1, sliding |-> sliding, slidingWindow |-> 2,
   chunkedPrefill |-> chunked, preemption |-> preemption]
MCConfigs == {Config(1, FALSE, FALSE, {}), Config(1, FALSE, FALSE, {0}),
              Config(12, TRUE, TRUE, {0, 3})}

\* Whole prompts, of which one may be short.
MCWholePrompts == {Config(1, FALSE, FALSE, {})}

\* The drop layers of a model of four layers, spread as in LlamaModel.
MCDropLayers == {1, 2}
=============================================================================
