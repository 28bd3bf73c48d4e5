--------------------------- MODULE MCAsyncScheduler ---------------------------
(* Instances of AsyncScheduler for TLC.                                    *)
EXTENDS AsyncScheduler

CONSTANTS r1, r2, r3

\* The first request runs to max_tokens, the second to its EOS token, the
\* third to the end of the model's length.
MCPromptLen == (r1 :> 2) @@ (r2 :> 1) @@ (r3 :> 1)
MCMaxTokens == (r1 :> 2) @@ (r2 :> 9) @@ (r3 :> 9)
MCEosAt     == (r1 :> 0) @@ (r2 :> 4) @@ (r3 :> 0)
MCArrival   == (r1 :> 1) @@ (r2 :> 2) @@ (r3 :> 3)

Config(async, queue, maxResets) ==
  [asyncScheduling |-> async, batchQueueSize |-> queue, maxResets |-> maxResets]

\* Async scheduling, a pipeline of two stages, and resets with one step at a
\* time.
MCConfigs == {Config(TRUE, 2, 0), Config(FALSE, 2, 0), Config(FALSE, 1, 1)}
=============================================================================
