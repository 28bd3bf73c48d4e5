----------------------------- MODULE MCScheduler -----------------------------
(* Instances of Scheduler for TLC.                                         *)
EXTENDS Scheduler, TLC

CONSTANTS r1, r2, r3

\* Two long prompts and a short one; who comes later is more urgent.  The first
\* two begin with the same token.
MCStream    == (r1 :> <<"a", "b", "c", "d", "e", "f">>)
                 @@ (r2 :> <<"a", "v", "w", "x", "y">>) @@ (r3 :> <<"x", "y">>)
MCPromptLen == (r1 :> 3) @@ (r2 :> 3) @@ (r3 :> 1)
MCArrival   == (r1 :> 1) @@ (r2 :> 2) @@ (r3 :> 3)
MCPriority  == (r1 :> 3) @@ (r2 :> 2) @@ (r3 :> 1)

\* The same with two requests and a longer prompt.
MCStream2    == (r1 :> <<"a", "b", "c", "d", "e", "f", "g", "h">>) @@ (r2 :> <<"u", "v", "w">>)
MCPromptLen2 == (r1 :> 7) @@ (r2 :> 1)
MCArrival2   == (r1 :> 1) @@ (r2 :> 2)
MCPriority2  == (r1 :> 2) @@ (r2 :> 1)

\* The hashes of an instance: the prefixes of its streams.
Prefixes(stream) == UNION {{SubSeq(stream[r], 1, n) : n \in 1 .. Len(stream[r])} : r \in DOMAIN stream}
MCHashes  == Prefixes(MCStream)
MCHashes2 == Prefixes(MCStream2)

Config(policy, maxTokens, maxReqs, threshold, skip) ==
  [policy |-> policy, maxScheduledTokens |-> maxTokens, maxRunningReqs |-> maxReqs,
   longPrefillThreshold |-> threshold, chunkedPrefill |-> TRUE, skipReading |-> skip]

\* First come first served with prefix caching; by priority, with requests that
\* do not read the cache.  In the last the budget is short: r2 gets the token that
\* r1 leaves it, and when r1 is then taken back for it, does not get more.
MCConfigs         == {Config("fcfs", 2, 2, 0, {}), Config("priority", 3, 3, 2, Requests),
                      Config("priority", 2, 2, 0, Requests)}

\* By priority with prefix caching.
MCPriorityConfigs == {Config("priority", 3, 3, 2, {})}
=============================================================================
