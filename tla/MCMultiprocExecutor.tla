------------------------- MODULE MCMultiprocExecutor -------------------------
(* Instances of MultiprocExecutor for TLC.                                 *)
EXTENDS MultiprocExecutor

StepOnly == {"step"}
NoKind   == {}

Config(ring, outstanding, async, deaths) ==
  [ringSize |-> ring, maxOutstanding |-> outstanding, asyncOutput |-> async,
   maxDeaths |-> deaths]

\* Workers that die, with a ring that never fills; the smallest ring with as
\* many pending steps as it bears; and more of them with an output thread.
MCConfigs == {Config(3, 2, FALSE, 1), Config(1, 2, FALSE, 0), Config(1, 4, TRUE, 0)}
=============================================================================
