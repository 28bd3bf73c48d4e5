--------------------------- MODULE MCDPCoordinator ---------------------------
(* Instances of DPCoordinator for TLC.                                     *)
EXTENDS DPCoordinator, TLC
CONSTANTS f1, f2, r1, r2

\* The requests come in at different front ends.
MCFrontend == (r1 :> f1) @@ (r2 :> f2)
=============================================================================
