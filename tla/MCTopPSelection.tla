--------------------------- MODULE MCTopPSelection ---------------------------
(* Instances of TopPSelection for TLC.                                     *)
EXTENDS TopPSelection
CONSTANTS r1, r2

\* One rank, and two ranks with fewer scores each.
MCConfigs == {[tpSize |-> 1, scores |-> {0, 1, 3}], [tpSize |-> 2, scores |-> {0, 1}]}
=============================================================================
