---------------------------- MODULE MCShmBroadcast ----------------------------
(* Instances of ShmBroadcast for TLC: the readers are model values.        *)
EXTENDS ShmBroadcast
CONSTANTS l1, l2, f1
=============================================================================
