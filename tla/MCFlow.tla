-------------------------------- MODULE MCFlow --------------------------------
(* Instances of FlowStatistics for TLC. *)
EXTENDS FlowStatistics

CONSTANTS t1, t2
=============================================================================
