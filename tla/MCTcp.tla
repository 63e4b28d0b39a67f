-------------------------------- MODULE MCTcp --------------------------------
(* Instances of TcpSwitchSessionManager for TLC. *)
EXTENDS TcpSwitchSessionManager, TLC

CONSTANTS s1, s2, s3

Symmetry == Permutations(Sessions)
ReadsClosed   == {TRUE}       \* freed memory keeps its last value
ReadsAnything == BOOLEAN      \* freed memory has been reused
=============================================================================
