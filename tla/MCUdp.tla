-------------------------------- MODULE MCUdp --------------------------------
(* Instances of UdpSwitchSessionManager for TLC. *)
EXTENDS UdpSwitchSessionManager, TLC

CONSTANTS c1, c2, s1, s2, s3

Symmetry == Permutations(Sessions) \union Permutations(Clients)
ReadsClosed   == {TRUE}       \* freed memory keeps its last value
ReadsAnything == BOOLEAN      \* freed memory has been reused
=============================================================================
