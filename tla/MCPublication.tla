---------------------------- MODULE MCPublication ----------------------------
(* Publications on small instances. *)
EXTENDS Publication

CONSTANTS s1, s2

OneSarco == {s1}
TwoSarcos == {s1, s2}
SomeFaults == {"rpc", "lostAnswer"}

=============================================================================
