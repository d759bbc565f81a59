----------------------------- MODULE MCService -----------------------------
(* The service on small instances. *)
EXTENDS ArchaeologistService

CONSTANTS s1, s2

OneSarco == {s1}
TwoSarcos == {s1, s2}
TwoTimes == {1, 2}
NoFaults == {}
ClockBehind == -1

=============================================================================
