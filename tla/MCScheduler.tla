---------------------------- MODULE MCScheduler ----------------------------
(* The scheduler on small instances. *)
EXTENDS Scheduler

CONSTANTS s1, s2, c1

MCSarcos == {s1, s2}
MCContexts == {c1}
MCTimes == {1, 3}

=============================================================================
