----------------------------- MODULE MCHostPort -----------------------------
(* HostPort on small instances: idle and one more task, there at boot or     *)
(* created later.                                                            *)
EXTENDS HostPort

CONSTANTS t0, t1

OnlyIdle    == {t0}
TwoTasks    == {t0, t1}
=============================================================================
