--------------------------- MODULE MCRecoveryGraph ----------------------------
(* Small instances of RecoveryGraph.                                          *)
EXTENDS RecoveryGraph, TLC

\* Limits below one, of one, one whose six supersteps are just the six of the
\* configuration, and one that needs more.
MCAttemptLimits == {0, 1, 2, 3}
===============================================================================
