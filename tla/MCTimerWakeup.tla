---------------------------- MODULE MCTimerWakeup ----------------------------
(* Small instances of TimerWakeup for TLC.                                 *)
EXTENDS TimerWakeup, TLC

Symmetric == Permutations(Workers) \cup Permutations(Others)
=============================================================================
