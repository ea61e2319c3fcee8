--------------------------- MODULE MCTimerManager ---------------------------
(* An instance of TimerManager for TLC.                                    *)
EXTENDS TimerManager, TLC

(* A timer set to fire at once, and one that has to wait.                  *)
ZeroOne == {0, 1}
=============================================================================
