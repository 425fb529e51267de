--------------------------- MODULE MCTimerManager ---------------------------
(* TimerManager on small instances. *)
EXTENDS TimerManager

\* Timer 1 is due at once, 2 and 3 later.
ThreeIntervals == <<0, 1, 1>>
=============================================================================
