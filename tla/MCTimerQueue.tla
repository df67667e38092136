---------------------------- MODULE MCTimerQueue ----------------------------
(* Values for TLC: connections are interchangeable. *)
EXTENDS TimerQueue

Symmetry == Permutations(Conn)
=============================================================================
