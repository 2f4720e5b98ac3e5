------------------------------ MODULE MCTimers ------------------------------
(* Instances of Timers for TLC. *)
EXTENDS Timers

OneAddress == {1}

TwoAddresses == {1, 2}

\* Off, and two intervals to switch between.
MCIntervals == {0, 1, 2}
=============================================================================
