-------------------------- MODULE MCOutcomeTracker --------------------------
(***************************************************************************)
(* OutcomeTracker on two tokens and a clock of a few ticks.                *)
(***************************************************************************)
EXTENDS OutcomeTracker

\* Three intervals of growing length, as in SNAPSHOT_INTERVALS.
SmallIntervals == <<1, 2, 4>>
=============================================================================
