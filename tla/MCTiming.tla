------------------------------ MODULE MCTiming ------------------------------
(* The instance of the run clock: a tick is 30 seconds. *)
EXTENDS Timing

ClockGaps == {2, 4, Never}

ClockJitters ==
    {[mode |-> "auto", length |-> 0], [mode |-> "disabled", length |-> 0],
     [mode |-> "fixed", length |-> 3]}

\* A token that says how long it lives, one that does not, and one too short
\* to be used a second time.
ClockGrants ==
    {[says |-> 5, lives |-> 5], [says |-> 0, lives |-> 4], [says |-> 3, lives |-> 3]}
=============================================================================
