----------------------------- MODULE MCDeadlines -----------------------------
(* An instance of Deadlines for TLC.                                       *)
EXTENDS Deadlines

\* The clocks go forward at day 0 and back at day 4.
MCDays == -1..5
MCOffset == [d \in MCDays |-> IF d \in 0..3 THEN 2 ELSE 1]

\* A vehicle with two deadlines, alone or before one with a third, on the days
\* that make a difference to the thresholds 1 and 3.
SomeDeadlines == [dueDate: {0, 2, 4}, paused: BOOLEAN]
Third == [dueDate |-> 2, paused |-> FALSE]
MCGarages ==
    {<<<<d, e>>, b>> : d, e \in SomeDeadlines, b \in {<<>>, <<Third>>}}
=============================================================================
