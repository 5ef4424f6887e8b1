-------------------------- MODULE MCWeeklyRebalance --------------------------
(* Small instances of the weekly runners. *)
EXTENDS WeeklyRebalanceProps, TLC

CONSTANTS s1, s2

\* Two weeks of two days, numbered apart from the days.
MCWeekOf == [d \in 0..3 |-> IF d < 2 THEN 10 ELSE 20]

Symmetry == Permutations(Symbols)
=============================================================================
