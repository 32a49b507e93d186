---------------------------- MODULE MCScheduler ----------------------------
(***************************************************************************)
(* Instances of Scheduler for TLC: two kinds of rules and three wall       *)
(* clocks on a short horizon.                                              *)
(***************************************************************************)
EXTENDS Scheduler, TLC

\* "often" and "rarely" share one occurrence; both fired once before StartAt.
DueTwoRules == [r \in Rules |-> IF r = "often" THEN {0, 2, 3} ELSE {0, 3}]

\* The same in a zone three hours west: local time is behind the instant.
DueWest == [r \in Rules |-> {-3, 3}]

\* A zone with no change of offset.
Plain  == [i \in Instants |-> 0]
\* Autumn: the clock goes back by two at instant 4, local 2 and 3 come twice.
Autumn == [i \in Instants |-> IF i < 4 THEN 0 ELSE -2]
\* Spring, west of Greenwich: local time 3 never comes.
Spring == [i \in Instants |-> IF i < 6 THEN -3 ELSE -2]

Symmetry == Permutations(Skills)

=============================================================================
