------------------------ MODULE MCHarnessPromotions ------------------------
(* Two people; every scenario is of a class of its own. *)
EXTENDS HarnessPromotions
CONSTANTS p1, p2
ScenarioClass == [s \in Scenarios |-> s]
=============================================================================
