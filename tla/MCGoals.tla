------------------------------- MODULE MCGoals -------------------------------
(* Two planners and four plans: enough for two side by side and two that   *)
(* build on what they left. Three rows of each kind, so that each bound of *)
(* two can be broken; one statement, so that any two goals are the same,   *)
(* and one hypothesis, so that any two programs may meet.                  *)
EXTENDS Goals, TLC

CONSTANTS w1, w2, g1, g2, g3, p1, p2, p3, h1

MCStatement == [g \in Goals |-> "s"]

MCSymmetry == Permutations(Planners) \cup Permutations(Goals) \cup Permutations(Programs)
=============================================================================
