--------------------------- MODULE MCCritiqueLoop ---------------------------
(* A hypothesis and one that refines it. *)
EXTENDS CritiqueLoop

CONSTANTS h1, h2, c1, c2, s1, s2

MCRefines  == {<<h2, h1>>}

(* h1 draws a fatal and a serious critique. *)
MCOf       == [c \in Critiques |-> h1]
MCSeverity == [c \in Critiques |-> IF c = c1 THEN 5 ELSE 3]
=============================================================================
