------------------------------ MODULE MCAnswers ------------------------------
(* Two hypotheses and an observation, recalled twice, and an answer of two *)
(* points: enough for a record found twice, for numbers that go on from    *)
(* one recall and from one point to the next, and for a hypothesis decided *)
(* in between.                                                             *)
EXTENDS Answers, TLC

CONSTANTS h1, h2, o1

MCSymmetry == Permutations(Hypotheses)
=============================================================================
