------------------------------ MODULE MCEvidence ------------------------------
(* Two pages with a passage each, which may change places, and a passage   *)
(* that is nowhere; two hypotheses that state the same.                    *)
EXTENDS Evidence, TLC

CONSTANTS w1, w2, p1, p2, a, b, x, h1, h2, s1, n1

MCContents  == {{a}, {b}}
MCStatement == [h \in Hypotheses |-> s1]
MCSymmetry  == Permutations(Workers) \cup Permutations(Pages)
=============================================================================
