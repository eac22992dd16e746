----------------------------- MODULE MCCommunity -----------------------------
(* Two workers may draft about the same thing at once. With MCOne there is *)
(* one comment in our own threads; with MCTwo another comes after it, which *)
(* is for the order in which they are offered.                             *)
EXTENDS Community, TLC

CONSTANTS w1, w2, t1, t2, o1, h1

MCOne == <<t1>>
MCTwo == <<t1, t2>>
MCSymmetry == Permutations(Workers)
=============================================================================
