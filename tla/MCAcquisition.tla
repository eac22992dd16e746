---------------------------- MODULE MCAcquisition ----------------------------
(* Two workers. Two articles on one site and a page that is never paid for; *)
(* calls enough for a race on the last of the budget, for paying for a page *)
(* side by side, and for a site to be closed.                               *)
EXTENDS Acquisition, TLC

CONSTANTS w1, w2, c1, c2, c3, p1, p2, p3, s1, s2

MCSite == [p \in Pages |-> IF p = p3 THEN s2 ELSE s1]

MCSymmetry == Permutations(Workers) \cup Permutations(Calls) \cup Permutations({p1, p2})
=============================================================================
