----------------------------- MODULE MCPublisher -----------------------------
(* The outbox on small instances. *)
EXTENDS Publisher

CONSTANTS g1, t1

(* Three comments: two fail verification and the third would follow. *)
KindsToVerify == <<"comment", "comment", "comment">>

(* A post and two votes for the same thing. *)
KindsWithVotes == <<"post", "vote", "vote">>

OneTarget == [p \in Rows |-> t1]
=============================================================================
