----------------------------- MODULE MCJobQueue -----------------------------
(* The queue with a polling worker and one drained by hand. *)
EXTENDS JobQueue

CONSTANTS j1, j2, w1, w2

(* j2 is urgent and does not search, like the owner's question; j1 is of a *)
(* lower priority, searches and may be deferred.                           *)
MCJobs      == {j1, j2}
MCWorkers   == {w1, w2}
MCDrainers  == {w2}
MCAnyHour   == {j2}
MCSearching == {j1}
MCPriority  == [j \in Jobs |-> IF j = j2 THEN 1 ELSE 4]
=============================================================================
