---------------------------- MODULE MCScheduler ----------------------------
(* One polling worker and one domain: a scheduled plan and one the owner   *)
(* asked for may be under way together.                                    *)
EXTENDS Scheduler

CONSTANTS j1, j2, w1, d1

MCPriority   == [j \in Jobs |-> IF j = j2 THEN 2 ELSE 3]
MCOneDomain  == [j \in Jobs |-> d1]
=============================================================================
