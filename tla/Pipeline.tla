------------------------------ MODULE Pipeline ------------------------------
(***************************************************************************)
(* What the work queue promises to the roles and to the owner, with the    *)
(* workers, attempts, clocks and runs left out: a step that is asked for   *)
(* is taken exactly once or given up, and the steps that follow from it    *)
(* are asked for in the same instant, never lost and never doubled         *)
(* (src/collegium/jobs.py, module docstring).                              *)
(*                                                                         *)
(* JobQueue implements this specification; see JobQueue!Promise.           *)
(***************************************************************************)
CONSTANT Jobs    \* every step that may ever be asked for

VARIABLE step    \* step[j]: how far the step named j has come

Progress == {"unasked", "open", "taken", "given_up"}

(* Type invariant. *)
PipelineTypeOK == step \in [Jobs -> Progress]

Init == step = [j \in Jobs |-> "unasked"]

(* The owner, the scheduler or the Strategist asks for a step. *)
Ask(j) ==
    /\ step[j] = "unasked"
    /\ step' = [step EXCEPT ![j] = "open"]

(* The step is taken, and what follows from it is asked for. *)
Take(j, followUps) ==
    /\ step[j] = "open"
    /\ followUps \subseteq {k \in Jobs : step[k] = "unasked"}
    /\ step' = [k \in Jobs |-> IF k = j THEN "taken"
                               ELSE IF k \in followUps THEN "open"
                               ELSE step[k]]

(* Every attempt failed: the step is given up, and nothing follows. *)
GiveUp(j) ==
    /\ step[j] = "open"
    /\ step' = [step EXCEPT ![j] = "given_up"]

Next ==
    \E j \in Jobs :
        \/ Ask(j)
        \/ \E followUps \in SUBSET Jobs : Take(j, followUps)
        \/ GiveUp(j)

Spec == Init /\ [][Next]_step
=============================================================================
