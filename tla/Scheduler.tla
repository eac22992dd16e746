----------------------------- MODULE Scheduler -----------------------------
(***************************************************************************)
(* The scheduler process (src/collegium/scheduler.py) over the work queue: *)
(* on each working day it asks the Strategist to plan each active domain.  *)
(* The jobs of this module are all planning jobs ("strategize"); what a    *)
(* plan enqueues is other work and lies outside it.                        *)
(*                                                                         *)
(* A row of Jobs stands for one planning job at a time: once that job has  *)
(* settled, its day has passed and no worker has it in hand, no statement  *)
(* reads the row again, and a new job may take its place (Free).           *)
(***************************************************************************)
EXTENDS JobQueue

CONSTANTS
    Domains,    \* the domains of research
    DomainOf,   \* [Jobs -> Domains], the domain_id of each job's payload
    MaxRequests \* bound on how often the owner asks for a plan

ASSUME SchedulerAssumption ==
    /\ DomainOf \in [Jobs -> Domains]
    /\ MaxRequests \in Nat

VARIABLES
    active,     \* is the domain's status 'active'?
    today,      \* was the job created since start_of_workday?
    scheduled,  \* history: was the job asked for by the scheduler?
    requests    \* history: how often the owner has asked

schedulerVars == <<vars, active, today, scheduled, requests>>

SchedulerInit ==
    /\ Init
    /\ active \in [Domains -> BOOLEAN]
    /\ today = [j \in Jobs |-> FALSE]
    /\ scheduled = [j \in Jobs |-> FALSE]
    /\ requests = 0

Plans(d)   == {j \in Jobs : DomainOf[j] = d}
Waiting(d) == {j \in Plans(d) : status[j] \in {"pending", "running"}}

(* A row for a new job: none yet, or one that no statement reads any more. *)
Free(j) ==
    \/ status[j] = "absent"
    \/ status[j] \in Settled /\ ~today[j] /\ \A w \in Workers : ~Holds(w, j)

InsertPlans(new, byScheduler) ==
    /\ \A j \in new : Free(j)
    /\ status'   = [j \in Jobs |-> IF j \in new THEN "pending" ELSE status[j]]
    /\ attempts' = [j \in Jobs |-> IF j \in new THEN 0 ELSE attempts[j]]
    /\ due'      = [j \in Jobs |-> j \in new \/ due[j]]
    /\ lastRun'  = [j \in Jobs |-> IF j \in new THEN "none" ELSE lastRun[j]]
    /\ steps'    = [j \in Jobs |-> IF j \in new THEN 0 ELSE steps[j]]
    /\ today'    = [j \in Jobs |-> j \in new \/ today[j]]
    /\ scheduled' = [j \in Jobs |-> IF j \in new THEN byScheduler ELSE scheduled[j]]
    /\ UNCHANGED stale

\* Mutated forms of PlannedToday: only the jobs created today are looked at;
\* every job there ever was is.
PlannedToday_Created(d) == \E j \in Plans(d) : today[j]
PlannedToday_Ever(d)    == \E j \in Plans(d) : status[j] # "absent"

(* The SELECT of tick: a plan waits, runs, or was asked for today. *)
PlannedToday(d) == \E j \in Plans(d) : status[j] \in {"pending", "running"} \/ today[j]

(* tick, in one transaction: one new job for each active domain without a  *)
(* plan today.                                                             *)
Unplanned == {d \in Domains : active[d] /\ ~PlannedToday(d)}

Tick(new) ==
    /\ open
    /\ Unplanned # {}
    /\ {DomainOf[j] : j \in new} = Unplanned
    /\ \A j, k \in new : DomainOf[j] = DomainOf[k] => j = k
    /\ InsertPlans(new, TRUE)
    /\ UNCHANGED <<workerVars, open, active, requests>>

(* The owner asks for a plan now, whether or not one waits or runs. These  *)
(* jobs go first, so that only finitely many of them leave the others a    *)
(* turn.                                                                   *)
RequestWork(j) ==
    /\ requests < MaxRequests
    /\ active[DomainOf[j]]
    /\ InsertPlans({j}, FALSE)
    /\ requests' = requests + 1
    /\ UNCHANGED <<workerVars, open, active>>

(* The owner activates, pauses or retires a domain. *)
SetDomainStatus(d) ==
    /\ active' = [active EXCEPT ![d] = ~@]
    /\ UNCHANGED <<vars, today, scheduled, requests>>

(* Midnight, at the start of the local day. *)
NewDay ==
    /\ today' = [j \in Jobs |-> FALSE]
    /\ UNCHANGED <<vars, active, scheduled, requests>>

QueueStep ==
    /\ \/ \E j \in Jobs : BecomeDue(j) \/ BecomeStale(j)
       \/ \E w \in Workers, j \in Jobs : Claim(w, j)
       \/ \E w \in Workers :
             (\E acked \in Acks : Commit(w, {}, acked)) \/ WorkerStep(w)
       \/ OpenOrClose
    /\ UNCHANGED <<active, today, scheduled, requests>>

SchedulerNext ==
    \/ \E new \in SUBSET Jobs : Tick(new)
    \/ \E j \in Jobs : RequestWork(j)
    \/ \E d \in Domains : SetDomainStatus(d)
    \/ NewDay
    \/ QueueStep

SchedulerSpec == SchedulerInit /\ [][SchedulerNext]_schedulerVars

(* Days pass. The scheduler looks once a minute while it runs, and hours   *)
(* close between: strong fairness. The workers are as fair as JobQueue     *)
(* has them.                                                               *)
SchedulerFairness ==
    /\ Fairness
    /\ WF_schedulerVars(NewDay)
    /\ SF_schedulerVars(\E new \in SUBSET Jobs : Tick(new))

SchedulerFairSpec == SchedulerSpec /\ SchedulerFairness
-----------------------------------------------------------------------------
(* Properties.                                                             *)

(* However its jobs fail, are deferred over midnight or are taken over, a  *)
(* domain never has two plans of the scheduler under way, nor two of one   *)
(* day. A plan that was carried out, and put back only because the answer  *)
(* to its commit was lost, is not counted as under way.                    *)
OneScheduledPlan ==
    \A d \in Domains :
        LET mine == {j \in Plans(d) : scheduled[j]} IN
        /\ Cardinality({j \in mine \cap Waiting(d) : steps[j] = 0}) <= 1
        /\ Cardinality({j \in mine : today[j]}) <= 1

(* A planning job was left running when its worker died on the last        *)
(* attempt.                                                                *)
PlanLost(d) == \E j \in Plans(d) : LostOnLastAttempt(j)

(* An active domain is planned again and again, whatever becomes of its    *)
(* plans, unless one of them is lost on its last attempt.                  *)
PlannedAgain ==
    \A d \in Domains :
        []<>(~active[d] \/ PlanLost(d) \/ \E j \in Plans(d) : today[j])
=============================================================================
