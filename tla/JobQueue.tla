------------------------------ MODULE JobQueue ------------------------------
(***************************************************************************)
(* The work queue (the jobs table and src/collegium/jobs.py) and the       *)
(* worker processes that take from it (src/collegium/worker.py).           *)
(*                                                                         *)
(* Every database transaction is one action; what a worker does outside a  *)
(* transaction (a role's searches, reading and model calls) lies between   *)
(* two actions, where other workers run and where this one may die.        *)
(*                                                                         *)
(* Clocks are abstracted to the two comparisons the claim makes: a pending *)
(* job is "due" once its run_after has passed, and a running job is        *)
(* "stale" once its started_at is older than STALE_AFTER. What a role      *)
(* writes is abstracted to the fact that it was written, and to the jobs   *)
(* it enqueues.                                                            *)
(***************************************************************************)
EXTENDS Integers, FiniteSets

CONSTANTS
    Jobs,             \* every job row that may ever be inserted
    NoJob,            \* what a worker holds between jobs
    Workers,          \* worker processes
    Drainers,         \* those started by hand with --drain: they mind no hours
    MaxAttempts,      \* jobs.max_attempts (3 by default)
    Priority,         \* [Jobs -> 1..5], a lower number is claimed first
    AnyHour,          \* jobs of the kinds in worker.ANY_HOUR
    Searching,        \* jobs whose role searches (role.searches_for)
    RunsOutliveStale, \* may a run last longer than STALE_AFTER?
    AcksGetLost,      \* may the connection drop between COMMIT and its answer?
    AttemptCap        \* bound on attempts, only ever reached when either may

ASSUME JobQueueAssumption ==
    /\ NoJob \notin Jobs
    /\ Drainers \subseteq Workers
    /\ MaxAttempts \in Nat \ {0}
    /\ AttemptCap \in Nat /\ AttemptCap >= MaxAttempts
    /\ Priority \in [Jobs -> 1..5]
    /\ AnyHour \subseteq Jobs
    /\ Searching \subseteq Jobs
    /\ RunsOutliveStale \in BOOLEAN
    /\ AcksGetLost \in BOOLEAN

VARIABLES
    \* the jobs table
    status,     \* "absent" until the row is inserted, then jobs.status
    attempts,   \* jobs.attempts
    due,        \* has run_after passed?
    stale,      \* is started_at older than STALE_AFTER?
    lastRun,    \* status of the run that jobs.run_id points to
    \* the worker processes
    pc,         \* where each worker is
    holding,    \* the job row it last claimed
    snapshot,   \* Job.attempts as the claim returned it
    open,       \* are we within working hours?
    \* history
    steps       \* how often the job's knowledge was committed, as far as counted

jobVars    == <<status, attempts, due, stale, lastRun>>
workerVars == <<pc, holding, snapshot>>
vars       == <<jobVars, workerVars, open, steps>>

Statuses == {"absent", "pending", "running", "succeeded", "failed"}
Settled  == {"succeeded", "failed"}

(* "claimed": claimed, its run not yet started; "working": its run started; *)
(* "unacked": the transaction of that run committed, but no answer came.   *)
Places == {"idle", "claimed", "working", "unacked", "down"}

(* Type invariant: every column, and every variable of a worker, takes only *)
(* values the table and the code know.                                     *)
TypeOK ==
    /\ status   \in [Jobs -> Statuses]
    /\ attempts \in [Jobs -> 0..AttemptCap]
    /\ due      \in [Jobs -> BOOLEAN]
    /\ stale    \in [Jobs -> BOOLEAN]
    /\ lastRun  \in [Jobs -> {"none", "succeeded", "failed"}]
    /\ pc       \in [Workers -> Places]
    /\ holding  \in [Workers -> Jobs \cup {NoJob}]
    /\ snapshot \in [Workers -> 0..AttemptCap]
    /\ open     \in BOOLEAN
    /\ steps    \in [Jobs -> 0..AttemptCap + 1]

Busy(w)     == pc[w] \in {"claimed", "working", "unacked"}
Holds(w, j) == holding[w] = j

Init ==
    /\ status   = [j \in Jobs |-> "absent"]
    /\ attempts = [j \in Jobs |-> 0]
    /\ due      = [j \in Jobs |-> FALSE]
    /\ stale    = [j \in Jobs |-> FALSE]
    /\ lastRun  = [j \in Jobs |-> "none"]
    /\ pc       = [w \in Workers |-> "idle"]
    /\ holding  = [w \in Workers |-> NoJob]
    /\ snapshot = [w \in Workers |-> 0]
    /\ open     \in BOOLEAN
    /\ steps    = [j \in Jobs |-> 0]
-----------------------------------------------------------------------------
(* The statements of jobs.py, each on one row.                             *)

(* enqueue: the row starts pending and due at once (run_after is now()).   *)
Inserted(new) ==
    /\ new \subseteq {j \in Jobs : status[j] = "absent"}
    /\ due' = [j \in Jobs |-> due[j] \/ j \in new]

\* Mutated forms of Claimable: no staleness check, no attempt limit, no takeover.
Claimable_AnyRunning(j) ==
    \/ status[j] = "pending" /\ due[j]
    \/ status[j] = "running" /\ attempts[j] < MaxAttempts
Claimable_NoLimit(j) ==
    \/ status[j] = "pending" /\ due[j]
    \/ status[j] = "running" /\ stale[j]
Claimable_NoTakeover(j) == status[j] = "pending" /\ due[j]

(* claim's WHERE clause: due, or left running by a worker taken for dead.  *)
Claimable(j) ==
    \/ status[j] = "pending" /\ due[j]
    \/ status[j] = "running" /\ stale[j] /\ attempts[j] < MaxAttempts

\* claim's RETURNING clause: the row as it is after the update.
CopyOf_BeforeUpdate(j) == attempts[j]
CopyOf(j) == attempts[j] + 1

(* defer: put back without counting the attempt; run_id is left alone.     *)
PutBack(j, as) ==
    /\ status'   = [status EXCEPT ![j] = as]
    /\ attempts' = [attempts EXCEPT ![j] = IF @ = 0 THEN 0 ELSE @ - 1]
    /\ due'      = [due EXCEPT ![j] = FALSE]
    /\ stale'    = [stale EXCEPT ![j] = FALSE]
    /\ UNCHANGED lastRun

\* Mutated forms of FailJob: giving up leaves run_id on an earlier run; the
\* attempt is handed back, as defer does.
FailJob_KeepsRun(j, seen) ==
    /\ status'  = [status EXCEPT ![j] = IF seen < MaxAttempts THEN "pending" ELSE "failed"]
    /\ due'     = [due EXCEPT ![j] = FALSE]
    /\ stale'   = [stale EXCEPT ![j] = FALSE]
    /\ UNCHANGED <<attempts, lastRun>>

FailJob_HandsBack(j, seen) ==
    /\ status'   = [status EXCEPT ![j] = IF seen < MaxAttempts THEN "pending" ELSE "failed"]
    /\ attempts' = [attempts EXCEPT ![j] = IF @ = 0 THEN 0 ELSE @ - 1]
    /\ due'      = [due EXCEPT ![j] = FALSE]
    /\ stale'    = [stale EXCEPT ![j] = FALSE]
    /\ lastRun'  = [lastRun EXCEPT ![j] = "failed"]

(* fail: retried later, or given up, by the attempts of the claimed copy.  *)
FailJob(j, seen) ==
    /\ status'  = [status EXCEPT ![j] = IF seen < MaxAttempts THEN "pending" ELSE "failed"]
    /\ due'     = [due EXCEPT ![j] = FALSE]
    /\ stale'   = [stale EXCEPT ![j] = FALSE]
    /\ lastRun' = [lastRun EXCEPT ![j] = "failed"]
    /\ UNCHANGED attempts

DeferJob(j) == PutBack(j, "pending")

(* succeed, with the follow-up jobs of the same transaction.               *)
SucceedJob(j, followUps) ==
    /\ Inserted(followUps)
    /\ status'  = [k \in Jobs |-> IF k = j THEN "succeeded"
                                  ELSE IF k \in followUps THEN "pending"
                                  ELSE status[k]]
    /\ stale'   = [stale EXCEPT ![j] = FALSE]
    /\ lastRun' = [lastRun EXCEPT ![j] = "succeeded"]
    /\ UNCHANGED attempts

(* The worker lets go of its copy of the row.                              *)
LetGo(w, place) ==
    /\ pc'       = [pc EXCEPT ![w] = place]
    /\ holding'  = [holding EXCEPT ![w] = NoJob]
    /\ snapshot' = [snapshot EXCEPT ![w] = 0]
-----------------------------------------------------------------------------
(* The owner, the scheduler or the web board inserts a job. *)
Enqueue(j) ==
    /\ Inserted({j})
    /\ status' = [status EXCEPT ![j] = "pending"]
    /\ UNCHANGED <<attempts, stale, lastRun, workerVars, open, steps>>

(* claim, by run_once: of the claimable jobs of the kinds allowed now, one *)
(* that no other precedes in priority. FOR UPDATE SKIP LOCKED makes the    *)
(* statement atomic between workers.                                       *)
Takes(w, j)  == open \/ w \in Drainers \/ j \in AnyHour
Offered(w)   == {j \in Jobs : Claimable(j) /\ Takes(w, j)}

Claim(w, j) ==
    /\ pc[w] = "idle"
    /\ j \in Offered(w)
    /\ \A k \in Offered(w) : Priority[j] <= Priority[k]
    /\ attempts[j] < AttemptCap
    /\ status'   = [status EXCEPT ![j] = "running"]
    /\ attempts' = [attempts EXCEPT ![j] = @ + 1]
    /\ due'      = [due EXCEPT ![j] = FALSE]
    /\ stale'    = [stale EXCEPT ![j] = FALSE]
    /\ pc'       = [pc EXCEPT ![w] = "claimed"]
    /\ holding'  = [holding EXCEPT ![w] = j]
    /\ snapshot' = [snapshot EXCEPT ![w] = CopyOf(j)]
    /\ UNCHANGED <<lastRun, open, steps>>

(* _run_claimed_job, before any run: too few paid calls are left to start. *)
WaitForBudget(w) ==
    /\ pc[w] = "claimed"
    /\ holding[w] \in Searching
    /\ DeferJob(holding[w])
    /\ LetGo(w, "idle")
    /\ UNCHANGED <<open, steps>>

(* start_run, in a transaction of its own. *)
StartRun(w) ==
    /\ pc[w] = "claimed"
    /\ pc' = [pc EXCEPT ![w] = "working"]
    /\ UNCHANGED <<jobVars, holding, snapshot, open, steps>>

(* Whether the worker learns that its transaction committed: unless a lost *)
(* connection is assumed away, it may not.                                 *)
Acks == IF AcksGetLost THEN BOOLEAN ELSE {TRUE}

(* What the job's role wrote is there once more. *)
Written(j) == steps' = [steps EXCEPT ![j] = IF @ > AttemptCap THEN @ ELSE @ + 1]

(* The worker is done with the job, or is left with an exception.          *)
Answered(w, acked) ==
    IF acked THEN LetGo(w, "idle")
    ELSE /\ pc' = [pc EXCEPT ![w] = "unacked"]
         /\ UNCHANGED <<holding, snapshot>>

\* Mutated form of Commit: the job is completed last, in a second transaction
\* that may never come.
Commit_JobLater(w, followUps, acked) ==
    /\ pc[w] = "working"
    /\ Inserted(followUps)
    /\ status' = [k \in Jobs |-> IF k \in followUps THEN "pending" ELSE status[k]]
    /\ Written(holding[w])
    /\ Answered(w, acked)
    /\ UNCHANGED <<attempts, stale, lastRun, open>>

(* prepare returned: persist, finish_run and succeed in one transaction.   *)
(* If the connection drops before the worker learns that it committed,     *)
(* what is left to it is the generic handler (Fail).                       *)
Commit(w, followUps, acked) ==
    /\ pc[w] = "working"
    /\ SucceedJob(holding[w], followUps)
    /\ Written(holding[w])
    /\ Answered(w, acked)
    /\ UNCHANGED open

(* except BudgetExhausted, except SearchUnavailable: the run failed, the   *)
(* job is deferred.                                                        *)
StopForSearch(w) ==
    /\ pc[w] = "working"
    /\ holding[w] \in Searching
    /\ DeferJob(holding[w])
    /\ LetGo(w, "idle")
    /\ UNCHANGED <<open, steps>>

(* except Exception: the run failed and the attempt counts, even where it  *)
(* was only the answer to its commit that failed.                          *)
Fail(w) ==
    /\ pc[w] \in {"working", "unacked"}
    /\ FailJob(holding[w], snapshot[w])
    /\ LetGo(w, "idle")
    /\ UNCHANGED <<open, steps>>

(* The process is killed, the host dies, or an exception leaves run_once:  *)
(* nothing of the job in hand is written.                                  *)
Crash(w) ==
    /\ Busy(w)
    /\ LetGo(w, "down")
    /\ UNCHANGED <<jobVars, open, steps>>

(* SIGTERM or SIGINT between jobs, or a drain that found nothing due.      *)
Stop(w) ==
    /\ pc[w] = "idle"
    /\ pc' = [pc EXCEPT ![w] = "down"]
    /\ UNCHANGED <<jobVars, holding, snapshot, open, steps>>

Restart(w) ==
    /\ pc[w] = "down"
    /\ pc' = [pc EXCEPT ![w] = "idle"]
    /\ UNCHANGED <<jobVars, holding, snapshot, open, steps>>
-----------------------------------------------------------------------------
(* Time passes.                                                            *)

BecomeDue(j) ==
    /\ status[j] = "pending" /\ ~due[j]
    /\ due' = [due EXCEPT ![j] = TRUE]
    /\ UNCHANGED <<status, attempts, stale, lastRun, workerVars, open, steps>>

(* STALE_AFTER has passed since the job was claimed. The queue assumes     *)
(* that its worker is dead; RunsOutliveStale says whether that may be      *)
(* wrong.                                                                  *)
BecomeStale(j) ==
    /\ status[j] = "running" /\ ~stale[j]
    /\ RunsOutliveStale \/ \A w \in Workers : ~Holds(w, j)
    /\ stale' = [stale EXCEPT ![j] = TRUE]
    /\ UNCHANGED <<status, attempts, due, lastRun, workerVars, open, steps>>

OpenOrClose ==
    /\ open' = ~open
    /\ UNCHANGED <<jobVars, workerVars, steps>>

(* A step of worker w on what it holds, or of its life. *)
WorkerStep(w) ==
    \/ WaitForBudget(w) \/ StartRun(w) \/ StopForSearch(w)
    \/ Fail(w) \/ Crash(w) \/ Stop(w) \/ Restart(w)

Next ==
    \/ \E j \in Jobs : Enqueue(j) \/ BecomeDue(j) \/ BecomeStale(j)
    \/ \E w \in Workers, j \in Jobs : Claim(w, j)
    \/ \E w \in Workers, followUps \in SUBSET Jobs, acked \in Acks :
          Commit(w, followUps, acked)
    \/ \E w \in Workers : WorkerStep(w)
    \/ OpenOrClose

Spec == Init /\ [][Next]_vars
-----------------------------------------------------------------------------
(* Fairness. Compose restarts a stopped or crashed worker, and time        *)
(* passes: weak fairness. A worker polls for jobs as long as it runs, but  *)
(* hours close, processes stop and other workers get there first, so that  *)
(* its claim is only intermittently enabled: strong fairness; hours open   *)
(* on a running worker again and again for the same reason. Per job: of    *)
(* equal priority the one longest due is claimed, so none is passed over   *)
(* for ever (ORDER BY priority, run_after). The budget                     *)
(* is a rolling window and blocked engines lift their block, so that a job *)
(* is not deferred for ever: strong fairness on starting, and on ending in *)
(* a commit or a failure. Nothing makes a worker crash, stop or be asked.  *)
Fairness ==
    /\ \A j \in Jobs : WF_vars(BecomeDue(j)) /\ WF_vars(BecomeStale(j))
    /\ \A w \in Workers \ Drainers :
          /\ WF_vars(Restart(w))
          /\ SF_vars(pc[w] = "idle" /\ ~open /\ OpenOrClose)
          /\ \A j \in Jobs : SF_vars(Claim(w, j))
    /\ \A w \in Workers :
          /\ WF_vars(WaitForBudget(w) \/ StartRun(w) \/ Crash(w))
          /\ SF_vars(StartRun(w))
          /\ SF_vars(Fail(w) \/ \E followUps \in SUBSET Jobs :
                                     Commit(w, followUps, TRUE))

FairSpec == Spec /\ Fairness
-----------------------------------------------------------------------------
(* Properties.                                                             *)

(* The pipeline never loses or doubles a step: a job's knowledge has been  *)
(* committed exactly once if the job has succeeded, and not at all         *)
(* otherwise, however its workers crashed, were deferred or took over      *)
(* from one another (jobs.py, module docstring).                           *)
TakenExactlyOnce ==
    \A j \in Jobs : steps[j] = IF status[j] = "succeeded" THEN 1 ELSE 0

(* Where the answer to a commit may get lost that is too much to ask: the  *)
(* job is put back and its step taken again. But each time it is taken     *)
(* uses up an attempt that nothing hands back, whatever is deferred, fails *)
(* or crashes in between: no step is ever taken more than max_attempts     *)
(* times.                                                                  *)
RepeatsAreCounted ==
    \A j \in Jobs : steps[j] <= attempts[j] /\ attempts[j] <= MaxAttempts

(* The claim's guarantee between workers: the worker that holds a job is   *)
(* the only one, the job is still running, and the copy of attempts it     *)
(* will decide the retry by is the row's.                                  *)
SoleHolder ==
    \A w \in Workers : Busy(w) =>
        /\ status[holding[w]] = "running"
        /\ snapshot[w] = attempts[holding[w]]
        /\ \A v \in Workers \ {w} : holding[v] # holding[w]

(* A job is never attempted more than max_attempts times, one that waits   *)
(* has an attempt left, and one that was given up has used them all, none  *)
(* of them on waiting for the budget or for a search engine.               *)
AttemptsAreSpent ==
    \A j \in Jobs :
        /\ attempts[j] <= MaxAttempts
        /\ status[j] = "pending" => attempts[j] < MaxAttempts
        /\ status[j] = "failed"  => attempts[j] = MaxAttempts

(* The run a settled job points to ended the way the job did: the record   *)
(* of a run that failed never stands behind a job that succeeded.          *)
RunTellsTheOutcome ==
    \A j \in Jobs : status[j] \in Settled => lastRun[j] = status[j]

(* A job that has succeeded or failed stays so: no late answer of a worker *)
(* reopens it.                                                             *)
SettledForGood ==
    [][\A j \in Jobs : status[j] \in Settled => status'[j] = status[j]]_vars

(* The one way for a job to end unsettled: its worker died during the last *)
(* attempt, so the row stays running and no claim may take it.             *)
LostOnLastAttempt(j) ==
    /\ status[j] = "running" /\ attempts[j] = MaxAttempts
    /\ \A w \in Workers : ~Holds(w, j)

(* Every job that is asked for is eventually settled, with the exception   *)
(* above: crashes, deferrals and closed hours only delay it.               *)
EventuallySettled ==
    \A j \in Jobs : status[j] = "pending" ~>
        (status[j] \in Settled \/ LostOnLastAttempt(j))

(* The queue keeps the promise of Pipeline: a job is open until it settles *)
(* and its follow-ups open with the very step that commits it.             *)
StepOf ==
    [j \in Jobs |-> CASE status[j] = "absent"    -> "unasked"
                     [] status[j] = "succeeded" -> "taken"
                     [] status[j] = "failed"    -> "given_up"
                     [] OTHER                   -> "open"]

Promise == INSTANCE Pipeline WITH step <- StepOf

KeepsThePromise == Promise!Spec
=============================================================================
