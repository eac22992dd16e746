--------------------------- MODULE JobQueueProofs ---------------------------
(***************************************************************************)
(* Theorems about JobQueue, and about Scheduler over it, for any number of *)
(* jobs, workers, attempts and domains.                                    *)
(*                                                                         *)
(* The type invariant holds whatever happens. That a step is taken exactly *)
(* once is proved under the assumption the code itself states: a job that  *)
(* is still running after STALE_AFTER belongs to a worker that died, and a *)
(* commit is acknowledged (Trusting). That no step is taken more often     *)
(* than max_attempts says, and that the scheduler never doubles a plan,    *)
(* need the first of the two only (Patient).                               *)
(***************************************************************************)
EXTENDS Scheduler, FiniteSetTheorems, TLAPS

Trusting == ~RunsOutliveStale /\ ~AcksGetLost

(* Where no acknowledgment gets lost, every commit is acknowledged.        *)
LEMMA Acknowledged == Trusting => \A acked \in Acks : acked
BY DEF Trusting, Acks

(* A worker has a copy of a row exactly while it is busy. *)
CopiesOfRows ==
    \A w \in Workers :
        /\ Busy(w) <=> holding[w] # NoJob
        /\ holding[w] # NoJob => holding[w] \in Jobs

(* The empty table and the idle workers are well typed.                    *)
LEMMA InitTypeOK == Init => TypeOK /\ CopiesOfRows
BY JobQueueAssumption DEF Init, TypeOK, CopiesOfRows, Busy, Statuses, Places

(* No statement of jobs.py, nor a worker that dies, breaks the types.      *)
LEMMA NextTypeOK == TypeOK /\ CopiesOfRows /\ [Next]_vars => TypeOK' /\ CopiesOfRows'
<1> SUFFICES ASSUME TypeOK, CopiesOfRows, [Next]_vars
             PROVE  TypeOK' /\ CopiesOfRows'
  OBVIOUS
<1> USE JobQueueAssumption DEF TypeOK, CopiesOfRows, Busy, Statuses, Places
<1>1. ASSUME NEW j \in Jobs, Enqueue(j) PROVE TypeOK' /\ CopiesOfRows'
  BY <1>1 DEF Enqueue, Inserted, workerVars
<1>2. ASSUME NEW w \in Workers, NEW j \in Jobs, Claim(w, j)
      PROVE  TypeOK' /\ CopiesOfRows'
  BY <1>2 DEF Claim, CopyOf
<1>3. ASSUME NEW w \in Workers, WaitForBudget(w) PROVE TypeOK' /\ CopiesOfRows'
  BY <1>3 DEF WaitForBudget, DeferJob, PutBack, LetGo
<1>4. ASSUME NEW w \in Workers, StartRun(w) PROVE TypeOK' /\ CopiesOfRows'
  BY <1>4 DEF StartRun, jobVars
<1>5. ASSUME NEW w \in Workers, NEW followUps \in SUBSET Jobs,
             NEW acked \in Acks, Commit(w, followUps, acked)
      PROVE  TypeOK' /\ CopiesOfRows'
  <2>1. holding[w] \in Jobs
    BY <1>5 DEF Commit
  <2>2. /\ status' \in [Jobs -> Statuses] /\ due' \in [Jobs -> BOOLEAN]
        /\ stale' \in [Jobs -> BOOLEAN] /\ attempts' = attempts /\ open' = open
        /\ lastRun' \in [Jobs -> {"none", "succeeded", "failed"}]
    BY <1>5, <2>1 DEF Commit, SucceedJob, Inserted
  <2>3. steps' \in [Jobs -> 0..AttemptCap + 1]
    BY <1>5, <2>1 DEF Commit, Written
  <2>4. /\ pc' \in [Workers -> Places] /\ holding' \in [Workers -> Jobs \cup {NoJob}]
        /\ snapshot' \in [Workers -> 0..AttemptCap]
        /\ CopiesOfRows'
    BY <1>5 DEF Commit, Answered, LetGo
  <2> QED
    BY <2>2, <2>3, <2>4
<1>6. ASSUME NEW w \in Workers, StopForSearch(w) PROVE TypeOK' /\ CopiesOfRows'
  BY <1>6 DEF StopForSearch, DeferJob, PutBack, LetGo
<1>7. ASSUME NEW w \in Workers, Fail(w) PROVE TypeOK' /\ CopiesOfRows'
  BY <1>7 DEF Fail, FailJob, LetGo
<1>8. ASSUME NEW w \in Workers, Crash(w) PROVE TypeOK' /\ CopiesOfRows'
  BY <1>8 DEF Crash, LetGo, jobVars
<1>9. ASSUME NEW w \in Workers, Stop(w) \/ Restart(w) PROVE TypeOK' /\ CopiesOfRows'
  BY <1>9 DEF Stop, Restart, jobVars
<1>10. ASSUME NEW j \in Jobs, BecomeDue(j) \/ BecomeStale(j)
       PROVE  TypeOK' /\ CopiesOfRows'
  BY <1>10 DEF BecomeDue, BecomeStale, workerVars
<1>11. CASE OpenOrClose
  BY <1>11 DEF OpenOrClose, jobVars, workerVars
<1>12. CASE UNCHANGED vars
  BY <1>12 DEF vars, jobVars, workerVars
<1> QED
  BY <1>1, <1>2, <1>3, <1>4, <1>5, <1>6, <1>7, <1>8, <1>9, <1>10, <1>11, <1>12
  DEF Next, WorkerStep

(* Type correctness, and with it that attempts stay a small natural number *)
(* and a worker holds a row exactly while it is busy with it.              *)
THEOREM Typing == Spec => [](TypeOK /\ CopiesOfRows)
BY InitTypeOK, NextTypeOK, PTL DEF Spec
-----------------------------------------------------------------------------
(* What holds when a worker is only taken for dead once it is: the row a   *)
(* worker holds is running and fresh, its copy of attempts is current, and *)
(* nobody else holds it ...                                                *)
HeldAlone ==
    \A w \in Workers : holding[w] # NoJob =>
        /\ status[holding[w]] = "running"
        /\ ~stale[holding[w]]
        /\ snapshot[w] = attempts[holding[w]]
        /\ \A v \in Workers \ {w} : holding[v] # holding[w]

(* ... the attempts of a row are those its status calls for ...            *)
AttemptsFit ==
    \A j \in Jobs :
        /\ attempts[j] <= MaxAttempts
        /\ status[j] \in {"absent", "pending"} => attempts[j] < MaxAttempts
        /\ status[j] = "running" => attempts[j] > 0
        /\ status[j] = "failed"  => attempts[j] = MaxAttempts

(* ... and the knowledge and the run of a row agree with its status.       *)
IInv ==
    /\ TypeOK /\ CopiesOfRows
    /\ HeldAlone
    /\ AttemptsFit
    /\ TakenExactlyOnce
    /\ RunTellsTheOutcome

(* Nothing has been asked for yet, and nothing is held.                    *)
LEMMA InitIInv == Init => IInv
<1> SUFFICES ASSUME Init PROVE IInv
  OBVIOUS
<1>1. TypeOK /\ CopiesOfRows
  BY InitTypeOK
<1>2. HeldAlone /\ AttemptsFit /\ TakenExactlyOnce /\ RunTellsTheOutcome
  BY JobQueueAssumption
  DEF Init, HeldAlone, AttemptsFit, TakenExactlyOnce, RunTellsTheOutcome, Settled
<1> QED
  BY <1>1, <1>2 DEF IInv

(* Each action below preserves the four parts; the first two it may        *)
(* disturb by what it does to its own row, which nobody else holds.        *)
LEMMA NextIInv == Trusting /\ IInv /\ [Next]_vars => IInv'
<1> SUFFICES ASSUME Trusting, IInv, [Next]_vars PROVE IInv'
  OBVIOUS
<1> DEFINE Rest == HeldAlone /\ AttemptsFit /\ TakenExactlyOnce /\ RunTellsTheOutcome
<1>0. TypeOK' /\ CopiesOfRows'
  BY NextTypeOK DEF IInv
<1>r. SUFFICES Rest'
  BY <1>0 DEF IInv
<1> USE JobQueueAssumption
    DEF IInv, Rest, TypeOK, CopiesOfRows, HeldAlone, AttemptsFit, TakenExactlyOnce,
        RunTellsTheOutcome, Settled, Busy
<1>1. ASSUME NEW j \in Jobs, Enqueue(j) PROVE Rest'
  BY <1>1 DEF Enqueue, Inserted, workerVars
<1>2. ASSUME NEW w \in Workers, NEW j \in Jobs, Claim(w, j) PROVE Rest'
  <2>1. /\ status[j] = "pending" \/ (status[j] = "running" /\ stale[j])
        /\ attempts[j] < MaxAttempts
    BY <1>2 DEF Claim, Offered, Claimable
  <2>2. \A v \in Workers : holding[v] # j
    BY <2>1
  <2>3. HeldAlone'
    BY <1>2, <2>1, <2>2 DEF Claim, CopyOf
  <2>4. AttemptsFit'
    BY <1>2, <2>1 DEF Claim
  <2>5. TakenExactlyOnce' /\ RunTellsTheOutcome'
    BY <1>2, <2>1 DEF Claim
  <2> QED
    BY <2>3, <2>4, <2>5
<1>3. ASSUME NEW w \in Workers, WaitForBudget(w) \/ StopForSearch(w) PROVE Rest'
  <2>1. holding[w] \in Jobs /\ status[holding[w]] = "running"
    BY <1>3 DEF WaitForBudget, StopForSearch
  <2>2. HeldAlone'
    BY <1>3, <2>1 DEF WaitForBudget, StopForSearch, DeferJob, PutBack, LetGo
  <2>3. AttemptsFit'
    BY <1>3, <2>1 DEF WaitForBudget, StopForSearch, DeferJob, PutBack, LetGo
  <2>4. TakenExactlyOnce' /\ RunTellsTheOutcome'
    BY <1>3, <2>1 DEF WaitForBudget, StopForSearch, DeferJob, PutBack, LetGo
  <2> QED
    BY <2>2, <2>3, <2>4
<1>4. ASSUME NEW w \in Workers, StartRun(w) PROVE Rest'
  BY <1>4 DEF StartRun, jobVars
<1>5. ASSUME NEW w \in Workers, NEW followUps \in SUBSET Jobs,
             NEW acked \in Acks, Commit(w, followUps, acked)
      PROVE  Rest'
  <2>1. holding[w] \in Jobs /\ status[holding[w]] = "running"
    BY <1>5 DEF Commit
  <2>2. acked
    BY Acknowledged
  <2>3. LetGo(w, "idle")
    BY <1>5, <2>2 DEF Commit, Answered
  <2>4. HeldAlone'
    BY <1>5, <2>1, <2>3 DEF Commit, SucceedJob, Inserted, Written, LetGo
  <2>5. AttemptsFit'
    BY <1>5, <2>1, <2>3 DEF Commit, SucceedJob, Inserted, Written, LetGo
  <2>6. TakenExactlyOnce' /\ RunTellsTheOutcome'
    BY <1>5, <2>1, <2>3 DEF Commit, SucceedJob, Inserted, Written, LetGo
  <2> QED
    BY <2>4, <2>5, <2>6
<1>6. ASSUME NEW w \in Workers, Fail(w) PROVE Rest'
  <2>1. /\ holding[w] \in Jobs /\ status[holding[w]] = "running"
        /\ snapshot[w] = attempts[holding[w]]
    BY <1>6 DEF Fail
  <2>2. HeldAlone'
    BY <1>6, <2>1 DEF Fail, FailJob, LetGo
  <2>3. AttemptsFit'
    BY <1>6, <2>1 DEF Fail, FailJob, LetGo
  <2>4. TakenExactlyOnce' /\ RunTellsTheOutcome'
    BY <1>6, <2>1 DEF Fail, FailJob, LetGo
  <2> QED
    BY <2>2, <2>3, <2>4
<1>7. ASSUME NEW w \in Workers, Crash(w) PROVE Rest'
  BY <1>7 DEF Crash, LetGo, jobVars
<1>8. ASSUME NEW w \in Workers, Stop(w) \/ Restart(w) PROVE Rest'
  BY <1>8 DEF Stop, Restart, jobVars
<1>9. ASSUME NEW j \in Jobs, BecomeDue(j) PROVE Rest'
  BY <1>9 DEF BecomeDue, workerVars
<1>10. ASSUME NEW j \in Jobs, BecomeStale(j) PROVE Rest'
  BY <1>10 DEF BecomeStale, workerVars, Holds, Trusting
<1>11. CASE OpenOrClose
  BY <1>11 DEF OpenOrClose, jobVars, workerVars
<1>12. CASE UNCHANGED vars
  BY <1>12 DEF vars, jobVars, workerVars
<1> QED
  BY <1>1, <1>2, <1>3, <1>4, <1>5, <1>6, <1>7, <1>8, <1>9, <1>10, <1>11, <1>12
  DEF Next, WorkerStep

(* The invariant holds in every state of the trusting queue.               *)
LEMMA Inductive == ASSUME Trusting PROVE Spec => []IInv
<1>1. IInv /\ [Next]_vars => IInv'
  BY NextIInv
<1> QED
  BY InitIInv, <1>1, PTL DEF Spec
-----------------------------------------------------------------------------
(* Every job's knowledge is committed exactly once if it succeeded and     *)
(* never otherwise: the pipeline neither loses nor doubles a step.         *)
THEOREM ExactlyOnce == ASSUME Trusting PROVE Spec => []TakenExactlyOnce
<1>1. IInv => TakenExactlyOnce
  BY DEF IInv
<1> QED
  BY Inductive, <1>1, PTL

(* The worker that holds a job is alone with it and sees its attempts.     *)
THEOREM HoldsAlone == ASSUME Trusting PROVE Spec => []SoleHolder
<1>1. IInv => SoleHolder
  BY DEF IInv, CopiesOfRows, HeldAlone, SoleHolder
<1> QED
  BY Inductive, <1>1, PTL

(* Attempts never exceed max_attempts; a waiting job has one left, and a   *)
(* failed job has used them all.                                           *)
THEOREM AttemptsBounded == ASSUME Trusting PROVE Spec => []AttemptsAreSpent
<1>1. IInv => AttemptsAreSpent
  BY DEF IInv, AttemptsFit, AttemptsAreSpent
<1> QED
  BY Inductive, <1>1, PTL

(* The run that a settled job points to ended the way the job did.         *)
THEOREM RunsTell == ASSUME Trusting PROVE Spec => []RunTellsTheOutcome
<1>1. IInv => RunTellsTheOutcome
  BY DEF IInv
<1> QED
  BY Inductive, <1>1, PTL

(* A settled job stays settled, as no worker that could reopen it holds it.*)
THEOREM SettlesForGood == ASSUME Trusting PROVE Spec => SettledForGood
<1>1. IInv /\ [Next]_vars =>
        [\A j \in Jobs : status[j] \in Settled => status'[j] = status[j]]_vars
  <2> SUFFICES ASSUME IInv, Next, NEW j \in Jobs, status[j] \in Settled
               PROVE  status'[j] = status[j]
    OBVIOUS
  <2> USE JobQueueAssumption DEF IInv, TypeOK, CopiesOfRows, HeldAlone, Settled, Busy
  <2>1. ASSUME NEW k \in Jobs, Enqueue(k) \/ BecomeDue(k) \/ BecomeStale(k)
        PROVE  status'[j] = status[j]
    BY <2>1 DEF Enqueue, Inserted, BecomeDue, BecomeStale
  <2>2. ASSUME NEW w \in Workers, NEW k \in Jobs, Claim(w, k)
        PROVE  status'[j] = status[j]
    BY <2>2 DEF Claim, Offered, Claimable
  <2>3. ASSUME NEW w \in Workers, NEW followUps \in SUBSET Jobs,
             NEW acked \in Acks, Commit(w, followUps, acked)
        PROVE  status'[j] = status[j]
    BY <2>3 DEF Commit, SucceedJob, Inserted
  <2>4. ASSUME NEW w \in Workers, WaitForBudget(w) \/ StopForSearch(w) \/ Fail(w)
        PROVE  status'[j] = status[j]
    BY <2>4 DEF WaitForBudget, StopForSearch, Fail, DeferJob, PutBack, FailJob
  <2>5. ASSUME NEW w \in Workers, StartRun(w) \/ Crash(w) \/ Stop(w) \/ Restart(w)
        PROVE  status'[j] = status[j]
    BY <2>5 DEF StartRun, Crash, Stop, Restart, jobVars
  <2>6. CASE OpenOrClose
    BY <2>6 DEF OpenOrClose, jobVars
  <2> QED
    BY <2>1, <2>2, <2>3, <2>4, <2>5, <2>6 DEF Next, WorkerStep
<1> QED
  BY Inductive, <1>1, PTL DEF Spec, SettledForGood
-----------------------------------------------------------------------------
(* One row that changes its status is one job that changes its step.       *)
LEMMA OneStep ==
    ASSUME NEW j \in Jobs, status \in [Jobs -> Statuses], NEW s \in Statuses,
           status' = [status EXCEPT ![j] = s]
    PROVE  /\ s = "pending" /\ status[j] = "absent" => Promise!Ask(j)
           /\ s = "failed" /\ status[j] = "running" => Promise!GiveUp(j)
<1> DEFINE Step(x) == CASE x = "absent"    -> "unasked"
                        [] x = "succeeded" -> "taken"
                        [] x = "failed"    -> "given_up"
                        [] OTHER           -> "open"
<1>1. /\ Step("absent") = "unasked" /\ Step("failed") = "given_up"
      /\ Step("pending") = "open" /\ Step("running") = "open"
  OBVIOUS
<1>2. StepOf = [k \in Jobs |-> Step(status[k])] /\ StepOf' = [k \in Jobs |-> Step(status'[k])]
  BY DEF StepOf
<1> HIDE DEF Step
<1>3. \A k \in Jobs : status'[k] = IF k = j THEN s ELSE status[k]
  OBVIOUS
<1>4. StepOf' = [StepOf EXCEPT ![j] = Step(s)] /\ StepOf[j] = Step(status[j])
  BY <1>2, <1>3
<1> QED
  BY <1>1, <1>4 DEF Promise!Ask, Promise!GiveUp

(* Every step of the queue is a step of Pipeline or leaves it unchanged.   *)
LEMMA StepKeepsThePromise ==
    Trusting /\ IInv /\ [Next]_vars => [Promise!Next]_StepOf
<1> SUFFICES ASSUME Trusting, IInv, [Next]_vars
             PROVE  Promise!Next \/ StepOf' = StepOf
  OBVIOUS
<1> USE JobQueueAssumption DEF IInv, TypeOK, CopiesOfRows, HeldAlone, Busy, Statuses
<1> DEFINE Unmoved == status' = status
<1>0. Unmoved => StepOf' = StepOf
  BY DEF StepOf
<1>1. ASSUME NEW j \in Jobs, Enqueue(j) PROVE Promise!Next
  <2>1. status[j] = "absent" /\ status' = [status EXCEPT ![j] = "pending"]
    BY <1>1 DEF Enqueue, Inserted
  <2>2. Promise!Ask(j)
    BY <2>1, OneStep
  <2> QED
    BY <2>2 DEF Promise!Next
<1>2. ASSUME NEW w \in Workers, NEW j \in Jobs, Claim(w, j) PROVE StepOf' = StepOf
  <2>1. /\ status[j] \in {"pending", "running"}
        /\ status' = [status EXCEPT ![j] = "running"]
    BY <1>2 DEF Claim, Offered, Claimable
  <2> QED
    BY <2>1 DEF StepOf
<1>3. ASSUME NEW w \in Workers, WaitForBudget(w) \/ StopForSearch(w)
      PROVE  StepOf' = StepOf
  <2>1. /\ holding[w] \in Jobs /\ status[holding[w]] = "running"
        /\ status' = [status EXCEPT ![holding[w]] = "pending"]
    BY <1>3 DEF WaitForBudget, StopForSearch, DeferJob, PutBack
  <2> QED
    BY <2>1 DEF StepOf
<1>4. ASSUME NEW w \in Workers, NEW followUps \in SUBSET Jobs,
             NEW acked \in Acks, Commit(w, followUps, acked)
      PROVE  Promise!Next
  <2> DEFINE j == holding[w]
  <2>1. /\ j \in Jobs /\ status[j] = "running"
        /\ followUps \subseteq {k \in Jobs : status[k] = "absent"}
        /\ status' = [k \in Jobs |-> IF k = j THEN "succeeded"
                                     ELSE IF k \in followUps THEN "pending"
                                     ELSE status[k]]
    BY <1>4 DEF Commit, SucceedJob, Inserted
  <2>2. Promise!Take(j, followUps)
    BY <2>1 DEF Promise!Take, StepOf
  <2> QED
    BY <2>1, <2>2 DEF Promise!Next
<1>5. ASSUME NEW w \in Workers, Fail(w) PROVE Promise!Next \/ StepOf' = StepOf
  <2>1. /\ holding[w] \in Jobs /\ status[holding[w]] = "running"
        /\ \/ status' = [status EXCEPT ![holding[w]] = "pending"]
           \/ status' = [status EXCEPT ![holding[w]] = "failed"]
    BY <1>5 DEF Fail, FailJob
  <2>2. CASE status' = [status EXCEPT ![holding[w]] = "pending"]
    BY <2>1, <2>2 DEF StepOf
  <2>3. CASE status' = [status EXCEPT ![holding[w]] = "failed"]
    <3>1. Promise!GiveUp(holding[w])
      BY <2>1, <2>3, OneStep
    <3> QED
      BY <2>1, <3>1 DEF Promise!Next
  <2> QED
    BY <2>1, <2>2, <2>3
<1>6. ASSUME NEW w \in Workers, StartRun(w) \/ Crash(w) \/ Stop(w) \/ Restart(w)
      PROVE  Unmoved
  BY <1>6 DEF StartRun, Crash, Stop, Restart, jobVars
<1>7. ASSUME NEW j \in Jobs, BecomeDue(j) \/ BecomeStale(j) PROVE Unmoved
  BY <1>7 DEF BecomeDue, BecomeStale
<1>8. OpenOrClose \/ UNCHANGED vars => Unmoved
  BY DEF OpenOrClose, vars, jobVars
<1> QED
  BY <1>0, <1>1, <1>2, <1>3, <1>4, <1>5, <1>6, <1>7, <1>8 DEF Next, WorkerStep

(* The queue implements Pipeline: a step asked for is taken once, together *)
(* with asking for what follows, or given up.                              *)
THEOREM Refinement == ASSUME Trusting PROVE Spec => KeepsThePromise
<1>1. Init => Promise!Init
  BY DEF Init, Promise!Init, StepOf
<1>2. IInv /\ [Next]_vars => [Promise!Next]_StepOf
  BY StepKeepsThePromise
<1> QED
  BY Inductive, <1>1, <1>2, PTL DEF Spec, KeepsThePromise, Promise!Spec

-----------------------------------------------------------------------------
(* What holds when only runs are bounded: an answer to a commit may get    *)
(* lost, so that a worker may hold a row that was carried out.             *)
Patient == ~RunsOutliveStale

(* A worker is alone with the row it holds, and its copy of attempts is    *)
(* current. The row is running and fresh; or it was carried out, and the   *)
(* worker does not know it.                                                *)
HeldOrDone ==
    \A w \in Workers : holding[w] # NoJob =>
        /\ IF pc[w] = "unacked"
           THEN status[holding[w]] = "succeeded" /\ steps[holding[w]] > 0
           ELSE status[holding[w]] = "running" /\ ~stale[holding[w]]
        /\ snapshot[w] = attempts[holding[w]]
        /\ \A v \in Workers \ {w} : holding[v] # holding[w]

(* A row that runs has an attempt more than its step was taken.            *)
AttemptsCover ==
    \A j \in Jobs :
        /\ steps[j] <= attempts[j] /\ attempts[j] <= MaxAttempts
        /\ status[j] \in {"absent", "pending"} => attempts[j] < MaxAttempts
        /\ status[j] = "running" => steps[j] < attempts[j]

PatientIInv == TypeOK /\ CopiesOfRows /\ HeldOrDone /\ AttemptsCover

LEMMA InitPatient == Init => PatientIInv
<1> SUFFICES ASSUME Init PROVE PatientIInv
  OBVIOUS
<1>1. TypeOK /\ CopiesOfRows
  BY InitTypeOK
<1> QED
  BY <1>1, JobQueueAssumption DEF Init, PatientIInv, HeldOrDone, AttemptsCover

(* Only a commit takes a step, and it leaves the row to be failed at most; *)
(* only a deferral hands an attempt back, and it took no step.             *)
LEMMA NextPatient == Patient /\ PatientIInv /\ [Next]_vars => PatientIInv'
<1> SUFFICES ASSUME Patient, PatientIInv, [Next]_vars
             PROVE  HeldOrDone' /\ AttemptsCover'
  BY NextTypeOK DEF PatientIInv
<1> USE JobQueueAssumption
    DEF PatientIInv, TypeOK, CopiesOfRows, HeldOrDone, AttemptsCover, Busy
<1>1. ASSUME NEW j \in Jobs, Enqueue(j) PROVE HeldOrDone' /\ AttemptsCover'
  BY <1>1 DEF Enqueue, Inserted, workerVars
<1>2. ASSUME NEW w \in Workers, NEW j \in Jobs, Claim(w, j)
      PROVE  HeldOrDone' /\ AttemptsCover'
  <2>1. /\ status[j] = "pending" \/ (status[j] = "running" /\ stale[j])
        /\ attempts[j] < MaxAttempts /\ steps[j] <= attempts[j]
    BY <1>2 DEF Claim, Offered, Claimable
  <2>2. \A v \in Workers : holding[v] # j
    BY <2>1
  <2>3. HeldOrDone'
    BY <1>2, <2>1, <2>2 DEF Claim, CopyOf
  <2>4. AttemptsCover'
    BY <1>2, <2>1 DEF Claim
  <2> QED
    BY <2>3, <2>4
<1>3. ASSUME NEW w \in Workers, WaitForBudget(w) \/ StopForSearch(w)
      PROVE  HeldOrDone' /\ AttemptsCover'
  <2>1. /\ holding[w] \in Jobs /\ status[holding[w]] = "running"
        /\ steps[holding[w]] < attempts[holding[w]]
    BY <1>3 DEF WaitForBudget, StopForSearch
  <2>2. HeldOrDone'
    BY <1>3, <2>1 DEF WaitForBudget, StopForSearch, DeferJob, PutBack, LetGo
  <2>3. AttemptsCover'
    BY <1>3, <2>1 DEF WaitForBudget, StopForSearch, DeferJob, PutBack, LetGo
  <2> QED
    BY <2>2, <2>3
<1>4. ASSUME NEW w \in Workers, StartRun(w) PROVE HeldOrDone' /\ AttemptsCover'
  BY <1>4 DEF StartRun, jobVars
<1>5. ASSUME NEW w \in Workers, NEW followUps \in SUBSET Jobs, NEW acked \in Acks,
             Commit(w, followUps, acked)
      PROVE  HeldOrDone' /\ AttemptsCover'
  <2> DEFINE j == holding[w]
  <2>1. /\ j \in Jobs /\ status[j] = "running" /\ steps[j] < attempts[j]
        /\ followUps \subseteq {k \in Jobs : status[k] = "absent"}
    BY <1>5 DEF Commit, SucceedJob, Inserted
  <2>2. /\ status' = [k \in Jobs |-> IF k = j THEN "succeeded"
                                     ELSE IF k \in followUps THEN "pending"
                                     ELSE status[k]]
        /\ stale' = [stale EXCEPT ![j] = FALSE] /\ attempts' = attempts
        /\ steps' = [steps EXCEPT ![j] = @ + 1]
    <3>1. ~(steps[j] > AttemptCap)
      BY <2>1
    <3>2. steps' = [steps EXCEPT ![j] = steps[j] + 1]
      BY <1>5, <3>1 DEF Commit, Written
    <3> QED
      BY <1>5, <3>2 DEF Commit, SucceedJob
  <2>3. AttemptsCover'
    BY <2>1, <2>2
  <2>4. CASE LetGo(w, "idle")
    BY <2>1, <2>2, <2>4 DEF LetGo
  <2>5. CASE pc' = [pc EXCEPT ![w] = "unacked"] /\ UNCHANGED <<holding, snapshot>>
    BY <2>1, <2>2, <2>5
  <2> QED
    BY <1>5, <2>3, <2>4, <2>5 DEF Commit, Answered
<1>6. ASSUME NEW w \in Workers, Fail(w) PROVE HeldOrDone' /\ AttemptsCover'
  <2>1. holding[w] \in Jobs /\ snapshot[w] = attempts[holding[w]]
    BY <1>6 DEF Fail
  <2>2. HeldOrDone'
    BY <1>6, <2>1 DEF Fail, FailJob, LetGo
  <2>3. AttemptsCover'
    BY <1>6, <2>1 DEF Fail, FailJob, LetGo
  <2> QED
    BY <2>2, <2>3
<1>7. ASSUME NEW w \in Workers, Crash(w) PROVE HeldOrDone' /\ AttemptsCover'
  BY <1>7 DEF Crash, LetGo, jobVars
<1>8. ASSUME NEW w \in Workers, Stop(w) \/ Restart(w) PROVE HeldOrDone' /\ AttemptsCover'
  BY <1>8 DEF Stop, Restart, jobVars
<1>9. ASSUME NEW j \in Jobs, BecomeDue(j) \/ BecomeStale(j)
      PROVE  HeldOrDone' /\ AttemptsCover'
  BY <1>9 DEF BecomeDue, BecomeStale, workerVars, Holds, Patient
<1>10. CASE OpenOrClose \/ UNCHANGED vars
  BY <1>10 DEF OpenOrClose, vars, jobVars, workerVars
<1> QED
  BY <1>1, <1>2, <1>3, <1>4, <1>5, <1>6, <1>7, <1>8, <1>9, <1>10 DEF Next, WorkerStep

(* Where the answer to a commit may get lost, a step may be taken again,   *)
(* but no more often than its job may be attempted: each time costs an     *)
(* attempt that no failure, deferral, crash or takeover hands back.        *)
THEOREM RepeatsCounted == ASSUME Patient PROVE Spec => []RepeatsAreCounted
<1>1. PatientIInv => RepeatsAreCounted
  BY DEF PatientIInv, AttemptsCover, RepeatsAreCounted
<1>2. PatientIInv /\ [Next]_vars => PatientIInv'
  BY NextPatient
<1> QED
  BY InitPatient, <1>1, <1>2, PTL DEF Spec
-----------------------------------------------------------------------------
(* The scheduler over the queue. Acknowledgments may get lost here.        *)

(* The queue's own steps are those of JobQueue, without follow-ups. *)
LEMMA QueueStepIsNext == QueueStep => Next
<1> SUFFICES ASSUME QueueStep PROVE Next
  OBVIOUS
<1>1. ASSUME NEW w \in Workers, NEW acked \in Acks, Commit(w, {}, acked)
      PROVE  Next
  <2>1. {} \in SUBSET Jobs
    OBVIOUS
  <2> QED
    BY <1>1, <2>1 DEF Next
<1> QED
  BY <1>1 DEF QueueStep, Next

(* Type invariant of the scheduler's own variables. *)
SchedulerTypeOK ==
    /\ TypeOK /\ CopiesOfRows
    /\ today     \in [Jobs -> BOOLEAN]
    /\ scheduled \in [Jobs -> BOOLEAN]

(* Two scheduled plans of one domain, both of today or still under way,    *)
(* are the same plan.                                                      *)
UnderWay(j) == today[j] \/ (status[j] \in {"pending", "running"} /\ steps[j] = 0)

OnePlanEach ==
    \A j, k \in Jobs :
        /\ scheduled[j] /\ UnderWay(j)
        /\ scheduled[k] /\ UnderWay(k)
        /\ DomainOf[j] = DomainOf[k]
        => j = k

SchedulerIInv ==
    /\ SchedulerTypeOK
    /\ HeldOrDone
    /\ AttemptsCover
    /\ OnePlanEach

(* Before the first tick no plan exists.                                   *)
LEMMA InitSchedulerIInv == SchedulerInit => SchedulerIInv
<1> SUFFICES ASSUME SchedulerInit PROVE SchedulerIInv
  OBVIOUS
<1>1. PatientIInv
  BY InitPatient DEF SchedulerInit
<1> QED
  BY <1>1 DEF SchedulerInit, SchedulerIInv, SchedulerTypeOK, PatientIInv, OnePlanEach

(* The inserted rows are pending, with all their attempts, and nobody's.   *)
LEMMA InsertKeeps ==
    ASSUME SchedulerTypeOK, HeldOrDone, AttemptsCover,
           NEW new \in SUBSET Jobs, NEW byScheduler \in BOOLEAN,
           InsertPlans(new, byScheduler), UNCHANGED <<workerVars, open>>
    PROVE  SchedulerTypeOK' /\ HeldOrDone' /\ AttemptsCover'
<1> USE JobQueueAssumption DEF SchedulerTypeOK, TypeOK, CopiesOfRows, Busy
<1>1. TypeOK'
  BY DEF InsertPlans, workerVars, Statuses
<1>2. CopiesOfRows' /\ (today \in [Jobs -> BOOLEAN])' /\ (scheduled \in [Jobs -> BOOLEAN])'
  BY DEF InsertPlans, workerVars
<1>3. ASSUME NEW w \in Workers, holding[w] # NoJob PROVE holding[w] \notin new
  BY <1>3 DEF InsertPlans, Free, HeldOrDone, Settled, Holds
<1>4. HeldOrDone'
  BY <1>3 DEF InsertPlans, HeldOrDone, workerVars
<1>5. AttemptsCover'
  BY DEF InsertPlans, AttemptsCover
<1> QED
  BY <1>1, <1>2, <1>4, <1>5

(* A plan is made where none is under way, and only one for each domain.   *)
LEMMA TickKeepsOne ==
    ASSUME SchedulerTypeOK, OnePlanEach, NEW new \in SUBSET Jobs, Tick(new)
    PROVE  OnePlanEach'
<1> USE JobQueueAssumption, SchedulerAssumption DEF SchedulerTypeOK, TypeOK
<1> SUFFICES ASSUME NEW j \in Jobs, NEW k \in Jobs, DomainOf[j] = DomainOf[k],
                    scheduled'[j], UnderWay(j)', scheduled'[k], UnderWay(k)'
             PROVE  j = k
  BY DEF OnePlanEach
<1>1. /\ InsertPlans(new, TRUE)
      /\ {DomainOf[i] : i \in new} = Unplanned
      /\ \A i, l \in new : DomainOf[i] = DomainOf[l] => i = l
  BY DEF Tick
<1>2. ASSUME NEW i \in Jobs, i \notin new, scheduled'[i], UnderWay(i)'
      PROVE  scheduled[i] /\ UnderWay(i)
  BY <1>1, <1>2 DEF InsertPlans, UnderWay
<1>3. ASSUME NEW i \in new, NEW l \in Jobs, l \notin new, UnderWay(l)
      PROVE  DomainOf[i] # DomainOf[l]
  <2>1. ~PlannedToday(DomainOf[i])
    BY <1>1 DEF Unplanned
  <2>2. PlannedToday(DomainOf[l])
    BY <1>3 DEF PlannedToday, Plans, UnderWay
  <2> QED
    BY <2>1, <2>2
<1>4. CASE j \in new /\ k \in new
  BY <1>1, <1>4
<1>5. CASE j \notin new /\ k \notin new
  BY <1>2, <1>5 DEF OnePlanEach
<1>6. CASE j \in new /\ k \notin new
  BY <1>2, <1>3, <1>6
<1>7. CASE j \notin new /\ k \in new
  BY <1>2, <1>3, <1>7
<1> QED
  BY <1>4, <1>5, <1>6, <1>7

(* A queue step puts no plan under way that was not: what a worker fails   *)
(* or defers was running, or had been carried out.                         *)
LEMMA QueueStepUnderWay ==
    ASSUME SchedulerTypeOK, HeldOrDone, QueueStep
    PROVE  \A j \in Jobs : UnderWay(j)' => UnderWay(j)
<1> SUFFICES ASSUME NEW i \in Jobs, UnderWay(i)' PROVE UnderWay(i)
  OBVIOUS
<1>0. today' = today
  BY DEF QueueStep
<1> USE <1>0, JobQueueAssumption
    DEF SchedulerTypeOK, TypeOK, CopiesOfRows, HeldOrDone, UnderWay, Busy
<1>1. ASSUME NEW j \in Jobs, BecomeDue(j) \/ BecomeStale(j) PROVE UnderWay(i)
  BY <1>1 DEF BecomeDue, BecomeStale
<1>2. ASSUME NEW w \in Workers, NEW j \in Jobs, Claim(w, j) PROVE UnderWay(i)
  BY <1>2 DEF Claim, Offered, Claimable
<1>3. ASSUME NEW w \in Workers, NEW acked \in Acks, Commit(w, {}, acked) PROVE UnderWay(i)
  BY <1>3 DEF Commit, SucceedJob, Inserted, Written
<1>4. ASSUME NEW w \in Workers, WaitForBudget(w) \/ StopForSearch(w) \/ Fail(w)
      PROVE  UnderWay(i)
  BY <1>4 DEF WaitForBudget, StopForSearch, Fail, DeferJob, PutBack, FailJob
<1>5. ASSUME NEW w \in Workers, StartRun(w) \/ Crash(w) \/ Stop(w) \/ Restart(w)
      PROVE  UnderWay(i)
  BY <1>5 DEF StartRun, Crash, Stop, Restart, jobVars
<1>6. CASE OpenOrClose
  BY <1>6 DEF OpenOrClose, jobVars
<1> QED
  BY <1>1, <1>2, <1>3, <1>4, <1>5, <1>6 DEF QueueStep, WorkerStep

(* Each action of the scheduler, the owner and the queue keeps its part.   *)
LEMMA NextSchedulerIInv ==
    Patient /\ SchedulerIInv /\ [SchedulerNext]_schedulerVars => SchedulerIInv'
<1> SUFFICES ASSUME Patient, SchedulerIInv, [SchedulerNext]_schedulerVars
             PROVE  SchedulerIInv'
  OBVIOUS
<1> USE DEF SchedulerIInv
<1>1. ASSUME NEW new \in SUBSET Jobs, Tick(new) PROVE SchedulerIInv'
  <2>1. InsertPlans(new, TRUE) /\ UNCHANGED <<workerVars, open>>
    BY <1>1 DEF Tick
  <2> QED
    BY <1>1, <2>1, InsertKeeps, TickKeepsOne
<1>2. ASSUME NEW j \in Jobs, RequestWork(j) PROVE SchedulerIInv'
  <2>1. InsertPlans({j}, FALSE) /\ UNCHANGED <<workerVars, open>>
    BY <1>2 DEF RequestWork
  <2>2. SchedulerTypeOK' /\ HeldOrDone' /\ AttemptsCover'
    BY <2>1, InsertKeeps
  <2>3. OnePlanEach'
    BY <2>1 DEF OnePlanEach, UnderWay, InsertPlans, SchedulerTypeOK, TypeOK
  <2> QED
    BY <2>2, <2>3
<1>3. CASE \/ \E d \in Domains : SetDomainStatus(d)
           \/ NewDay
           \/ UNCHANGED schedulerVars
  <2>1. UNCHANGED vars /\ UNCHANGED scheduled
        /\ today' \in {today, [j \in Jobs |-> FALSE]}
    BY <1>3 DEF SetDomainStatus, NewDay, schedulerVars
  <2>2. SchedulerTypeOK'
    BY <2>1 DEF vars, jobVars, workerVars, SchedulerTypeOK, TypeOK, CopiesOfRows, Busy
  <2>3. HeldOrDone' /\ AttemptsCover' /\ OnePlanEach'
    BY <2>1 DEF vars, jobVars, workerVars, HeldOrDone, AttemptsCover, OnePlanEach, UnderWay
  <2> QED
    BY <2>2, <2>3
<1>4. CASE QueueStep
  <2>1. PatientIInv'
    BY <1>4, QueueStepIsNext, NextPatient DEF PatientIInv, SchedulerTypeOK
  <2>2. \A j \in Jobs : UnderWay(j)' => UnderWay(j)
    BY <1>4, QueueStepUnderWay
  <2>3. UNCHANGED <<today, scheduled>>
    BY <1>4 DEF QueueStep
  <2>4. SchedulerTypeOK'
    BY <2>1, <2>3 DEF SchedulerTypeOK, PatientIInv
  <2>5. OnePlanEach'
    BY <2>2, <2>3 DEF OnePlanEach
  <2> QED
    BY <2>1, <2>4, <2>5 DEF PatientIInv
<1> QED
  BY <1>1, <1>2, <1>3, <1>4 DEF SchedulerNext

(* The invariant holds of the scheduler's queue.                           *)
LEMMA SchedulerInductive == ASSUME Patient PROVE SchedulerSpec => []SchedulerIInv
<1>1. SchedulerIInv /\ [SchedulerNext]_schedulerVars => SchedulerIInv'
  BY NextSchedulerIInv
<1> QED
  BY InitSchedulerIInv, <1>1, PTL DEF SchedulerSpec

(* A plan whose commit was not answered is made again, but never more      *)
(* often than max_attempts says, also where rows are used anew.            *)
THEOREM PlanRepeatsCounted ==
    ASSUME Patient PROVE SchedulerSpec => []RepeatsAreCounted
<1>1. SchedulerIInv => RepeatsAreCounted
  BY DEF SchedulerIInv, AttemptsCover, RepeatsAreCounted
<1> QED
  BY SchedulerInductive, <1>1, PTL

(* A set in which any two elements are the same has at most one. *)
LEMMA AtMostOne ==
    ASSUME NEW S, \A x, y \in S : x = y
    PROVE  Cardinality(S) <= 1
<1>1. CASE S = {}
  BY <1>1, FS_EmptySet
<1>2. ASSUME NEW x \in S PROVE Cardinality(S) <= 1
  <2>1. S = {x}
    OBVIOUS
  <2>2. Cardinality({x}) = 1
    BY FS_Singleton
  <2> QED
    BY <2>1, <2>2
<1> QED
  BY <1>1, <1>2

(* Whatever becomes of its jobs, the scheduler never has two plans of one  *)
(* domain under way, nor two of one day, as long as a job that runs past   *)
(* STALE_AFTER belongs to a worker that died.                              *)
THEOREM PlansAreNotDoubled ==
    ASSUME Patient PROVE SchedulerSpec => []OneScheduledPlan
<1>1. SchedulerIInv => OneScheduledPlan
  <2> SUFFICES ASSUME OnePlanEach, NEW d \in Domains
               PROVE  /\ Cardinality({j \in {k \in Plans(d) : scheduled[k]} \cap Waiting(d) :
                                        steps[j] = 0}) <= 1
                      /\ Cardinality({j \in {k \in Plans(d) : scheduled[k]} : today[j]}) <= 1
    BY DEF SchedulerIInv, OneScheduledPlan
  <2> DEFINE Open == {j \in {k \in Plans(d) : scheduled[k]} \cap Waiting(d) : steps[j] = 0}
             Todays == {j \in {k \in Plans(d) : scheduled[k]} : today[j]}
  <2>1. \A j, k \in Open : j = k
    BY DEF OnePlanEach, UnderWay, Plans, Waiting
  <2>2. \A j, k \in Todays : j = k
    BY DEF OnePlanEach, UnderWay, Plans
  <2> QED
    BY <2>1, <2>2, AtMostOne
<1> QED
  BY SchedulerInductive, <1>1, PTL
=============================================================================
