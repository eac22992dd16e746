---------------------------- MODULE CritiqueLoop ----------------------------
(***************************************************************************)
(* How the organization comes to believe a hypothesis or to drop it: the   *)
(* Researcher proposes it and gathers evidence (roles/researcher.py,       *)
(* corroborator.py, resolver.py), the Skeptic raises and settles critiques *)
(* (skeptic.py), the Historian decides by fixed rules (historian.py), the  *)
(* owner challenges (owner.py), and the Strategist sends stuck hypotheses  *)
(* back (strategy.py).                                                     *)
(*                                                                         *)
(* Each role reads memory, talks to the model outside any transaction, and *)
(* writes what follows in a second transaction: Read and one of the        *)
(* ...Done actions, with other workers and the owner between. The queue    *)
(* keeps the promise of Pipeline: a job is taken once or given up, and the *)
(* next step is queued by the transaction that calls for it.               *)
(*                                                                         *)
(* What the model answers is arbitrary within the code's limits. Of        *)
(* numbers, what the rules compare is kept: confidence against REJECT_AT   *)
(* and ACCEPT_AT, supporting sites against MIN_INDEPENDENT_SOURCES,        *)
(* severity against BLOCKING_SEVERITY and FATAL_SEVERITY.                  *)
(***************************************************************************)
EXTENDS Integers, FiniteSets

CONSTANTS
    Hypotheses,
    Refines,      \* pairs <<h, o>>: h was proposed to refine o
    Critiques,    \* every critique that may ever be raised
    Of,           \* [Critiques -> Hypotheses], its target
    Severity,     \* [Critiques -> 1..5]
    MaxRounds,    \* resolver.MAX_ROUNDS
    MaxLifetime,  \* historian.MAX_LIFETIME_CRITIQUES
    Slots,        \* bound: jobs of the loop waiting or running at once
    MaxStarts     \* bound: how often the loop is started from outside

ASSUME CritiqueLoopAssumption ==
    /\ Hypotheses # {}
    /\ Refines \subseteq Hypotheses \X Hypotheses
    /\ Of \in [Critiques -> Hypotheses]
    /\ Severity \in [Critiques -> 1..5]
    /\ MaxRounds \in Nat \ {0}
    /\ MaxLifetime \in Nat
    /\ MaxStarts \in Nat
    /\ IsFiniteSet(Critiques)

VARIABLES
    hypothesis, \* hypotheses.status, "absent" before it is proposed
    confidence, \* the current assessment: "low" <= REJECT_AT, "high" >= ACCEPT_AT
    supported,  \* do enough independent sites support it?
    critique,   \* critiques.status, "absent" before it is raised
    job,        \* [Slots -> the job in the slot]
    exhausted,  \* has a resolve job of the last round succeeded for it?
    gaveUp,     \* history: has a job of the loop on it failed for good?
    starts      \* history: how often the loop was started from outside

memory == <<hypothesis, confidence, supported, critique>>
loop   == <<job, exhausted, gaveUp, starts>>
vars   == <<memory, loop>>

Levels    == {"low", "middle", "high"}
Verdicts  == {"reject", "undecided"}
Outcomes  == {"rejected", "retired", "superseded"}
LiveStatuses == {"proposed", "under_review", "accepted"}
Settlings == {"upheld", "addressed", "dismissed"}

(* kind "none": the slot is free. read: the role has read memory and saw   *)
(* the critiques in sees open. verdict: what the Skeptic found (record).   *)
Jobs == [kind: {"none", "resolve", "review", "record"}, of: Hypotheses,
         round: 0..MaxRounds, verdict: Verdicts, read: BOOLEAN, sees: SUBSET Critiques]

(* Type invariant; among others no job of the loop goes past MaxRounds.    *)
TypeOK ==
    /\ hypothesis \in [Hypotheses -> {"absent"} \cup LiveStatuses \cup Outcomes]
    /\ confidence \in [Hypotheses -> Levels]
    /\ supported  \in [Hypotheses -> BOOLEAN]
    /\ critique   \in [Critiques -> {"absent", "open"} \cup Settlings]
    /\ job        \in [Slots -> Jobs]
    /\ exhausted  \in [Hypotheses -> BOOLEAN]
    /\ gaveUp     \in [Hypotheses -> BOOLEAN]
    /\ starts     \in 0..MaxStarts

NewJob(kind, h, round, verdict) ==
    [kind |-> kind, of |-> h, round |-> round, verdict |-> verdict,
     read |-> FALSE, sees |-> {}]

(* A free slot, as a job that is done leaves it. *)
Free == NewJob("none", CHOOSE h \in Hypotheses : TRUE, 0, "undecided")

Init ==
    /\ hypothesis = [h \in Hypotheses |-> "absent"]
    /\ confidence = [h \in Hypotheses |-> "low"]
    /\ supported  = [h \in Hypotheses |-> FALSE]
    /\ critique   = [c \in Critiques |-> "absent"]
    /\ job        = [s \in Slots |-> Free]
    /\ exhausted  = [h \in Hypotheses |-> FALSE]
    /\ gaveUp     = [h \in Hypotheses |-> FALSE]
    /\ starts     = 0
-----------------------------------------------------------------------------
(* What memory says.                                                       *)

Live(h)        == hypothesis[h] \in LiveStatuses
CritiquesOf(h) == {c \in Critiques : Of[c] = h /\ critique[c] # "absent"}
Unraised(h)    == {c \in Critiques : Of[c] = h /\ critique[c] = "absent"}
Open(h)        == {c \in CritiquesOf(h) : critique[c] = "open"}

(* blocking: the critiques that stand in the way of acceptance. *)
Blocking(h) ==
    {c \in CritiquesOf(h) : critique[c] \in {"open", "upheld"} /\ Severity[c] >= 3}

OpenBlocking(h) == {c \in Blocking(h) : critique[c] = "open"}

(* decide, rule by rule. *)
Fatal(h)    == \E c \in CritiquesOf(h) : critique[c] = "upheld" /\ Severity[c] >= 5
Reject(h, verdict) == verdict = "reject" \/ confidence[h] = "low" \/ Fatal(h)
Accept(h)   == confidence[h] = "high" /\ supported[h] /\ Blocking(h) = {}

Decide(h, verdict) ==
    IF Reject(h, verdict) THEN "rejected"
    ELSE IF Accept(h) THEN "accepted" ELSE "under_review"
-----------------------------------------------------------------------------
(* The loop is started from outside.                                       *)

Start(kind, h, round) ==
    /\ starts < MaxStarts
    /\ starts' = starts + 1
    /\ \E s \in Slots :
          /\ job[s].kind = "none"
          /\ job' = [job EXCEPT ![s] = NewJob(kind, h, round, "undecided")]
    /\ UNCHANGED <<exhausted, gaveUp>>

(* More evidence may bring enough independent sites; it takes none away.   *)
MoreSupport(h) == supported' \in {supported, [supported EXCEPT ![h] = TRUE]}

(* The Researcher proposes it, and sends it for review. *)
Propose(h, level) ==
    /\ hypothesis[h] = "absent"
    /\ \A o \in Hypotheses : <<h, o>> \in Refines => hypothesis[o] # "absent"
    /\ hypothesis' = [hypothesis EXCEPT ![h] = "proposed"]
    /\ confidence' = [confidence EXCEPT ![h] = level]
    /\ MoreSupport(h)
    /\ Start("review", h, 0)
    /\ UNCHANGED critique

(* Research or corroboration touched a hypothesis that was live when it    *)
(* was read: evidence, and a fresh review.                                 *)
Investigate(h) ==
    /\ hypothesis[h] # "absent"
    /\ MoreSupport(h)
    /\ Start("review", h, 0)
    /\ UNCHANGED <<hypothesis, confidence, critique>>

\* Mutated form of Challenge: the critique is recorded and nothing follows.
Challenge_Unheard(h, c) ==
    /\ Live(h) /\ c \in Unraised(h)
    /\ critique' = [critique EXCEPT ![c] = "open"]
    /\ UNCHANGED <<hypothesis, confidence, supported, loop>>

(* owner.challenge: the owner's critique starts fresh rounds. *)
Challenge(h, c) ==
    /\ Live(h) /\ c \in Unraised(h)
    /\ critique' = [critique EXCEPT ![c] = "open"]
    /\ Start("resolve", h, 1)
    /\ UNCHANGED <<hypothesis, confidence, supported>>

(* second_attempt_candidates: what the Strategist sends back whatever the   *)
(* model plans. A job given up is not pending; at most two a day are sent.  *)
SecondAttempts ==
    {h \in Hypotheses :
        /\ hypothesis[h] = "under_review" /\ confidence[h] = "high"
        /\ Blocking(h) # {} /\ Cardinality(CritiquesOf(h)) < MaxLifetime
        /\ exhausted[h]
        /\ \A s \in Slots : job[s].kind \in {"resolve", "review"} => job[s].of # h}

(* The Strategist sends it back, by its own rule for stuck hypotheses or by *)
(* its plan, or the owner does from the command line. Either chose it in an *)
(* earlier transaction, and the one that enqueues does not look again.     *)
SendBack(h) ==
    /\ hypothesis[h] # "absent"
    /\ Start("resolve", h, 1)
    /\ UNCHANGED memory
-----------------------------------------------------------------------------
(* The roles at work on the job in slot s.                                 *)

(* The job is replaced by its follow-up, or its slot becomes free. *)
Becomes(s, next) == job' = [job EXCEPT ![s] = next]

(* A resolve job of the last round that succeeds, whatever it did.         *)
Exhaust(s) ==
    exhausted' = [exhausted EXCEPT ![job[s].of] = @ \/ job[s].round >= MaxRounds]

NothingToDo(s) ==
    \/ ~Live(job[s].of)
    \/ job[s].kind = "resolve" /\ Open(job[s].of) = {}

(* prepare: the Researcher or the Skeptic reads memory. *)
Read(s) ==
    /\ job[s].kind \in {"resolve", "review"} /\ ~job[s].read
    /\ ~NothingToDo(s)
    /\ job' = [job EXCEPT ![s].read = TRUE, ![s].sees = Open(job[s].of)]
    /\ UNCHANGED <<memory, exhausted, gaveUp, starts>>

(* The hypothesis is settled, or nothing is open: the job ends there. *)
Skip(s) ==
    /\ job[s].kind \in {"resolve", "review"} /\ ~job[s].read
    /\ NothingToDo(s)
    /\ Becomes(s, Free)
    /\ IF job[s].kind = "resolve" THEN Exhaust(s) ELSE UNCHANGED exhausted
    /\ UNCHANGED <<memory, gaveUp, starts>>

(* resolver: the evidence is stored, the Skeptic is to judge by it. *)
ResolveDone(s) ==
    LET j == job[s] IN
    /\ j.kind = "resolve" /\ j.read
    /\ MoreSupport(j.of)
    /\ Exhaust(s)
    /\ Becomes(s, NewJob("review", j.of, j.round, "undecided"))
    /\ UNCHANGED <<hypothesis, confidence, critique, gaveUp, starts>>

(* skeptic: the critiques that were open when it read are settled or left, *)
(* at most three are raised (one in later rounds), and the Historian is to *)
(* record the verdict.                                                     *)
NewCritiques(round) == IF round = 0 THEN 3 ELSE 1

ReviewDone(s, settled, as, new, level, verdict) ==
    LET j == job[s] IN
    /\ j.kind = "review" /\ j.read
    /\ settled \subseteq j.sees
    /\ new \subseteq Unraised(j.of) /\ Cardinality(new) <= NewCritiques(j.round)
    /\ critique' = [c \in Critiques |-> IF c \in new THEN "open"
                                        ELSE IF c \in settled THEN as[c]
                                        ELSE critique[c]]
    /\ confidence' = [confidence EXCEPT ![j.of] = level]
    /\ MoreSupport(j.of)
    /\ Becomes(s, NewJob("record", j.of, j.round, verdict))
    /\ UNCHANGED <<hypothesis, exhausted, gaveUp, starts>>

\* Mutated form of StillLive: the Historian does not look whether it is settled.
StillLive_Always(h) == TRUE
StillLive(h) == Live(h)

\* Mutated form of NextRound: the round is not counted.
NextRound_Same(round) == round
NextRound(round)      == round + 1

MoreRounds(round) == round < MaxRounds

\* Mutated form of HeardOut: the limit applies to open critiques alone.
HeardOut_Open(h) == Cardinality(Open(h)) > MaxLifetime
HeardOut(h)      == Cardinality(CritiquesOf(h)) >= MaxLifetime

(* historian: decide, send back or retire, and supersede what an accepted  *)
(* hypothesis refines. All of it reads memory in the writing transaction.  *)
RecordDone(s) ==
    LET j        == job[s]
        h        == j.of
        decided  == Decide(h, j.verdict)
        disputed == decided = "under_review" /\ OpenBlocking(h) # {}
        again    == disputed /\ MoreRounds(j.round)
        status   == IF disputed /\ ~again /\ HeardOut(h) THEN "retired" ELSE decided
    IN
    /\ j.kind = "record"
    /\ StillLive(h)
    /\ hypothesis' = [o \in Hypotheses |->
          IF o = h THEN status
          ELSE IF status = "accepted" /\ <<h, o>> \in Refines /\ Live(o) THEN "superseded"
          ELSE hypothesis[o]]
    /\ Becomes(s, IF again THEN NewJob("resolve", h, NextRound(j.round), "undecided")
                           ELSE Free)
    /\ UNCHANGED <<confidence, supported, critique, exhausted, gaveUp, starts>>

RecordSkipped(s) ==
    /\ job[s].kind = "record" /\ ~StillLive(job[s].of)
    /\ Becomes(s, Free)
    /\ UNCHANGED <<memory, exhausted, gaveUp, starts>>

(* The attempt fails or its worker dies; the job will read memory anew. *)
Interrupt(s) ==
    /\ job[s].read
    /\ job' = [job EXCEPT ![s].read = FALSE, ![s].sees = {}]
    /\ UNCHANGED <<memory, exhausted, gaveUp, starts>>

(* Its last attempt fails: the job is given up, and nothing follows. *)
GiveUp(s) ==
    /\ job[s].kind # "none"
    /\ Becomes(s, Free)
    /\ gaveUp' = [gaveUp EXCEPT ![job[s].of] = TRUE]
    /\ UNCHANGED <<memory, exhausted, starts>>

Review(s) ==
    \E settled \in SUBSET job[s].sees, new \in SUBSET Unraised(job[s].of),
       level \in Levels, verdict \in Verdicts :
        \E as \in [settled -> Settlings] : ReviewDone(s, settled, as, new, level, verdict)

Outside ==
    \E h \in Hypotheses :
        \/ \E level \in Levels : Propose(h, level)
        \/ Investigate(h) \/ SendBack(h)
        \/ \E c \in Critiques : Challenge(h, c)

Finishes(s) == Skip(s) \/ ResolveDone(s) \/ Review(s) \/ RecordDone(s) \/ RecordSkipped(s)

Next ==
    \/ Outside
    \/ \E s \in Slots : Read(s) \/ Finishes(s) \/ Interrupt(s) \/ GiveUp(s)

Spec == Init /\ [][Next]_vars

(* The queue settles every job (Pipeline): it succeeds or is given up, and *)
(* either changes what its slot holds.                                     *)
Fairness == \A s \in Slots : WF_vars(GiveUp(s) \/ Finishes(s))

FairSpec == Spec /\ Fairness
-----------------------------------------------------------------------------
(* Properties.                                                             *)

Underway(h) == \E s \in Slots : job[s].kind # "none" /\ job[s].of = h
Quiet(h)    == Live(h) /\ ~Underway(h) /\ ~gaveUp[h]

(* A belief the organization has dropped stays dropped, whatever reviews,  *)
(* verdicts and challenges were still on their way.                        *)
DroppedForGood ==
    [][\A h \in Hypotheses : hypothesis[h] \in Outcomes => hypothesis'[h] = hypothesis[h]]_vars

(* What is accepted, and that nothing is under way to revisit, meets the   *)
(* rules now, not only when it was accepted: a challenge, a new review or  *)
(* an upheld critique never leaves a stale acceptance standing.            *)
AcceptedIsEarned ==
    \A h \in Hypotheses : Quiet(h) /\ hypothesis[h] = "accepted" => Accept(h)

(* A serious critique is not forgotten: it stays open only while a job is  *)
(* to look at it, or once the rounds are used up, and then only on a       *)
(* hypothesis that has not had all the critiques it is worth: past that it *)
(* is retired (docs/hypothesis-quality.md, "Giving up"). One that only     *)
(* its critiques keep from acceptance is found for a second attempt.       *)
NoCritiqueForgotten ==
    \A h \in Hypotheses : Quiet(h) /\ OpenBlocking(h) # {} =>
        /\ exhausted[h] /\ Cardinality(CritiquesOf(h)) < MaxLifetime
        /\ hypothesis[h] = "under_review" /\ confidence[h] = "high" => h \in SecondAttempts

(* The loop comes to an end, however the model answers: what is started is *)
(* settled within MaxRounds rounds.                                        *)
LoopEnds == \A s \in Slots : job[s].kind # "none" ~> job[s].kind = "none"
=============================================================================
