------------------------- MODULE CritiqueLoopProofs -------------------------
(***************************************************************************)
(* Proofs about CritiqueLoop, for any number of hypotheses, critiques and  *)
(* jobs and any limits.                                                    *)
(***************************************************************************)
EXTENDS CritiqueLoop, FiniteSetTheorems, TLAPS

(* A job at work on the kinds of step that follow one another.             *)
Has(h, kinds) == \E s \in Slots : job[s].kind \in kinds /\ job[s].of = h

(* A review sees critiques of its own hypothesis only.                     *)
SeesItsOwn == \A s \in Slots : \A c \in job[s].sees : Of[c] = job[s].of

(* A verdict of the last round is that of a round that was resolved.       *)
LastRound ==
    \A s \in Slots :
        job[s].kind \in {"review", "record"} /\ job[s].round >= MaxRounds
            => exhausted[job[s].of]

(* An acceptance that the rules no longer bear out is about to be decided  *)
(* again: a verdict is on its way, or what is open is to be resolved.      *)
StaleIsRevisited(h) ==
    hypothesis[h] = "accepted" /\ ~gaveUp[h] /\ ~Accept(h) =>
        \/ Has(h, {"review", "record"})
        \/ Has(h, {"resolve"}) /\ Open(h) # {}

(* A serious critique is worked on, or has had all its rounds.             *)
OpenIsWorkedOn(h) ==
    Live(h) /\ ~gaveUp[h] /\ OpenBlocking(h) # {} =>
        \/ Has(h, {"resolve", "review", "record"})
        \/ exhausted[h] /\ Cardinality(CritiquesOf(h)) < MaxLifetime

(* The inductive invariant. *)
Typed == TypeOK /\ SeesItsOwn
IInv ==
    /\ Typed
    /\ LastRound
    /\ \A h \in Hypotheses : StaleIsRevisited(h) /\ OpenIsWorkedOn(h)
-----------------------------------------------------------------------------
(* Typing.                                                                 *)

Statuses == {"absent"} \cup LiveStatuses \cup Outcomes

LEMMA Numbers == MaxRounds \in Nat /\ MaxRounds >= 1 /\ 0 \in 0..MaxRounds /\ MaxLifetime \in Nat
BY CritiqueLoopAssumption

LEMMA NewJobTyped ==
    ASSUME NEW kind \in {"none", "resolve", "review", "record"}, NEW h \in Hypotheses,
           NEW round \in 0..MaxRounds, NEW verdict \in Verdicts
    PROVE  NewJob(kind, h, round, verdict) \in Jobs
BY DEF NewJob, Jobs

LEMMA FreeTyped == Free \in Jobs
<1>1. (CHOOSE h \in Hypotheses : TRUE) \in Hypotheses
  BY CritiqueLoopAssumption
<1> QED
  BY <1>1, NewJobTyped, Numbers DEF Free, Verdicts

LEMMA TypeInitially == Init => Typed
<1> SUFFICES ASSUME Init PROVE Typed
  OBVIOUS
<1>1. 0 \in 0..MaxStarts
  BY CritiqueLoopAssumption
<1>2. Free \in Jobs /\ Free.sees = {}
  BY FreeTyped DEF Free, NewJob
<1> QED
  BY <1>1, <1>2 DEF Init, Typed, TypeOK, SeesItsOwn, Levels

(* A new job replaces that of a slot, and sees nothing yet.                *)
LEMMA BecomesTyped ==
    ASSUME Typed, NEW s \in Slots, NEW j \in Jobs, j.sees = {},
           job' = [job EXCEPT ![s] = j]
    PROVE  job' \in [Slots -> Jobs] /\ SeesItsOwn'
BY DEF Typed, TypeOK, SeesItsOwn

LEMMA StartTyped ==
    ASSUME Typed, NEW kind \in {"resolve", "review"}, NEW h \in Hypotheses,
           NEW round \in 0..MaxRounds, Start(kind, h, round)
    PROVE  /\ job' \in [Slots -> Jobs] /\ SeesItsOwn' /\ starts' \in 0..MaxStarts
           /\ exhausted' = exhausted /\ gaveUp' = gaveUp
<1>1. NewJob(kind, h, round, "undecided") \in Jobs /\ NewJob(kind, h, round, "undecided").sees = {}
  BY NewJobTyped DEF Verdicts, NewJob
<1>2. starts' \in 0..MaxStarts
  <2>1. MaxStarts \in Nat /\ starts \in 0..MaxStarts
    BY CritiqueLoopAssumption DEF Typed, TypeOK
  <2> QED
    BY <2>1 DEF Start
<1>3. PICK s \in Slots : job' = [job EXCEPT ![s] = NewJob(kind, h, round, "undecided")]
  BY DEF Start
<1> QED
  BY <1>1, <1>2, <1>3, BecomesTyped DEF Start

LEMMA SupportTyped ==
    ASSUME TypeOK, NEW h \in Hypotheses, MoreSupport(h)
    PROVE  /\ supported' \in [Hypotheses -> BOOLEAN]
           /\ \A g \in Hypotheses : supported[g] => supported'[g]
BY DEF TypeOK, MoreSupport

LEMMA ExhaustTyped ==
    ASSUME TypeOK, NEW s \in Slots, Exhaust(s)
    PROVE  /\ exhausted' \in [Hypotheses -> BOOLEAN]
           /\ \A g \in Hypotheses : exhausted[g] => exhausted'[g]
           /\ job[s].round >= MaxRounds => exhausted'[job[s].of]
<1>1. job[s].of \in Hypotheses
  BY DEF TypeOK, Jobs
<1> QED
  BY <1>1 DEF TypeOK, Exhaust

LEMMA TypedNext == ASSUME Typed, [Next]_vars PROVE Typed'
<1>1. ASSUME NEW h \in Hypotheses, NEW level \in Levels, Propose(h, level) PROVE Typed'
  <2>1. hypothesis' \in [Hypotheses -> Statuses] /\ confidence' \in [Hypotheses -> Levels]
    BY <1>1 DEF Propose, Typed, TypeOK, Statuses, LiveStatuses
  <2> QED
    BY <1>1, <2>1, StartTyped, SupportTyped, Numbers DEF Propose, Typed, TypeOK, Statuses
<1>2. ASSUME NEW h \in Hypotheses, Investigate(h) PROVE Typed'
  BY <1>2, StartTyped, SupportTyped, Numbers DEF Investigate, Typed, TypeOK
<1>3. ASSUME NEW h \in Hypotheses, NEW c \in Critiques, Challenge(h, c) PROVE Typed'
  <2>1. critique' \in [Critiques -> {"absent", "open"} \cup Settlings] /\ 1 \in 0..MaxRounds
    BY <1>3, Numbers DEF Challenge, Typed, TypeOK
  <2> QED
    BY <1>3, <2>1, StartTyped DEF Challenge, Typed, TypeOK
<1>4. ASSUME NEW h \in Hypotheses, SendBack(h) PROVE Typed'
  <2>1. 1 \in 0..MaxRounds
    BY Numbers
  <2> QED
    BY <1>4, <2>1, StartTyped DEF SendBack, memory, Typed, TypeOK
<1>5. ASSUME NEW s \in Slots, Read(s) PROVE Typed'
  <2>1. Open(job[s].of) \in SUBSET Critiques /\ \A c \in Open(job[s].of) : Of[c] = job[s].of
    BY DEF Open, CritiquesOf
  <2>2. job[s] \in Jobs
    BY DEF Typed, TypeOK
  <2>3. [job[s] EXCEPT !.read = TRUE, !.sees = Open(job[s].of)] \in Jobs
    BY <2>1, <2>2 DEF Jobs
  <2>4. job' = [job EXCEPT ![s] = [job[s] EXCEPT !.read = TRUE, !.sees = Open(job[s].of)]]
    BY <1>5 DEF Read, Typed, TypeOK
  <2>5. job' \in [Slots -> Jobs]
    BY <2>3, <2>4 DEF Typed, TypeOK
  <2>6. SeesItsOwn'
    BY <2>1, <2>2, <2>4 DEF Jobs, Typed, TypeOK, SeesItsOwn
  <2> QED
    BY <1>5, <2>5, <2>6 DEF Read, memory, Typed, TypeOK
<1>6. ASSUME NEW s \in Slots, Skip(s) PROVE Typed'
  <2>1. job' \in [Slots -> Jobs] /\ SeesItsOwn'
    BY <1>6, FreeTyped, BecomesTyped DEF Skip, Becomes, Free, NewJob
  <2>2. exhausted' \in [Hypotheses -> BOOLEAN]
    BY <1>6, ExhaustTyped DEF Skip, Typed, TypeOK
  <2> QED
    BY <1>6, <2>1, <2>2 DEF Skip, memory, Typed, TypeOK
<1>7. ASSUME NEW s \in Slots, ResolveDone(s) PROVE Typed'
  <2>1. job[s].of \in Hypotheses /\ job[s].round \in 0..MaxRounds
    BY DEF Typed, TypeOK, Jobs
  <2>2. job' \in [Slots -> Jobs] /\ SeesItsOwn'
    BY <1>7, <2>1, NewJobTyped, BecomesTyped DEF ResolveDone, Becomes, NewJob, Verdicts
  <2> QED
    BY <1>7, <2>1, <2>2, ExhaustTyped, SupportTyped DEF ResolveDone, Typed, TypeOK
<1>8. ASSUME NEW s \in Slots, Review(s) PROVE Typed'
  <2>1. PICK settled \in SUBSET job[s].sees, new \in SUBSET Unraised(job[s].of),
             level \in Levels, verdict \in Verdicts :
               \E as \in [settled -> Settlings] : ReviewDone(s, settled, as, new, level, verdict)
    BY <1>8 DEF Review
  <2>2. PICK as \in [settled -> Settlings] : ReviewDone(s, settled, as, new, level, verdict)
    BY <2>1
  <2>3. job[s].of \in Hypotheses /\ job[s].round \in 0..MaxRounds
    BY DEF Typed, TypeOK, Jobs
  <2>4. job' \in [Slots -> Jobs] /\ SeesItsOwn'
    BY <2>2, <2>3, NewJobTyped, BecomesTyped DEF ReviewDone, Becomes, NewJob
  <2>5. critique' \in [Critiques -> {"absent", "open"} \cup Settlings]
    BY <2>2 DEF ReviewDone, Typed, TypeOK
  <2>6. confidence' \in [Hypotheses -> Levels]
    BY <2>2, <2>3 DEF ReviewDone, Typed, TypeOK
  <2> QED
    BY <2>2, <2>3, <2>4, <2>5, <2>6, SupportTyped DEF ReviewDone, Typed, TypeOK
<1>9. ASSUME NEW s \in Slots, RecordDone(s) PROVE Typed'
  <2>1. job[s].of \in Hypotheses /\ job[s].round \in 0..MaxRounds
    BY DEF Typed, TypeOK, Jobs
  <2>2. job' \in [Slots -> Jobs] /\ SeesItsOwn'
    <3>1. CASE job' = [job EXCEPT ![s] = Free]
      BY <3>1, FreeTyped, BecomesTyped DEF Free, NewJob
    <3>2. CASE /\ MoreRounds(job[s].round)
               /\ job' = [job EXCEPT ![s] = NewJob("resolve", job[s].of,
                                                   NextRound(job[s].round), "undecided")]
      <4>1. NextRound(job[s].round) \in 0..MaxRounds
        BY <2>1, <3>2, Numbers DEF MoreRounds, NextRound
      <4> QED
        BY <2>1, <3>2, <4>1, NewJobTyped, BecomesTyped DEF NewJob, Verdicts
    <3> QED
      BY <1>9, <3>1, <3>2 DEF RecordDone, Becomes
  <2>3. hypothesis' \in [Hypotheses -> Statuses]
    <3>1. \A h, v : Decide(h, v) \in Statuses
      BY DEF Decide, Statuses, LiveStatuses, Outcomes
    <3>2. "retired" \in Statuses /\ "superseded" \in Statuses
      BY DEF Statuses, Outcomes
    <3> QED
      BY <1>9, <3>1, <3>2 DEF RecordDone, Typed, TypeOK, Statuses
  <2> QED
    BY <1>9, <2>2, <2>3 DEF RecordDone, Typed, TypeOK, Statuses
<1>10. ASSUME NEW s \in Slots, RecordSkipped(s) PROVE Typed'
  <2>1. job' \in [Slots -> Jobs] /\ SeesItsOwn'
    BY <1>10, FreeTyped, BecomesTyped DEF RecordSkipped, Becomes, Free, NewJob
  <2> QED
    BY <1>10, <2>1 DEF RecordSkipped, memory, Typed, TypeOK
<1>11. ASSUME NEW s \in Slots, Interrupt(s) PROVE Typed'
  <2>1. job[s] \in Jobs
    BY DEF Typed, TypeOK
  <2>2. [job[s] EXCEPT !.read = FALSE, !.sees = {}] \in Jobs
    BY <2>1 DEF Jobs
  <2>3. job' = [job EXCEPT ![s] = [job[s] EXCEPT !.read = FALSE, !.sees = {}]]
    BY <1>11 DEF Interrupt, Typed, TypeOK
  <2>4. [job[s] EXCEPT !.read = FALSE, !.sees = {}].sees = {}
    BY <2>1 DEF Jobs
  <2>5. job' \in [Slots -> Jobs] /\ SeesItsOwn'
    BY <2>2, <2>3, <2>4, BecomesTyped
  <2> QED
    BY <1>11, <2>5 DEF Interrupt, memory, Typed, TypeOK
<1>12. ASSUME NEW s \in Slots, GiveUp(s) PROVE Typed'
  <2>1. job' \in [Slots -> Jobs] /\ SeesItsOwn'
    BY <1>12, FreeTyped, BecomesTyped DEF GiveUp, Becomes, Free, NewJob
  <2> QED
    BY <1>12, <2>1 DEF GiveUp, memory, Typed, TypeOK
<1>13. CASE UNCHANGED vars
  BY <1>13 DEF vars, memory, loop, Typed, TypeOK, SeesItsOwn
<1> QED
  BY <1>1, <1>2, <1>3, <1>4, <1>5, <1>6, <1>7, <1>8, <1>9, <1>10, <1>11, <1>12, <1>13
     DEF Next, Outside, Finishes
-----------------------------------------------------------------------------
(* The last round.                                                         *)

LEMMA LastRoundKept ==
    ASSUME Typed, LastRound, NEW s \in Slots, NEW j, job' = [job EXCEPT ![s] = j],
           \A g \in Hypotheses : exhausted[g] => exhausted'[g],
           j.kind \in {"review", "record"} /\ j.round >= MaxRounds => exhausted'[j.of]
    PROVE  LastRound'
<1> SUFFICES ASSUME NEW t \in Slots, job'[t].kind \in {"review", "record"},
                    job'[t].round >= MaxRounds
             PROVE  exhausted'[job'[t].of]
  BY DEF LastRound
<1>1. CASE t = s
  BY <1>1 DEF Typed, TypeOK
<1>2. CASE t # s
  <2>1. job'[t] = job[t] /\ job[t].of \in Hypotheses
    BY <1>2 DEF Typed, TypeOK, Jobs
  <2> QED
    BY <2>1 DEF LastRound
<1> QED
  BY <1>1, <1>2

LEMMA StartKeepsLastRound ==
    ASSUME Typed, LastRound, NEW kind \in {"resolve", "review"}, NEW h \in Hypotheses,
           NEW round \in 0..MaxRounds, kind = "resolve" \/ round = 0, Start(kind, h, round)
    PROVE  LastRound'
<1>1. PICK s \in Slots : job' = [job EXCEPT ![s] = NewJob(kind, h, round, "undecided")]
  BY DEF Start
<1>2. LET j == NewJob(kind, h, round, "undecided")
      IN  ~(j.kind \in {"review", "record"} /\ j.round >= MaxRounds)
  BY Numbers DEF NewJob
<1> QED
  BY <1>1, <1>2, LastRoundKept DEF Start

LEMMA LastRoundNext == ASSUME Typed, LastRound, [Next]_vars PROVE LastRound'
<1>f. ~(Free.kind \in {"review", "record"})
  BY DEF Free, NewJob
<1>1. ASSUME NEW h \in Hypotheses, Outside PROVE LastRound'
  <2>1. 0 \in 0..MaxRounds /\ 1 \in 0..MaxRounds
    BY Numbers
  <2>2. \E g \in Hypotheses : Start("review", g, 0) \/ Start("resolve", g, 1)
    BY <1>1 DEF Outside, Propose, Investigate, SendBack, Challenge
  <2> QED
    BY <2>1, <2>2, StartKeepsLastRound
<1>2. ASSUME NEW s \in Slots, Read(s) PROVE LastRound'
  <2>1. \A t \in Slots : /\ job'[t].kind = job[t].kind /\ job'[t].of = job[t].of
                         /\ job'[t].round = job[t].round
    BY <1>2 DEF Read, Typed, TypeOK, Jobs
  <2> QED
    BY <1>2, <2>1 DEF Read, LastRound
<1>3. ASSUME NEW s \in Slots, Skip(s) PROVE LastRound'
  <2>1. \A g \in Hypotheses : exhausted[g] => exhausted'[g]
    BY <1>3, ExhaustTyped DEF Skip, Typed
  <2> QED
    BY <1>3, <1>f, <2>1, LastRoundKept DEF Skip, Becomes
<1>4. ASSUME NEW s \in Slots, ResolveDone(s) PROVE LastRound'
  <2> DEFINE j == NewJob("review", job[s].of, job[s].round, "undecided")
  <2>1. /\ \A g \in Hypotheses : exhausted[g] => exhausted'[g]
        /\ job[s].round >= MaxRounds => exhausted'[job[s].of]
    BY <1>4, ExhaustTyped DEF ResolveDone, Typed
  <2>2. j.of = job[s].of /\ j.round = job[s].round
    BY DEF NewJob
  <2>3. job' = [job EXCEPT ![s] = j]
    BY <1>4 DEF ResolveDone, Becomes
  <2> HIDE DEF j
  <2> QED
    BY <2>1, <2>2, <2>3, LastRoundKept
<1>5. ASSUME NEW s \in Slots, Review(s) PROVE LastRound'
  <2>1. PICK verdict \in Verdicts :
          /\ job' = [job EXCEPT ![s] = NewJob("record", job[s].of, job[s].round, verdict)]
          /\ job[s].kind = "review" /\ exhausted' = exhausted
    BY <1>5 DEF Review, ReviewDone, Becomes
  <2> DEFINE j == NewJob("record", job[s].of, job[s].round, verdict)
  <2>2. j.of = job[s].of /\ j.round = job[s].round
    BY DEF NewJob
  <2>3. j.kind \in {"review", "record"} /\ j.round >= MaxRounds => exhausted'[j.of]
    BY <2>1, <2>2 DEF LastRound
  <2> HIDE DEF j
  <2> QED
    BY <2>1, <2>3, LastRoundKept DEF j
<1>6. ASSUME NEW s \in Slots, RecordDone(s) PROVE LastRound'
  <2>1. PICK j : job' = [job EXCEPT ![s] = j] /\ ~(j.kind \in {"review", "record"})
    <3>1. ~(NewJob("resolve", job[s].of, NextRound(job[s].round), "undecided").kind
              \in {"review", "record"})
      BY DEF NewJob
    <3> QED
      BY <1>6, <1>f, <3>1 DEF RecordDone, Becomes
  <2> QED
    BY <1>6, <2>1, LastRoundKept DEF RecordDone
<1>7. ASSUME NEW s \in Slots, RecordSkipped(s) \/ GiveUp(s) PROVE LastRound'
  BY <1>7, <1>f, LastRoundKept DEF RecordSkipped, GiveUp, Becomes
<1>8. ASSUME NEW s \in Slots, Interrupt(s) PROVE LastRound'
  <2>1. \A t \in Slots : /\ job'[t].kind = job[t].kind /\ job'[t].of = job[t].of
                         /\ job'[t].round = job[t].round
    BY <1>8 DEF Interrupt, Typed, TypeOK, Jobs
  <2> QED
    BY <1>8, <2>1 DEF Interrupt, LastRound
<1>9. CASE UNCHANGED vars
  BY <1>9 DEF vars, loop, LastRound
<1>10. Outside => LastRound'
  BY <1>1, CritiqueLoopAssumption
<1> QED
  BY <1>2, <1>3, <1>4, <1>5, <1>6, <1>7, <1>8, <1>9, <1>10 DEF Next, Finishes
-----------------------------------------------------------------------------
(* One hypothesis.                                                         *)

Verdict == {"review", "record"}
Work    == {"resolve", "review", "record"}

(* Nothing was done to what memory says of it ...                          *)
Untouched(h) ==
    /\ confidence'[h] = confidence[h] /\ (supported[h] => supported'[h])
    /\ \A c \in Critiques : Of[c] = h => critique'[c] = critique[c]

(* ... and the work on it goes on.                                         *)
Keeps(h) ==
    /\ Has(h, Verdict) => Has(h, Verdict)'
    /\ Has(h, {"resolve"}) => Has(h, {"resolve"})' \/ Has(h, Verdict)'

LEMMA SameMemory ==
    ASSUME NEW h, Untouched(h)
    PROVE  /\ Accept(h) => Accept(h)'
           /\ Open(h)' = Open(h) /\ OpenBlocking(h)' = OpenBlocking(h)
           /\ CritiquesOf(h)' = CritiquesOf(h)
<1>1. CritiquesOf(h)' = CritiquesOf(h)
  BY DEF Untouched, CritiquesOf
<1>2. Open(h)' = Open(h) /\ Blocking(h)' = Blocking(h)
  BY <1>1 DEF Untouched, Open, Blocking, CritiquesOf
<1>3. OpenBlocking(h)' = OpenBlocking(h)
  BY <1>2 DEF Untouched, OpenBlocking, Blocking, CritiquesOf
<1>4. Accept(h) => Accept(h)'
  BY <1>2 DEF Untouched, Accept
<1> QED
  BY <1>1, <1>2, <1>3, <1>4

LEMMA KeepsOthers ==
    ASSUME Typed, NEW h, NEW s \in Slots, NEW j, job' = [job EXCEPT ![s] = j],
           \/ job[s].of # h \/ job[s].kind = "none"
           \/ j.of = h /\ j.kind \in Verdict
    PROVE  Keeps(h)
<1>1. \A t \in Slots : t # s => job'[t] = job[t]
  BY DEF Typed, TypeOK
<1>2. job'[s] = j
  BY DEF Typed, TypeOK
<1>3. Has(h, Verdict) => Has(h, Verdict)'
  BY <1>1, <1>2 DEF Has, Verdict
<1>4. Has(h, {"resolve"}) => Has(h, {"resolve"})' \/ Has(h, Verdict)'
  BY <1>1, <1>2 DEF Has
<1> QED
  BY <1>3, <1>4 DEF Keeps

LEMMA SameJobs ==
    ASSUME NEW h, \A t \in Slots : job'[t].kind = job[t].kind /\ job'[t].of = job[t].of
    PROVE  Keeps(h)
BY DEF Keeps, Has

LEMMA Works ==
    ASSUME Typed, NEW h, NEW s \in Slots, NEW j, job' = [job EXCEPT ![s] = j], j.of = h
    PROVE  \A kinds : j.kind \in kinds => Has(h, kinds)'
<1>1. job'[s] = j
  BY DEF Typed, TypeOK
<1> QED
  BY <1>1 DEF Has

LEMMA Undisturbed ==
    ASSUME NEW h, StaleIsRevisited(h), OpenIsWorkedOn(h), Untouched(h), Keeps(h),
           hypothesis'[h] = hypothesis[h], gaveUp[h] => gaveUp'[h], exhausted[h] => exhausted'[h]
    PROVE  StaleIsRevisited(h)' /\ OpenIsWorkedOn(h)'
<1>1. /\ Accept(h) => Accept(h)'
      /\ Open(h)' = Open(h) /\ OpenBlocking(h)' = OpenBlocking(h)
      /\ CritiquesOf(h)' = CritiquesOf(h)
  BY SameMemory
<1>2. Live(h)' = Live(h)
  BY DEF Live
<1>3. Has(h, Work) <=> Has(h, {"resolve"}) \/ Has(h, Verdict)
  BY DEF Has, Work, Verdict
<1>4. Has(h, Work)' <=> Has(h, {"resolve"})' \/ Has(h, Verdict)'
  BY DEF Has, Work, Verdict
<1>5. StaleIsRevisited(h)'
  BY <1>1 DEF StaleIsRevisited, Keeps, Verdict
<1>6. OpenIsWorkedOn(h)'
  BY <1>1, <1>2, <1>3, <1>4 DEF OpenIsWorkedOn, Keeps, Work
<1> QED
  BY <1>5, <1>6

LEMMA NotLiveIsFine ==
    ASSUME NEW h, hypothesis'[h] \notin LiveStatuses
    PROVE  StaleIsRevisited(h)' /\ OpenIsWorkedOn(h)'
BY DEF StaleIsRevisited, OpenIsWorkedOn, Live, LiveStatuses

LEMMA VerdictIsFine ==
    ASSUME NEW h, Has(h, Verdict)'
    PROVE  StaleIsRevisited(h)' /\ OpenIsWorkedOn(h)'
<1>1. Has(h, Work)'
  BY DEF Has, Verdict, Work
<1> QED
  BY <1>1 DEF StaleIsRevisited, OpenIsWorkedOn, Verdict, Work
-----------------------------------------------------------------------------
(* What a step does to the hypotheses.                                     *)

Fine(h) == StaleIsRevisited(h) /\ OpenIsWorkedOn(h)

LEMMA StartKeeps ==
    ASSUME Typed, NEW h, NEW kind, NEW g, NEW round, Start(kind, g, round)
    PROVE  /\ Keeps(h)
           /\ g = h => Has(h, {kind})'
           /\ exhausted' = exhausted /\ gaveUp' = gaveUp
<1>1. PICK s \in Slots : /\ job[s].kind = "none"
                         /\ job' = [job EXCEPT ![s] = NewJob(kind, g, round, "undecided")]
  BY DEF Start
<1>2. NewJob(kind, g, round, "undecided").kind = kind /\ NewJob(kind, g, round, "undecided").of = g
  BY DEF NewJob
<1>3. Keeps(h)
  BY <1>1, KeepsOthers
<1>4. g = h => Has(h, {kind})'
  BY <1>1, <1>2, Works
<1> QED
  BY <1>3, <1>4 DEF Start

LEMMA OutsideFine ==
    ASSUME Typed, Outside, NEW h \in Hypotheses, Fine(h)
    PROVE  Fine(h)'
<1>1. ASSUME NEW g \in Hypotheses, NEW level \in Levels, Propose(g, level) PROVE Fine(h)'
  <2>1. Keeps(h) /\ (g = h => Has(h, {"review"})') /\ exhausted' = exhausted /\ gaveUp' = gaveUp
    BY <1>1, StartKeeps DEF Propose
  <2>2. CASE g = h
    <3>1. Has(h, Verdict)'
      BY <2>1, <2>2 DEF Has, Verdict
    <3> QED
      BY <3>1, VerdictIsFine DEF Fine
  <2>3. CASE g # h
    <3>1. Untouched(h) /\ hypothesis'[h] = hypothesis[h]
      BY <1>1, <2>3, SupportTyped DEF Propose, Untouched, Typed, TypeOK
    <3> QED
      BY <2>1, <3>1, Undisturbed DEF Fine
  <2> QED
    BY <2>2, <2>3
<1>2. ASSUME NEW g \in Hypotheses, Investigate(g) \/ SendBack(g) PROVE Fine(h)'
  <2>1. Keeps(h) /\ exhausted' = exhausted /\ gaveUp' = gaveUp
    BY <1>2, StartKeeps DEF Investigate, SendBack
  <2>2. Untouched(h) /\ hypothesis'[h] = hypothesis[h]
    BY <1>2, SupportTyped DEF Investigate, SendBack, memory, Untouched, Typed
  <2> QED
    BY <2>1, <2>2, Undisturbed DEF Fine
<1>3. ASSUME NEW g \in Hypotheses, NEW c \in Critiques, Challenge(g, c) PROVE Fine(h)'
  <2>1. Keeps(h) /\ (g = h => Has(h, {"resolve"})') /\ exhausted' = exhausted /\ gaveUp' = gaveUp
    BY <1>3, StartKeeps DEF Challenge
  <2>2. CASE g = h
    <3>1. Has(h, {"resolve"})' /\ Has(h, Work)'
      BY <2>1, <2>2 DEF Has, Work
    <3>2. c \in Open(h)'
      BY <1>3, <2>2 DEF Challenge, Unraised, Open, CritiquesOf, Typed, TypeOK
    <3>3. StaleIsRevisited(h)'
      BY <3>1, <3>2 DEF StaleIsRevisited
    <3>4. OpenIsWorkedOn(h)'
      BY <3>1 DEF OpenIsWorkedOn, Work
    <3> QED
      BY <3>3, <3>4 DEF Fine
  <2>3. CASE g # h
    <3>1. Untouched(h) /\ hypothesis'[h] = hypothesis[h]
      BY <1>3, <2>3 DEF Challenge, Unraised, Untouched, Typed, TypeOK
    <3> QED
      BY <2>1, <3>1, Undisturbed DEF Fine
  <2> QED
    BY <2>2, <2>3
<1> QED
  BY <1>1, <1>2, <1>3 DEF Outside

LEMMA ReadsFine ==
    ASSUME Typed, NEW s \in Slots, Read(s) \/ Interrupt(s), NEW h \in Hypotheses, Fine(h)
    PROVE  Fine(h)'
<1>1. \A t \in Slots : job'[t].kind = job[t].kind /\ job'[t].of = job[t].of
  BY DEF Read, Interrupt, Typed, TypeOK, Jobs
<1>2. UNCHANGED <<memory, exhausted, gaveUp>>
  BY DEF Read, Interrupt
<1> QED
  BY <1>1, <1>2, SameJobs, Undisturbed DEF memory, Untouched, Fine

LEMMA SkipFine ==
    ASSUME Typed, NEW s \in Slots, Skip(s), NEW h \in Hypotheses, Fine(h)
    PROVE  Fine(h)'
<1>1. job' = [job EXCEPT ![s] = Free] /\ UNCHANGED <<memory, gaveUp>>
  BY DEF Skip, Becomes
<1>2. exhausted[h] => exhausted'[h]
  BY ExhaustTyped DEF Skip, Typed
<1>3. Untouched(h)
  BY <1>1 DEF memory, Untouched
<1>4. CASE job[s].of # h
  BY <1>1, <1>2, <1>3, <1>4, KeepsOthers, Undisturbed DEF memory, Fine
<1>5. CASE job[s].of = h /\ ~Live(h)
  BY <1>1, <1>5, NotLiveIsFine DEF memory, Live, Fine
<1>6. CASE job[s].of = h /\ job[s].kind = "resolve" /\ Open(h) = {}
  <2>1. OpenBlocking(h)' = {}
    <3>1. OpenBlocking(h) = {}
      BY <1>6 DEF OpenBlocking, Blocking, Open
    <3> QED
      BY <1>3, <3>1, SameMemory
  <2>2. Has(h, Verdict) => Has(h, Verdict)'
    BY <1>1, <1>6 DEF Has, Verdict, Typed, TypeOK
  <2>3. Accept(h) => Accept(h)'
    BY <1>3, SameMemory
  <2>4. StaleIsRevisited(h)'
    BY <1>1, <1>6, <2>2, <2>3 DEF memory, Fine, StaleIsRevisited, Verdict
  <2>5. OpenIsWorkedOn(h)'
    BY <2>1 DEF OpenIsWorkedOn
  <2> QED
    BY <2>4, <2>5 DEF Fine
<1> QED
  BY <1>4, <1>5, <1>6 DEF Skip, NothingToDo

LEMMA ResolveFine ==
    ASSUME Typed, NEW s \in Slots, ResolveDone(s), NEW h \in Hypotheses, Fine(h)
    PROVE  Fine(h)'
<1> DEFINE j == NewJob("review", job[s].of, job[s].round, "undecided")
<1>1. /\ job' = [job EXCEPT ![s] = j] /\ j.of = job[s].of /\ j.kind \in Verdict
      /\ UNCHANGED <<hypothesis, confidence, critique, gaveUp>>
  BY DEF ResolveDone, Becomes, NewJob, Verdict
<1>2. exhausted[h] => exhausted'[h]
  BY ExhaustTyped DEF ResolveDone, Typed
<1>3. job[s].of \in Hypotheses
  BY DEF Typed, TypeOK, Jobs
<1>4. Untouched(h)
  BY <1>1, <1>3, SupportTyped DEF ResolveDone, Untouched, Typed
<1> HIDE DEF j
<1>5. Keeps(h)
  BY <1>1, KeepsOthers
<1> QED
  BY <1>1, <1>2, <1>4, <1>5, Undisturbed DEF Fine

LEMMA ReviewFine ==
    ASSUME Typed, NEW s \in Slots, Review(s), NEW h \in Hypotheses, Fine(h)
    PROVE  Fine(h)'
<1>1. PICK settled \in SUBSET job[s].sees, new \in SUBSET Unraised(job[s].of),
           level \in Levels, verdict \in Verdicts :
             \E as \in [settled -> Settlings] : ReviewDone(s, settled, as, new, level, verdict)
  BY DEF Review
<1>2. PICK as \in [settled -> Settlings] : ReviewDone(s, settled, as, new, level, verdict)
  BY <1>1
<1> DEFINE j == NewJob("record", job[s].of, job[s].round, verdict)
<1>3. /\ job' = [job EXCEPT ![s] = j] /\ j.of = job[s].of /\ j.kind = "record"
      /\ UNCHANGED <<hypothesis, exhausted, gaveUp>>
  BY <1>2 DEF ReviewDone, Becomes, NewJob
<1> HIDE DEF j
<1>4. CASE job[s].of = h
  <2>1. Has(h, Verdict)'
    BY <1>3, <1>4, Works DEF Verdict
  <2> QED
    BY <2>1, VerdictIsFine DEF Fine
<1>5. CASE job[s].of # h
  <2>1. \A c \in Critiques : Of[c] = h => c \notin settled /\ c \notin new
    BY <1>5 DEF Typed, SeesItsOwn, Unraised
  <2>2. critique' = [c \in Critiques |-> IF c \in new THEN "open"
                                         ELSE IF c \in settled THEN as[c]
                                         ELSE critique[c]]
    BY <1>2 DEF ReviewDone
  <2>3. confidence'[h] = confidence[h]
    BY <1>2, <1>5 DEF ReviewDone, Typed, TypeOK
  <2>4. supported[h] => supported'[h]
    <3>1. job[s].of \in Hypotheses
      BY DEF Typed, TypeOK, Jobs
    <3> QED
      BY <1>2, <3>1, SupportTyped DEF ReviewDone, Typed
  <2>5. Untouched(h)
    BY <2>1, <2>2, <2>3, <2>4 DEF Untouched
  <2>6. Keeps(h)
    BY <1>3, <1>5, KeepsOthers
  <2> QED
    BY <1>3, <2>5, <2>6, Undisturbed DEF Fine
<1> QED
  BY <1>4, <1>5

LEMMA RecordFine ==
    ASSUME Typed, LastRound, NEW s \in Slots, RecordDone(s), NEW h \in Hypotheses, Fine(h)
    PROVE  Fine(h)'
<1> DEFINE decided  == Decide(job[s].of, job[s].verdict)
           disputed == decided = "under_review" /\ OpenBlocking(job[s].of) # {}
           again    == disputed /\ MoreRounds(job[s].round)
           status   == IF disputed /\ ~again /\ HeardOut(job[s].of) THEN "retired" ELSE decided
           j        == IF again THEN NewJob("resolve", job[s].of, NextRound(job[s].round),
                                            "undecided")
                                ELSE Free
<1>1. /\ job[s].kind = "record"
      /\ hypothesis' = [o \in Hypotheses |->
            IF o = job[s].of THEN status
            ELSE IF status = "accepted" /\ <<job[s].of, o>> \in Refines /\ Live(o)
                 THEN "superseded"
            ELSE hypothesis[o]]
      /\ job' = [job EXCEPT ![s] = j]
      /\ UNCHANGED <<confidence, supported, critique, exhausted, gaveUp>>
  BY DEF RecordDone, Becomes
<1>2. Untouched(h)
  BY <1>1 DEF Untouched
<1>3. /\ Accept(h) => Accept(h)'
      /\ OpenBlocking(h)' = OpenBlocking(h) /\ CritiquesOf(h)' = CritiquesOf(h)
  BY <1>2, SameMemory
<1>4. CASE job[s].of = h
  <2>1. hypothesis'[h] = status
    BY <1>1, <1>4
  <2>2. CASE decided = "accepted"
    <3>1. Accept(h)
      BY <1>4, <2>2 DEF Decide
    <3>2. Blocking(h) = {} /\ OpenBlocking(h)' = {}
      BY <1>3, <3>1 DEF Accept, OpenBlocking
    <3> QED
      BY <1>3, <3>1, <3>2 DEF Fine, StaleIsRevisited, OpenIsWorkedOn
  <2>3. CASE decided = "rejected"
    <3>1. status \notin LiveStatuses
      BY <2>3 DEF LiveStatuses
    <3> QED
      BY <2>1, <3>1, NotLiveIsFine DEF Fine
  <2>4. CASE decided = "under_review"
    <3>1. status # "accepted"
      BY <2>4
    <3>2. StaleIsRevisited(h)'
      BY <2>1, <3>1 DEF StaleIsRevisited
    <3>3. CASE OpenBlocking(h) = {}
      BY <1>3, <3>2, <3>3 DEF Fine, OpenIsWorkedOn
    <3>4. CASE again
      <4>1. j.kind = "resolve" /\ j.of = h
        BY <1>4, <3>4 DEF NewJob
      <4> HIDE DEF j
      <4>2. job' = [job EXCEPT ![s] = j]
        BY <1>1
      <4>3. \A kinds : "resolve" \in kinds => Has(h, kinds)'
        BY <4>1, <4>2, Works
      <4>4. Has(h, Work)'
        BY <4>3 DEF Work
      <4> QED
        BY <3>2, <4>4 DEF Fine, OpenIsWorkedOn, Work
    <3>5. CASE disputed /\ ~again /\ HeardOut(h)
      <4>1. status \notin LiveStatuses
        BY <1>4, <3>5 DEF LiveStatuses
      <4> QED
        BY <2>1, <4>1, NotLiveIsFine DEF Fine
    <3>6. CASE disputed /\ ~again /\ ~HeardOut(h)
      <4>1. job[s].round \in Nat /\ MaxRounds \in Nat
        BY Numbers DEF Typed, TypeOK, Jobs
      <4>2. job[s].round >= MaxRounds
        BY <3>6, <4>1 DEF MoreRounds
      <4>3. exhausted'[h]
        BY <1>1, <1>4, <4>2 DEF LastRound
      <4>4. Cardinality(CritiquesOf(h)) \in Nat
        BY CritiqueLoopAssumption, FS_Subset, FS_CardinalityType DEF CritiquesOf
      <4>5. Cardinality(CritiquesOf(h)) < MaxLifetime
        BY <3>6, <4>4, Numbers DEF HeardOut
      <4> QED
        BY <1>3, <3>2, <4>3, <4>5 DEF Fine, OpenIsWorkedOn
    <3> QED
      BY <1>4, <2>4, <3>3, <3>4, <3>5, <3>6
  <2> QED
    BY <2>2, <2>3, <2>4 DEF Decide
<1>5. CASE job[s].of # h
  <2>1. CASE hypothesis'[h] = "superseded"
    BY <2>1, NotLiveIsFine DEF LiveStatuses, Fine
  <2>2. CASE hypothesis'[h] = hypothesis[h]
    <3> HIDE DEF j
    <3>1. Keeps(h)
      BY <1>1, <1>5, KeepsOthers
    <3> QED
      BY <1>1, <1>2, <2>2, <3>1, Undisturbed DEF Fine
  <2> QED
    BY <1>1, <1>5, <2>1, <2>2
<1> QED
  BY <1>4, <1>5

LEMMA EndsFine ==
    ASSUME Typed, NEW s \in Slots, RecordSkipped(s) \/ GiveUp(s), NEW h \in Hypotheses, Fine(h)
    PROVE  Fine(h)'
<1>1. job' = [job EXCEPT ![s] = Free] /\ UNCHANGED <<memory, exhausted>>
  BY DEF RecordSkipped, GiveUp, Becomes
<1>2. gaveUp[h] => gaveUp'[h]
  BY DEF RecordSkipped, GiveUp, Typed, TypeOK
<1>3. Untouched(h)
  BY <1>1 DEF memory, Untouched
<1>4. CASE job[s].of # h
  BY <1>1, <1>2, <1>3, <1>4, KeepsOthers, Undisturbed DEF memory, Fine
<1>5. CASE job[s].of = h /\ RecordSkipped(s)
  BY <1>1, <1>5, NotLiveIsFine DEF RecordSkipped, StillLive, memory, Live, Fine
<1>6. CASE job[s].of = h /\ GiveUp(s)
  <2>1. gaveUp'[h]
    BY <1>6 DEF GiveUp, Typed, TypeOK
  <2> QED
    BY <2>1 DEF Fine, StaleIsRevisited, OpenIsWorkedOn
<1> QED
  BY <1>4, <1>5, <1>6

LEMMA FineNext ==
    ASSUME Typed, LastRound, [Next]_vars, NEW h \in Hypotheses, Fine(h)
    PROVE  Fine(h)'
<1>1. CASE UNCHANGED vars
  BY <1>1 DEF vars, memory, loop, Fine, StaleIsRevisited, OpenIsWorkedOn, Has, Accept, Live,
              Open, OpenBlocking, Blocking, CritiquesOf
<1> QED
  BY <1>1, OutsideFine, ReadsFine, SkipFine, ResolveFine, ReviewFine, RecordFine, EndsFine
     DEF Next, Finishes
-----------------------------------------------------------------------------
(* The theorems.                                                           *)

LEMMA Initially == Init => IInv
<1> SUFFICES ASSUME Init PROVE IInv
  OBVIOUS
<1>1. Typed
  BY TypeInitially
<1>2. \A s \in Slots : job[s].kind = "none"
  BY DEF Init, Free, NewJob
<1>3. LastRound
  BY <1>2 DEF LastRound
<1>4. \A h \in Hypotheses : ~Live(h) /\ hypothesis[h] = "absent"
  BY DEF Init, Live, LiveStatuses
<1>5. \A h \in Hypotheses : StaleIsRevisited(h) /\ OpenIsWorkedOn(h)
  BY <1>4 DEF StaleIsRevisited, OpenIsWorkedOn
<1> QED
  BY <1>1, <1>3, <1>5 DEF IInv

(* The inductive invariant holds of every reachable state. *)
THEOREM Invariance == Spec => []IInv
<1>1. Init => IInv
  BY Initially
<1>2. IInv /\ [Next]_vars => IInv'
  <2> SUFFICES ASSUME IInv, [Next]_vars PROVE IInv'
    OBVIOUS
  <2>1. Typed' /\ LastRound'
    BY TypedNext, LastRoundNext DEF IInv
  <2>2. \A h \in Hypotheses : Fine(h)'
    BY FineNext DEF IInv, Fine
  <2> QED
    BY <2>1, <2>2 DEF IInv, Fine
<1> QED
  BY <1>1, <1>2, PTL DEF Spec

(* The state has its type: above all, no job goes past MAX_ROUNDS.         *)
THEOREM Typing == Spec => []TypeOK
<1>1. IInv => TypeOK
  BY DEF IInv, Typed
<1> QED
  BY <1>1, Invariance, PTL

(* What is accepted, with nothing under way to revisit it, meets the rules *)
(* of the Historian now.                                                   *)
THEOREM Earned == Spec => []AcceptedIsEarned
<1>1. IInv => AcceptedIsEarned
  BY DEF IInv, AcceptedIsEarned, StaleIsRevisited, Quiet, Underway, Has
<1> QED
  BY <1>1, Invariance, PTL

(* No serious critique is left open but by the limits of the loop.         *)
THEOREM Remembered == Spec => []NoCritiqueForgotten
<1>1. ASSUME IInv, NEW h \in Hypotheses, Quiet(h), OpenBlocking(h) # {}
      PROVE  exhausted[h] /\ Cardinality(CritiquesOf(h)) < MaxLifetime
  BY <1>1 DEF IInv, OpenIsWorkedOn, Quiet, Underway, Has
<1>2. ASSUME NEW h \in Hypotheses, Quiet(h)
      PROVE  \A s \in Slots : job[s].kind \in {"resolve", "review"} => job[s].of # h
  BY <1>2 DEF Quiet, Underway
<1>3. ASSUME NEW h \in Hypotheses, OpenBlocking(h) # {}
      PROVE  Blocking(h) # {}
  BY <1>3 DEF OpenBlocking
<1>4. IInv => NoCritiqueForgotten
  BY <1>1, <1>2, <1>3 DEF NoCritiqueForgotten, SecondAttempts
<1> QED
  BY <1>4, Invariance, PTL

(* Nothing revives a hypothesis that was rejected, retired or superseded.  *)
THEOREM NeverRevived == Spec => DroppedForGood
<1> DEFINE Stays == \A h \in Hypotheses : hypothesis[h] \in Outcomes => hypothesis'[h] = hypothesis[h]
<1>1. IInv /\ [Next]_vars => [Stays]_vars
  <2> SUFFICES ASSUME IInv, [Next]_vars PROVE Stays
    OBVIOUS
  <2>1. ASSUME NEW g \in Hypotheses, NEW level \in Levels, Propose(g, level) PROVE Stays
    BY <2>1 DEF Propose, IInv, Typed, TypeOK, Outcomes
  <2>2. ASSUME NEW s \in Slots, RecordDone(s) PROVE Stays
    <3>1. \A o \in Hypotheses :
            hypothesis'[o] # hypothesis[o] => o = job[s].of \/ Live(o)
      BY <2>2 DEF RecordDone, IInv, Typed, TypeOK
    <3>2. Live(job[s].of)
      BY <2>2 DEF RecordDone, StillLive
    <3> QED
      BY <3>1, <3>2 DEF Live, LiveStatuses, Outcomes
  <2>3. CASE hypothesis' = hypothesis
    BY <2>3
  <2>4. CASE Outside
    BY <2>1, <2>3, <2>4 DEF Outside, Investigate, SendBack, Challenge, memory
  <2>5. ASSUME NEW s \in Slots, Finishes(s) PROVE Stays
    BY <2>2, <2>3, <2>5 DEF Finishes, Skip, ResolveDone, Review, ReviewDone, RecordSkipped, memory
  <2>6. ASSUME NEW s \in Slots, Read(s) \/ Interrupt(s) \/ GiveUp(s) PROVE Stays
    BY <2>3, <2>6 DEF Read, Interrupt, GiveUp, memory
  <2>7. CASE UNCHANGED vars
    BY <2>3, <2>7 DEF vars, memory
  <2> QED
    BY <2>4, <2>5, <2>6, <2>7 DEF Next
<1> QED
  BY <1>1, Invariance, PTL DEF Spec, DroppedForGood
-----------------------------------------------------------------------------
(* Why the loop ends: how many jobs may still follow in a slot, its own    *)
(* included, if nothing is started from outside.                           *)
Stage(kind) == IF kind = "resolve" THEN 3 ELSE IF kind = "review" THEN 2 ELSE 1

Left(j) == IF j.kind = "none" THEN 0 ELSE 3 * (MaxRounds - j.round) + Stage(j.kind)

NearsItsEnd ==
    \A s \in Slots :
        /\ GiveUp(s) \/ Finishes(s) => Left(job'[s]) < Left(job[s])
        /\ job[s].kind # "none" => Left(job'[s]) <= Left(job[s])
        /\ job[s].kind = "none" => Left(job'[s]) <= 3 * MaxRounds + 2

LEMMA LeftOfJob ==
    ASSUME NEW j \in Jobs
    PROVE  /\ Left(j) \in Nat
           /\ j.kind = "none" <=> Left(j) = 0
BY Numbers DEF Jobs, Left, Stage

LEMMA LeftOfFree == Left(Free) = 0
BY DEF Free, NewJob, Left

(* A job that succeeds or is given up leaves at least one less to do.      *)
LEMMA DoneOrGivenUp ==
    ASSUME Typed, NEW s \in Slots, GiveUp(s) \/ Finishes(s)
    PROVE  Left(job'[s]) < Left(job[s])
<1> DEFINE j == job[s]
<1>1. j \in Jobs /\ job \in [Slots -> Jobs]
  BY DEF Typed, TypeOK
<1>2. j.round \in 0..MaxRounds /\ Left(j) \in Nat /\ MaxRounds \in Nat
  BY <1>1, LeftOfJob, Numbers DEF Jobs
<1>3. ASSUME j.kind # "none", job'[s] = Free PROVE Left(job'[s]) < Left(j)
  BY <1>1, <1>2, <1>3, LeftOfJob, LeftOfFree
<1>4. CASE GiveUp(s) \/ Skip(s) \/ RecordSkipped(s)
  <2>1. j.kind # "none" /\ job'[s] = Free
    BY <1>1, <1>4 DEF GiveUp, Skip, RecordSkipped, Becomes
  <2> QED
    BY <1>3, <2>1
<1>5. CASE ResolveDone(s)
  <2>1. j.kind = "resolve" /\ job'[s] = NewJob("review", j.of, j.round, "undecided")
    BY <1>1, <1>5 DEF ResolveDone, Becomes
  <2> QED
    BY <1>2, <2>1 DEF NewJob, Left, Stage
<1>6. CASE Review(s)
  <2>1. j.kind = "review" /\ \E verdict \in Verdicts :
                                job'[s] = NewJob("record", j.of, j.round, verdict)
    BY <1>1, <1>6 DEF Review, ReviewDone, Becomes
  <2> QED
    BY <1>2, <2>1 DEF NewJob, Left, Stage
<1>7. CASE RecordDone(s)
  <2>1. /\ j.kind = "record"
        /\ \/ job'[s] = Free
           \/ /\ j.round < MaxRounds
              /\ job'[s] = NewJob("resolve", j.of, j.round + 1, "undecided")
    BY <1>1, <1>7 DEF RecordDone, Becomes, MoreRounds, NextRound
  <2> QED
    BY <1>2, <1>3, <2>1 DEF NewJob, Left, Stage
<1> QED
  BY <1>4, <1>5, <1>6, <1>7 DEF Finishes

(* What is started takes a free slot.                                      *)
LEMMA Started ==
    ASSUME Typed, Outside, NEW s \in Slots
    PROVE  \/ job'[s] = job[s]
           \/ job[s].kind = "none" /\ Left(job'[s]) <= 3 * MaxRounds + 2
<1>1. PICK h \in Hypotheses, t \in Slots :
         /\ job[t].kind = "none"
         /\ \/ job' = [job EXCEPT ![t] = NewJob("review", h, 0, "undecided")]
            \/ job' = [job EXCEPT ![t] = NewJob("resolve", h, 1, "undecided")]
  BY DEF Outside, Propose, Investigate, SendBack, Challenge, Start
<1>2. job \in [Slots -> Jobs]
  BY DEF Typed, TypeOK
<1>3. /\ Left(NewJob("review", h, 0, "undecided")) <= 3 * MaxRounds + 2
      /\ Left(NewJob("resolve", h, 1, "undecided")) <= 3 * MaxRounds + 2
  BY Numbers DEF Left, NewJob, Stage
<1> QED
  BY <1>1, <1>2, <1>3

(* Every job that succeeds or is given up brings its slot nearer to being  *)
(* free, nothing takes it further away, and one start from outside brings  *)
(* 3 * MaxRounds + 2 jobs at most: with a queue that settles every job,    *)
(* this is why LoopEnds, whatever the model answers.                       *)
THEOREM EndsAfterItsRounds == Spec => [][NearsItsEnd]_vars
<1>1. IInv /\ [Next]_vars => [NearsItsEnd]_vars
  <2> SUFFICES ASSUME Typed, Next, NEW s \in Slots
               PROVE  /\ GiveUp(s) \/ Finishes(s) => Left(job'[s]) < Left(job[s])
                      /\ job[s].kind # "none" => Left(job'[s]) <= Left(job[s])
                      /\ job[s].kind = "none" => Left(job'[s]) <= 3 * MaxRounds + 2
    BY DEF IInv, NearsItsEnd
  <2>1. job \in [Slots -> Jobs] /\ Left(job[s]) \in Nat /\ (job[s].kind = "none" <=> Left(job[s]) = 0)
    BY LeftOfJob DEF Typed, TypeOK
  <2>2. Left(job'[s]) \in Nat
    <3>1. job' \in [Slots -> Jobs]
      BY TypedNext DEF Typed, TypeOK
    <3> QED
      BY <3>1, LeftOfJob
  <2>3. GiveUp(s) \/ Finishes(s) => Left(job'[s]) < Left(job[s])
    BY DoneOrGivenUp
  <2>4. ASSUME NEW t \in Slots, GiveUp(t) \/ Finishes(t), t # s PROVE job'[s] = job[s]
    BY <2>1, <2>4 DEF GiveUp, Finishes, Skip, ResolveDone, Review, ReviewDone, RecordDone,
                      RecordSkipped, Becomes
  <2>5. ASSUME NEW t \in Slots, Read(t) \/ Interrupt(t) PROVE Left(job'[s]) = Left(job[s])
    <3>1. /\ job'[s].kind = job[s].kind /\ job'[s].round = job[s].round
      BY <2>1, <2>5 DEF Read, Interrupt, Jobs
    <3> QED
      BY <3>1 DEF Left
  <2>6. CASE Outside
    BY <2>1, <2>3, <2>6, Started, Numbers
  <2>7. CASE GiveUp(s) \/ Finishes(s)
    BY <2>1, <2>2, <2>3, <2>7
  <2> QED
    BY <2>1, <2>3, <2>4, <2>5, <2>6, <2>7, Numbers DEF Next
<1> QED
  BY <1>1, Invariance, PTL DEF Spec
=============================================================================
