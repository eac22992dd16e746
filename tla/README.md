# Collegium in TLA+

Collegium is an organization of language-model roles around one PostgreSQL
database. Roles find observations, propose hypotheses, dispute and settle them,
and plan their own work; the owner decides what is published on a forum. This
directory models the parts of it where order, crashes and stale reads matter,
checks them with TLC and proves their safety properties with TLAPS.

Paths below are relative to `src/collegium/` of the repository.

## 1. The system and its parts

Everything shared lives in the database. Processes (worker, scheduler,
publisher, board) never talk to each other; they meet in tables. A role's work
has three phases: read memory in a transaction (`prepare`), talk to sources and
the model for minutes outside any transaction, and write in a second
transaction (`persist`) together with the end of the job and the jobs that
follow. Nearly every hard behaviour comes from this shape: what was read is
old when it is used, the process may die at any point between, and two
transactions that each look for what they are about to add do not see each
other (READ COMMITTED, and no unique index on most of it).

| part | state | operations | meets the others through | what makes it correct |
|---|---|---|---|---|
| work queue, workers (`jobs.py`, `worker.py`, `db.py`) | `jobs`, `runs`; the claimed copy in the worker | enqueue, claim, start_run, succeed, fail, defer, takeover after `STALE_AFTER`; poll, drain, stop | everybody enqueues; the roles run in it | a step is taken exactly once or given up, or no more often than its attempts where answers get lost; attempts are spent only on attempts; every job settles |
| scheduler (`scheduler.py`, `hours.py`) | none of its own | tick | reads and inserts `jobs` | one plan a day for each active domain, and never none |
| outbox and publisher (`publisher.py`, `owner.py`, migrations 0013-0015, 0017) | `community_posts`, `publisher_resumes`; the row being sent; the forum | queue, withdraw, retry, grant; choose and mark, send, verify, record | the owner and the publisher share rows | nothing is sent twice unseen; what is published is visible; repeated failed verification stops it |
| critique loop (`roles/skeptic.py`, `resolver.py`, `historian.py`, `strategy.py`) | hypotheses, critiques, confidence, the loop's jobs and rounds | propose, review, resolve, record a verdict, challenge, send back | follow-up jobs; memory | acceptance meets the rules; no critique is forgotten; what is dropped stays dropped; the loop ends |
| acquisition (`acquisition/__init__.py`, `tavily.py`, `worker.py`, `memory.py`) | the `acquisitions` log; pages and paid calls of a run | search, extract, enrich, fallbacks, budget | workers read and write one log | the budget holds but for calls side by side; no page is paid for twice; a site that gives nothing is left alone |
| fetching (`acquisition/fetching.py`, `web.py`, `feeds.py`) | a cache of robots rules for each of two fetchers; pins, open connections, lookups that hang | fetch, redirects, robots, deadline | acquisition, the Scout | only checked addresses and allowed pages; every page is tried |
| Strategist (`roles/strategist.py`, `strategy.py`) | goals, programs | plan, close and abandon goals, propose programs | the queue; the owner; the Historian | one proposal at a time, no goal or topic twice, closed goals stay closed |
| community (`roles/replier.py`, `drafter.py`, `announcer.py`, `scout.py`, `owner.py`) | decisions, acknowledgements | offer, draft, approve, reject, follow up | outbox, queue | one draft or answer for each subject; no comment is forgotten |
| Answerer (`roles/answerer.py`, `llm.py`) | questions; labels of a run | recall, compose, store | queue; memory moves meanwhile | numbers lead to the records shown; answers no firmer than these |
| evidence (`roles/base.py`, `researcher.py`, `corroborator.py`, `resolver.py`, `mapper.py`, `grounding.py`, `memory.py`) | sources, evidence, links, entities | read, ground, propose, link | memory, the critique loop | quotes are in their source; what is new has support; nothing is held twice |
| memory, missions (`memory.py`, `db/migrations`) | all knowledge | single statements | all | - |
| board, web, CLI (`board.py`, `web/`, `cli.py`) | none | read and render; call `owner.py` | owner's actions | - |
| adapters of sources, untrusted text, reliability, dates | none | pure functions, one request each | acquisition, roles | - |
| telemetry, config, identity, backup, deployment | - | - | restart policies | - |

`PROJECT.json` lists every one of them under `components` with its status, and
under `hazards` where in the code each difficulty bites and which property
would notice.

## 2. The modules

```
Pipeline <==(refinement)== JobQueue <--EXTENDS-- Scheduler
   |                          |
   |                          +------- JobQueueProofs ------+
   +- - assumed by - - CritiqueLoop --- CritiqueLoopProofs

Community  --(approved: the outbox)-->  Publisher      jobs of the roles:
    |                                       |          Goals, Evidence,
CommunityProofs                       PublisherProofs  Answers, Acquisition
                                                          |         |
                                           OutsideProofs -+----- Fetching
```

Modules that do not EXTEND one another meet where one takes from the other
what it promises: a job is done once or given up (Pipeline), a row of the outbox
is sent or not (Publisher), a page can be read or not (Fetching). Goals,
Evidence and Acquisition have a module of proofs each; JobQueueProofs is about
the scheduler too, OutsideProofs about Fetching and Answers.

**Pipeline** is the abstract promise of `jobs.py`: a step is asked for, then
taken once together with asking for what follows from it, or given up.

**JobQueue** is `jobs.py` and `worker.py`. One action per transaction:
`Enqueue`, `Claim` (status, attempts and started_at, the copy as RETURNING
gives it, priority order, hours, drained workers), `WaitForBudget`, `StartRun`,
`Commit` (persist, finish_run and succeed at once, with the follow-ups),
`StopForSearch` (both deferring handlers), `Fail`, `Crash`, `Stop`, `Restart`.
`BecomeDue` and `BecomeStale` are the two clock comparisons of the claim. Two
constants say what the code takes for granted: `RunsOutliveStale` (a run may
take longer than two hours) and `AcksGetLost` (the connection may drop between
COMMIT and its answer). A worker whose commit was not answered is `unacked`: its
run is over, the job has succeeded, and what is left to the worker is the
generic handler (`Fail`) or to crash. `steps` is a history variable: how often
the knowledge of a job was committed, counted up to `AttemptCap` + 1.

**Scheduler** extends it with `Tick`, the owner's `RequestWork` and
`SetDomainStatus`, and days. A settled row of an earlier day is read by no
statement of the scheduler, so that its place may be taken by a new job and
the model runs for ever with two rows.

**Publisher** is the outbox. The two transactions that precede a send are one
action (`Attempt`), because only the publisher writes what the first one reads;
sending, verifying and recording are separate, with a crash or an exception
between any two (`Abandon`). `timeline` orders rows by `attempted_at` and grants
by `created_at`, which is all that `_halted_since` and `_consume_resume` compare.
`created`, `shown`, `retries` and `unseen` are history variables: what happened on
the forum, and what the owner has reacted to.

**CritiqueLoop** keeps the statuses of hypotheses and critiques and the jobs of
the loop in slots. `Read` is a role's first transaction, `ResolveDone` and
`ReviewDone` its second; `RecordDone` reads and writes in one, as the Historian
does. What the model answers is arbitrary within what the code accepts.
Confidence is kept as below `REJECT_AT`, above `ACCEPT_AT` or between, support
as enough independent sites or not, severity as the number itself. It is
assumed of the queue that a job is done once or given up (`GiveUp`), which is
what JobQueue is shown to implement; a job lost on its last attempt is not
modelled here.
`SecondAttempts` is the Strategist's rule for hypotheses that are stuck;
`SendBack` allows any hypothesis, since the plan or the owner may name it too and
the choice may be stale, and NoCritiqueForgotten says that none the rule is meant
for escapes it.

**Acquisition** is what several workers' runs do with paid calls. A call is
two actions, `Send` (after reading the budget) and `Settle` (recorded in its own
transaction, or lost with its process), so that workers read the log while
others' calls are out. `PaidSearch`, `PaidRead` and what leads to them (`Extract`,
the enriching of thin leads) follow the fallbacks; `Stops` is the one question
whether a spent budget ends the run; where it is asked for the leads of one of
several sources, or of a feed, the run may leave them out instead
(`PaidReadRefused`, `GoOn`). A call that fails need not end the run either
(`CallFails`). Time is the age of a logged call, as far
as the windows of the three queries tell ages apart.

**Fetching** is one process that fetches one address at a time: `CheckPage`,
`CheckRobots` (scheme, host, lookup), `Connect`, then what a server may answer
(`PageRedirected`, `RobotsAllow`, ...), with a deadline that may strike at every
await (`TimeOut`, `Tick`). A request goes over a connection its client kept open
to the site (`pool`) or over a new one to what is pinned. What outlives a fetch is
the rules it learned and the threads of lookups that never return. The rules are
those of a fetcher: `WebExtractor` and `FeedReader` have a SafeFetcher each, built
once and never emptied, so that `robots` is a cache for each of them and `Fetcher`
says whose fetch it is. One may hold older rules of a site than the other.
`said`, `looked` and `astray` are history variables: what a site last served each
fetcher, what a name last resolved to, and whether a connection went elsewhere.
`Extract`, `Crawl` and `FindFeed` are the three ways the code uses a fetch, with
the loops that go on after one failed.

**Goals** is what plans of one domain do to goals and programs. `PlanReads` is
the first transaction; persisting is one transaction in steps (`PlanCloses`,
`PlanAddsGoal`, `PlanContinuesGoal`, `PlanEnds`), between which nothing else
happens. The plan is whatever the model says.

**Community** is every way to a draft and what becomes of it. `Starts`, `Checks`
and `Proposes` are the three looks of a drafting job: before the model call,
in the transaction that adds the decision, and its commit; the last two are
apart because nothing serializes two such transactions. `raced` remembers the
subjects on which two of them overlapped.

**Answers** is a question of the owner's: rounds of recall, a valid reply, the
points of the answer, and what is stored. Labels are kept as sequences of
rows, numbers as places in `order`; `shown` and `accepted` are history.

**Evidence** is the writing side of the Researcher, Corroborator, Resolver and
Mapper. A document is a page with what it said when it was read; the run quotes
it, rightly or wrongly, and its last transaction is in two steps as in
Community (`Findings` or `Entity`, then `Commit`).

The `MC*` modules hold the instances. Operators with a suffix, such as
`Claimable_AnyRunning`, are mutated forms of the definition that follows them:
plausible faults, for which TLC must find the property named in `PROJECT.json`
violated. They are not part of the model.

## 3. What is checked

| run | instance | properties that hold |
|---|---|---|
| `JobQueue` | 2 jobs (one urgent, one that searches), a polling and a drained worker, 3 attempts, fair | TakenExactlyOnce, SoleHolder, AttemptsAreSpent, RunTellsTheOutcome, KeepsThePromise (the refinement of Pipeline), EventuallySettled |
| `Scheduler` | one domain, 2 planning jobs at once, 1 worker, commits that are not acknowledged, fair | OneScheduledPlan, RepeatsAreCounted, PlannedAgain |
| `Publisher` | 3 comments, halt at 2, one retry, one grant | NeverTwiceUnseen, PublishedIsShown, StopsInTime, LeftAlone |
| `PublisherFair` | a post and two votes on one target, fair | UpvotedOnce, EventuallyAttempted |
| `CritiqueLoop` | 2 hypotheses, one refining the other, a fatal and a serious critique, 2 jobs at once, 2 starts, fair | AcceptedIsEarned, NoCritiqueForgotten, DroppedForGood, LoopEnds |
| `Acquisition` | 2 workers, a budget of 1, 3 calls, 2 pages of a site, either route first | BudgetHeld, PaidOnce, ClosedForGood |
| `Goals` | 2 planners, 4 plans, 3 goals with one statement, 3 programs, a hypothesis | OneProposal, OneProgramEach, OneGoalEach, GoalsStayClosed |
| `Community` | 2 workers, a comment, a hypothesis, a follow-up | NoDoubles |
| `CommunityFair` | 1 worker, 2 comments, another thread, room for one reply, fair | NoneForgotten |
| `Answers` | 2 hypotheses, an observation, 2 recalls, 2 points | AnswersTypeOK, NumbersLeadHome, FirmAsMemory |
| `Fetching` | 2 sites with a robots.txt and a page each, a public and a private address, two fetchers, one redirect, one lookup thread, fair | NeverAstray, RobotsObeyed, EachPageTried |
| `Evidence` | 2 workers, 2 pages that change, 3 passages, 2 hypotheses that state the same, a name | QuotesItsSource, NewIsSupported, OneOfEach |

All of them but the liveness properties are theorems as well, and so are the type
invariants of the other modules (section 5).

Several properties allow as many of something as there are workers at once.
That is no slack: it is what the code does when each of several transactions
looks before any of them has written, and the bound is reached. Where a
property names a history variable (`raced`), it says one wherever the
transactions did not overlap.

### Bounds, and why they suffice

- Queue: the hazards are between two workers on one job, and between two jobs
  in one worker's choice; attempts run to the code's own limit of 3.
  `AttemptCap` stops only what a takeover of a live job could repeat.
- Scheduler: the owner's plan beside the scheduler's is the conflict, hence two
  rows; `MaxRequests` bounds the owner, whose requests go first. Commits may go
  unanswered at each of two attempts (the code's limit is 3), and a third would be
  seen.
- Publisher: with a limit of 2, two rows trip the halt and the third meets it;
  one retry moves a row in the timeline, one grant reopens. Two votes, one of which
  may be sent back, are all that can meet at one target. With a limit of 1
  StopsInTime does not hold (section 5); the code's is 3. `Retried` and `MaxRetries` bound the owner's
  patience.
- CritiqueLoop: two slots give every overlap of two jobs; `MaxStarts` lets two
  of a proposal, a challenge, more evidence and something sent back meet. One
  round is enough, since rounds differ only in being before the last or the
  last; round 0 of a first review comes before it. `MaxLifetime` is lowered to
  what few critiques can reach. The theorems hold for all of these.
- Acquisition: the last call of a budget is all that workers compete for; a
  third call shows what the two left behind. Pages are of one site, so that a
  miss on one closes it for the other.
- Goals: three rows of each kind, so that each bound of two can be broken; four
  plans, so that two side by side meet what two others left.
- Community: `MaxApproved`, `MaxRejected` and `MaxQueued` bound the owner's
  decisions and the jobs about one subject; two of them side by side is the
  conflict. A rejection lets a thread be drafted again.
- Answers: a record can be found twice only by two recalls, and numbers go on
  only from one point to a second.
- Fetching: one redirect, of a page or of robots.txt, leads to the other site;
  with a single lookup thread one lookup that hangs takes all. Each site may
  answer the two fetchers differently.
  The deadlines are counted in units of a page's.
- Evidence: two runs, side by side or one after the other; two hypotheses with
  one statement are what may be doubled; a page that trades its content with
  another is one that has changed.

### Fairness

Compose restarts processes (`restart: unless-stopped`), and time passes: weak
fairness. Workers poll, hours open again, the scheduler looks every minute, the
publisher too; each may be stopped or find the hours closed in between, so their
steps are strongly fair. The claim is strongly fair per job, which ORDER BY
priority, run_after gives among equal priorities as long as urgent work ends.
A worker's run ends in a commit or a failure if it is started again and again,
for the budget is a rolling window and blocked engines recover. Nothing makes a
worker crash or the owner act on the outbox. In CritiqueLoop the queue settles
every job. In CommunityFair the Scout runs daily, its runs and those of replies
succeed if tried again and again, and the owner decides what waits; without the
last the places for replies stay taken. In Fetching only the clock and the
process itself are fair: servers and name lookups may never answer.

## 4. Where code and documents disagree

Found while modelling. The models do what the code does, and the properties
state what holds of it.

- **A slow run doubles its step.** `claim` (`jobs.py:57`) takes over any job that
  has been running for two hours, and neither `succeed` nor `persist` checks that
  the worker still owns it. The docstring (`jobs.py:4-6`) says that the pipeline
  "never loses or doubles a step". The run assumes `RunsOutliveStale = FALSE`;
  with TRUE, TakenExactlyOnce and SoleHolder fail.
- **So does a lost answer.** A commit whose answer is lost (`worker.py:104-107`) is
  handled as a failure: `fail` (`jobs.py:75-88`) puts the succeeded job back and the
  step is taken again. The JobQueue run assumes `AcksGetLost = FALSE`; in the
  Scheduler run answers get lost, and RepeatsAreCounted says what is left of the
  promise: never more than `max_attempts` times.
- **A vote may count twice.** A vote that is recorded as failed may have reached the
  forum; the unique index then lets another vote for the same target in, or the
  same one again, though "each target at most once" (`publisher.py:418`).
  UpvotedOnce says what holds: once, and once more for each failure the owner was
  told of.
- **Two caches of robots rules.** The extractor and the feed reader ask for a site's
  robots.txt separately and keep the answer as long as the process lives
  (`web.py:70`, `feeds.py:49`, `fetching.py:120`): a page may be asked for that the
  other has been told not to. RobotsObeyed is stated for each fetcher.
- **A job lost on its last attempt stays.** A worker that dies then leaves the
  row `running`: no claim takes it, nothing fails it. `tick`
  (`scheduler.py:37-43`) counts it as today's plan on every later day, though
  "on each working day it asks the Strategist to plan each active domain"
  (`scheduler.py:3`), and `_has_pending_attempt` (`strategy.py:151`) as an attempt
  under way. EventuallySettled and PlannedAgain except it (`LostOnLastAttempt`).
- **The halt counts rows.** `publisher.py:241` looks at the last rows with a
  verification, and a retry overwrites its own row's: fewer than three rows may
  fail any number of times in a row, which "after MAX_FAILED_VERIFICATIONS failed
  verifications in a row the publisher stops" (`publisher.py:19-20`) excludes.
- **Second attempts without work.** `strategy.py:141` accepts upheld critiques as
  blockers, while the resolve job works on open ones only (`resolver.py:55-58`):
  such a hypothesis takes one of two places in every plan, against
  `docs/decisions.md:421`.
- **A grant and a halt.** Migration 0017 (lines 12-14) says a grant counts against
  a halt that took hold after it; the code and `docs/decisions.md` the opposite.
  Migration 0013 (line 21) says the owner may mark a stuck post failed; the
  trigger allows it, no code does it.
- **The budget.** A call that was answered and could not be recorded is not
  counted (`docs/decisions.md:405`); the daily allowance of a plan does not
  deduct the Scout's work it asks for itself (`strategist.py:280-283`,
  `docs/decisions.md:471-476`). With paid search first and `daily_call_budget`
  below MIN_BUDGET_TO_START no searching job ever starts.
- **A page paid for twice in a run.** When the paid reader raises in `_enrich`,
  `_pages` has no entry for the page, and it is read again
  (`docs/decisions.md:797`).
- **Programs.** A program the owner closes while a plan is under way still gets
  that plan's goals (`owner.py:214-217`). A plan that repeats a statement of an
  active goal can add to it targets of a closed program
  (`strategist.py:366-383`).
- **Numbers of an answer.** A record cited under two labels has two numbers and,
  since `answer_question` (`memory.py:741`) stores each record once, one
  relationship: the numbers after it lead to the wrong record. NumbersLeadHome
  excepts it (`CitedTwice`). A reply that was cut off is asked for again without
  the results of the tools (`llm.py:134-144`).
- **Replies.** Reply jobs that are queued and not yet drafted do not count as
  waiting (`docs/decisions.md:911`); comments chosen for a reply are not queued if
  the Scout has no other lead; an own comment whose draft was too long keeps its
  place for the next run.
- **Evidence.** An excerpt that takes two stances on a new hypothesis is linked
  with the one named first, which need not be its support (`base.py:285-298`,
  `researcher.py:84-86`; `mixed` in Evidence). The Scout's sources have no digest,
  so that a later lead with the same address quotes the first one's row
  (`scout.py:220`, `memory.py:62`). `grounding.py:50-51` lowercases letter by
  letter into possibly two, after which positions are off.

## 5. What is proved

For any number of jobs, workers, rows, pages, goals, subjects and limits, from
the assumptions on the constants that each module names (`JobQueueAssumption`,
and so on). Each module of proofs has an inductive invariant `IInv`, since none
of the properties is inductive alone.

- **JobQueueProofs**: Typing without further assumptions; ExactlyOnce, HoldsAlone, AttemptsBounded, RunsTell,
  SettlesForGood and Refinement (JobQueue implements Pipeline) under `Trusting`:
  a stale job's worker is dead and commits are acknowledged. That a commit
  finds its job running depends on who holds it, and that depends on the claim
  not taking a held row. `IInv` adds `CopiesOfRows` (a worker has a copy exactly
  while busy), `HeldAlone` (a held row is running, *not stale*, held once, and
  the copy of attempts is current) and `AttemptsFit` (the attempts each status
  allows; a waiting job has one left, which keeps a claim within the limit and a
  deferral above zero).
  Under `Patient` alone, the first half of Trusting, acknowledgments may get lost:
  RepeatsCounted (RepeatsAreCounted), and of Scheduler PlanRepeatsCounted and
  PlansAreNotDoubled (OneScheduledPlan). A row a worker holds is running, fresh and
  held once, or already carried out (`HeldOrDone`); each step taken used up an
  attempt, and one that is under way has one in hand, which a deferral may give
  back (`AttemptsCover`); two plans under way, or of one day, are one
  (`OnePlanEach`).
- **PublisherProofs**: Typing, SentOnlyWhenAsked, PublishedShows, VotesOnce and
  ClosedForGood. The strengthening is `Marking` (the publisher is busy exactly
  with a row that is `publishing`, so neither withdraw nor retry can touch it)
  and `Accounted` (how often a row was created is known from where it is; what is
  about to be recorded as published is shown). VotesOnce (UpvotedOnce) adds that of
  two votes for one target only one counts (`OneLiveVote`): that one has been
  created at most once more often than it was sent back, the other no more often
  than it failed.
  HaltsInTime (StopsInTime) for a limit of two or more (`Several`). The halt
  counts rows by the order of their attempts, so first that order is shown to be
  one and to keep the row in hand last (`Ordered`, with the lemmas on what a new
  timestamp does to the timeline). Then: the failures the owner has not answered
  are among the last verified rows (`InARow`), hence an attempt that is not halted
  has room for one more; and since any grant at most one failure is of a row
  attempted before it (`SinceGrants`), hence so has an attempt against a grant. That
  one is why a limit of 1 is excluded: a grant made while a row is in hand whose
  verification then fails is newer than the halt it ends, so that a second failure
  follows the first without the owner having seen either.
- **CritiqueLoopProofs**: Typing, Earned, Remembered, NeverRevived and
  EndsAfterItsRounds. An acceptance that the rules no longer bear out has a job
  under way that will decide again (`StaleIsRevisited`); a serious open critique is
  worked on or has had all its rounds (`OpenIsWorkedOn`). Both rest on a review
  seeing only its own hypothesis' critiques (`SeesItsOwn`) and on a verdict of the
  last round coming after a resolve job of the last round (`LastRound`).
  EndsAfterItsRounds is as much of LoopEnds as needs no fairness: the jobs that may
  still follow in a slot (`Left`, at most 3 * MaxRounds + 2 after a start) become
  fewer with every job that succeeds or is given up, and by no step more.
- **AcquisitionProofs**: Typing, WithinBudget, ReadOnce and LeftForGood. The calls that are out belong to as many waiting workers
  (`CallsOut`), of which one has just read the budget; for pages and sites, what was
  paid plus the workers that have asked the log and may still pay is bounded
  (`FewPaid`, `FewMissed`).
- **GoalsProofs**: Typing, ProposedOnce, PursuedOnce, InvestigatedOnce and
  ClosedForGood, by the same counting: what there is and what may still be added
  together are no more than the planners (`FewProposals`, `FewGoals`,
  `FewPrograms`), for a plan that begins when there is something adds nothing, and
  one that added does not again. A plan gives a target only to an open program it
  knows of (`Linked`), so that an open program that already has the target is
  known to every later plan, which then leaves it there.
- **CommunityProofs**: Typing and SaidOnce. Drafts held plus drafts about to be
  proposed stay within `Limit` (`Roomy`); a follow-up is asked for, drafted and
  held only once it is due (`Due`).
- **EvidenceProofs**: Typing, Grounded, NeverBare and NoDuplicates. What a run is
  about to write quotes what it is attributed to (`WritesQuotes`) and backs what
  is written with it (`WritesSupported`); held plus being added stays within
  `Limit` (`OneStatement`, `OneName`).
- **OutsideProofs**, of Fetching: Typing, Approvedness, Obedience (for each
  fetcher), and Boundedness (a fetch makes a bounded number of requests, by what is
  left of its hops). Where a fetch is decides which of its addresses there are
  (`Placed`), what is pinned was looked up in the same fetch and is public
  (`Pinned`), and a fetcher's rules are as it was served them (`AsSaid`).
  Of Answers: AnswersTypesHold, NumbersDoLeadHome and FirmOnlyAsMemory. A label keeps naming the record it was given to (`LabelsStay`);
  what was accepted when it was shown is remembered as such (`Remembered`); a
  label has one number, and a point the numbers and the firmness of the labels
  meant (`Composed`); what is stored is what was composed (`Stored`). Unless a
  record is cited under two labels, the numbers map onto as many records as there
  are numbers, hence each to its own, and a question's relationships come in the
  order of the numbers.

Only model-checked are the liveness properties, which the proof system does not
reach: EventuallySettled, PlannedAgain, EventuallyAttempted, LoopEnds,
NoneForgotten and EachPageTried. Of LoopEnds and EachPageTried the bound is proved
(EndsAfterItsRounds, Boundedness), of the others nothing. No RECURSIVE operator is
used, and no theorem is about what a recursion over data computes.

## 6. Not modelled

- Each transaction is taken as atomic, but in Community and Evidence, where the
  look and the write of two transactions may overlap, and in Goals, whose plans
  read in one transaction and write in another. Two Historian transactions on
  one hypothesis at the same moment are not: with READ COMMITTED they could
  interleave within themselves if two workers run; Compose runs one.
- A steady stream of urgent jobs, which would starve others (`claim` never ages a
  job), is outside the bounds, and working days that wrap around (`fri-mon`),
  which `hours.py` turns into none at all, are a fault of configuration.
- The allowance of work and the sources a plan proposes, the Scout's search plan
  and batches, relations between entities: one read and one write in one run, with
  nothing in between that another process changes.
- `set_mission` and the single statements of memory that no module needs; the
  board, the web application and the command line, which render and call
  `owner.py`; adapters of single sources, grounding's text matching, reliability
  tables, dates and untrusted text, which are pure functions that tests reach;
  prompts, parsing, telemetry, configuration; the backup script.
