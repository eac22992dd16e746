------------------------------ MODULE Publisher ------------------------------
(***************************************************************************)
(* The outbox (the community_posts table), the owner's hands on it         *)
(* (src/collegium/owner.py) and the publisher process that sends its rows  *)
(* to the forum (src/collegium/publisher.py).                              *)
(*                                                                         *)
(* Compose runs one publisher. It alone writes verification, attempted_at  *)
(* and used_at, so that the two transactions of publish_next that precede  *)
(* the sending (_halted_since, then choosing and marking a row) are one    *)
(* action. The calls to the forum and to the model lie between actions.    *)
(*                                                                         *)
(* Of the clock, what the code compares is kept: the order of the latest   *)
(* attempts of rows and of the owner's grants (timeline), and for each     *)
(* kind whether MIN_INTERVAL has passed since its last attempt (ready).    *)
(***************************************************************************)
EXTENDS Integers, FiniteSets, Sequences

CONSTANTS
    Rows,       \* outbox rows, numbered in the order of created_at
    NoRow,      \* what the publisher sends when it sends nothing
    Kind,       \* [Rows -> "post", "comment" or "vote"]
    Target,     \* what a vote is for
    Grants,     \* rows of publisher_resumes
    MaxFailed,  \* MAX_FAILED_VERIFICATIONS
    Retried,    \* bound: the rows the owner ever sends back
    MaxRetries  \* bound: how often each of them

Kinds == {"post", "comment", "vote"}

ASSUME PublisherAssumption ==
    /\ Rows \subseteq Nat
    /\ NoRow \notin Rows
    /\ Kind \in [Rows -> Kinds]
    /\ DOMAIN Target = Rows
    /\ Rows \cap Grants = {}
    /\ MaxFailed \in Nat \ {0}
    /\ Retried \subseteq Rows
    /\ MaxRetries \in Nat

VARIABLES
    \* the database
    status,       \* "absent" until the row is inserted, then its status
    verification, \* its verification column, "none" for NULL
    timeline,     \* rows by attempted_at and grants by created_at, oldest first
    used,         \* the grants whose used_at is set
    ready,        \* the kinds whose pace allows another attempt
    \* the publisher
    pc,           \* where it is
    sending,      \* the row it has marked publishing
    \* history
    created,      \* how often the row's content was created on the forum
    shown,        \* is the content of its latest attempt visible there?
    retries,      \* how often the owner sent the row back
    unseen        \* verifications failed in a row since the owner last retried or
                  \* granted

outbox  == <<status, verification, timeline, used, ready>>
service == <<pc, sending>>
history == <<created, shown, retries, unseen>>
vars    == <<outbox, service, history>>

Statuses == {"absent", "approved", "publishing", "published", "failed", "withdrawn"}

(* "created": on the forum, nothing to verify; "challenged": created, to be *)
(* verified; "passed", "refused": the answer is known, not yet recorded.    *)
Places == {"idle", "sending", "created", "challenged", "passed", "refused", "down"}
Busy   == pc \notin {"idle", "down"}

(* Type invariant: a row's status is one the table's CHECK allows, and the *)
(* timeline holds rows and grants.                                         *)
TypeOK ==
    /\ status       \in [Rows -> Statuses]
    /\ verification \in [Rows -> {"none", "passed", "failed"}]
    /\ timeline     \in Seq(Rows \cup Grants)
    /\ used         \in SUBSET Grants
    /\ ready        \in SUBSET Kinds
    /\ pc           \in Places
    /\ sending      \in Rows \cup {NoRow}
    /\ created      \in [Rows -> Nat]
    /\ shown        \in [Rows -> BOOLEAN]
    /\ retries      \in [Rows -> 0..MaxRetries]
    /\ unseen       \in Nat

Init ==
    /\ status       = [p \in Rows |-> "absent"]
    /\ verification = [p \in Rows |-> "none"]
    /\ timeline     = <<>>
    /\ used         = {}
    /\ ready        = Kinds
    /\ pc           = "idle"
    /\ sending      = NoRow
    /\ created      = [p \in Rows |-> 0]
    /\ shown        = [p \in Rows |-> FALSE]
    /\ retries      = [p \in Rows |-> 0]
    /\ unseen       = 0
-----------------------------------------------------------------------------
(* What the tables say.                                                    *)

Before(x, y) ==
    \E i, k \in DOMAIN timeline : i < k /\ timeline[i] = x /\ timeline[k] = y

Granted  == {g \in Grants : \E i \in DOMAIN timeline : timeline[i] = g}
Verified == {p \in Rows : verification[p] # "none"}
Failed   == {p \in Verified : verification[p] = "failed"}

(* The verified row attempted last, and those attempted after S. *)
Newest(p)   == p \in Verified /\ \A q \in Verified \ {p} : Before(q, p)
Latest(S)   == \A p \in S, q \in Verified \ S : Before(q, p)

(* _halted_since: the last MaxFailed rows that were verified all failed. *)
Halted ==
    \E S \in SUBSET Failed : Cardinality(S) = MaxFailed /\ Latest(S)

\* Mutated form of Resumes: left-over grants count as well.
Resumes_LeftOver == Granted \ used

(* _consume_resume: the unused grants made after the halt took hold. *)
Resumes ==
    {g \in Granted \ used : \A p \in Rows : Newest(p) => Before(p, g)}

First(S) == {g \in S : \A h \in S \ {g} : Before(g, h)}

(* The unique index on votes: one per target is neither failed nor withdrawn. *)
Live(p) == status[p] \in {"approved", "publishing", "published"}

\* Mutated form of VoteAllowed: no index.
VoteAllowed_Always(p) == TRUE
VoteAllowed(p) ==
    Kind[p] = "vote" =>
        ~\E q \in Rows \ {p} : Kind[q] = "vote" /\ Target[q] = Target[p] /\ Live(q)
-----------------------------------------------------------------------------
(* The owner.                                                              *)

(* _queue_post, _queue_reply, _queue_vote: an approved row enters the outbox. *)
Queue(p) ==
    /\ status[p] = "absent"
    /\ \A q \in Rows : q < p => status[q] # "absent"
    /\ VoteAllowed(p)
    /\ status' = [status EXCEPT ![p] = "approved"]
    /\ UNCHANGED <<verification, timeline, used, ready, service, history>>

WithdrawPost(p) ==
    /\ status[p] = "approved"
    /\ status' = [status EXCEPT ![p] = "withdrawn"]
    /\ UNCHANGED <<verification, timeline, used, ready, service, history>>

\* Mutated form of Retriable: whatever is not with the publisher.
Retriable_Any(p) == status[p] \in {"failed", "published", "withdrawn"}
Retriable(p)     == status[p] = "failed"

(* retry_post: the row is sent anew; what it says of the last time stays. *)
RetryPost(p) ==
    /\ Retriable(p)
    /\ p \in Retried /\ retries[p] < MaxRetries
    /\ VoteAllowed(p)
    /\ status'  = [status EXCEPT ![p] = "approved"]
    /\ retries' = [retries EXCEPT ![p] = @ + 1]
    /\ unseen'  = 0
    /\ UNCHANGED <<verification, timeline, used, ready, service, created, shown>>

GrantResume(g) ==
    /\ g \notin Granted
    /\ timeline' = Append(timeline, g)
    /\ unseen'   = 0
    /\ UNCHANGED <<status, verification, used, ready, service, created, shown, retries>>
-----------------------------------------------------------------------------
(* The publisher.                                                          *)

(* The status a row has while its request is out. *)
Marked == "publishing"

\* Mutated form of Waiting: one attempt of a kind closes it for ever.
Waiting_NewKinds ==
    {p \in Rows : /\ status[p] = "approved" /\ Kind[p] \in ready
                  /\ \A i \in DOMAIN timeline :
                        timeline[i] \in Rows => Kind[timeline[i]] # Kind[p]}

(* attempted_at is set to now: the row moves to the end of the timeline. *)
Stamp(p) ==
    \/ /\ \A i \in DOMAIN timeline : timeline[i] # p
       /\ timeline' = Append(timeline, p)
    \/ \E i \in DOMAIN timeline :
          /\ timeline[i] = p
          /\ timeline' = SubSeq(timeline, 1, i - 1)
                            \o SubSeq(timeline, i + 1, Len(timeline)) \o <<p>>

(* publish_next, up to the sending: the oldest approved row of a kind whose *)
(* pace allows it; when halted, only against a grant, which is then spent.  *)
Waiting == {p \in Rows : status[p] = "approved" /\ Kind[p] \in ready}

Attempt(p) ==
    /\ pc = "idle"
    /\ p \in Waiting /\ \A q \in Waiting : p <= q
    /\ IF Halted THEN \E g \in First(Resumes) : used' = used \cup {g}
                 ELSE UNCHANGED used
    /\ status'   = [status EXCEPT ![p] = Marked]
    /\ Stamp(p)
    /\ ready'    = ready \ {Kind[p]}
    /\ pc'       = "sending"
    /\ sending'  = p
    /\ shown'    = [shown EXCEPT ![p] = FALSE]
    /\ UNCHANGED <<verification, created, retries, unseen>>

(* A row's outcome is recorded (_record) and the publisher is done with it. *)
Record(p, as) ==
    /\ status'  = [status EXCEPT ![p] = as]
    /\ pc'      = "idle"
    /\ sending' = NoRow
    /\ UNCHANGED <<timeline, used, ready>>

(* The request reached the forum: its content exists there from now on. *)
Created(p, exists) == created' = [created EXCEPT ![p] = IF exists THEN @ + 1 ELSE @]

\* Mutated form of AfterError: a server error is retried like a rate limit.
AfterError_Retry == "approved"
AfterError       == "failed"

(* except RateLimited: nothing was created, the row waits for another turn. *)
TurnedAway ==
    /\ pc = "sending"
    /\ Record(sending, "approved")
    /\ UNCHANGED <<verification, history>>

(* except Exception, or an answer without an id: the content may exist. *)
SendFails(exists) ==
    /\ pc = "sending"
    /\ Record(sending, AfterError)
    /\ Created(sending, exists)
    /\ UNCHANGED <<verification, shown, retries, unseen>>

(* The forum created it, and may ask for a post or comment to be verified. *)
SendSucceeds(challenged) ==
    /\ pc = "sending"
    /\ challenged => Kind[sending] # "vote"
    /\ pc' = IF challenged THEN "challenged" ELSE "created"
    /\ Created(sending, TRUE)
    /\ shown' = [shown EXCEPT ![sending] = ~challenged]
    /\ UNCHANGED <<outbox, sending, retries, unseen>>

(* solve, then client.verify: the forum accepts the answer ... *)
Pass ==
    /\ pc = "challenged"
    /\ pc' = "passed"
    /\ shown' = [shown EXCEPT ![sending] = TRUE]
    /\ unseen' = 0
    /\ UNCHANGED <<outbox, sending, created, retries>>

(* ... or refuses it, or there was none to give. *)
Refuse ==
    /\ pc = "challenged"
    /\ pc' = "refused"
    /\ unseen' = unseen + 1
    /\ UNCHANGED <<outbox, sending, created, shown, retries>>

\* Mutated form of Outcome: an unverified post counts as published.
Outcome_Published == "published"
Outcome == IF pc = "refused" THEN "failed" ELSE "published"

Verdict(p) ==
    IF pc = "passed" THEN "passed"
    ELSE IF pc = "refused" THEN "failed" ELSE "none"

(* The last _record of publish_next, or of _vote. *)
Finish ==
    /\ pc \in {"created", "passed", "refused"}
    /\ Record(sending, Outcome)
    /\ verification' = [verification EXCEPT ![sending] = Verdict(sending)]
    /\ UNCHANGED history

(* The process dies, or what it does after the sending raises (the verify  *)
(* call, _record): the row stays as it was marked.                         *)
Abandon(place, exists) ==
    /\ Busy
    /\ exists => pc = "sending"
    /\ pc'      = place
    /\ sending' = NoRow
    /\ Created(sending, exists)
    /\ UNCHANGED <<outbox, shown, retries, unseen>>

Stop ==
    /\ pc = "idle"
    /\ pc' = "down"
    /\ UNCHANGED <<outbox, sending, history>>

Restart ==
    /\ pc = "down"
    /\ pc' = "idle"
    /\ UNCHANGED <<outbox, sending, history>>

(* MIN_INTERVAL has passed since the last attempt of this kind. *)
BecomeReady(k) ==
    /\ k \notin ready
    /\ ready' = ready \cup {k}
    /\ UNCHANGED <<status, verification, timeline, used, service, history>>

OwnerStep ==
    \/ \E p \in Rows : Queue(p) \/ WithdrawPost(p) \/ RetryPost(p)
    \/ \E g \in Grants : GrantResume(g)

PublisherStep ==
    \/ \E p \in Rows : Attempt(p)
    \/ TurnedAway \/ Pass \/ Refuse \/ Finish \/ Stop \/ Restart
    \/ \E b \in BOOLEAN : SendFails(b) \/ SendSucceeds(b)
    \/ \E place \in {"idle", "down"}, exists \in BOOLEAN : Abandon(place, exists)

Next ==
    \/ OwnerStep \/ PublisherStep
    \/ \E k \in Kinds : BecomeReady(k)

Spec == Init /\ [][Next]_vars

(* Compose restarts the publisher, which polls every minute, and intervals *)
(* pass. It may be stopped before any attempt, and the forum may turn it   *)
(* away, but not every time: strong fairness. The owner need not act.      *)
Fairness ==
    /\ WF_vars(Restart)
    /\ \A k \in Kinds : WF_vars(BecomeReady(k))
    /\ \A p \in Rows : SF_vars(Attempt(p))
    /\ SF_vars(\E b \in BOOLEAN : SendFails(b) \/ SendSucceeds(b))
    /\ WF_vars(Pass \/ Refuse) /\ WF_vars(Finish)

FairSpec == Spec /\ Fairness
-----------------------------------------------------------------------------
(* Properties.                                                             *)

(* A row is never sent twice unseen: whatever crashes, times out or is     *)
(* turned away, its content has been created on the forum at most once for *)
(* the first approval and once for each time the owner sent it back, and   *)
(* a row that waits has one of these left (0013_community_posts.sql).      *)
NeverTwiceUnseen ==
    \A p \in Rows :
        /\ created[p] <= retries[p] + 1
        /\ status[p] \in {"approved", "withdrawn"} => created[p] <= retries[p]

(* What is published is to be seen on the forum, and its verification is   *)
(* that of the attempt that published it, not of an earlier one.           *)
PublishedIsShown ==
    \A p \in Rows : status[p] = "published" => shown[p] /\ verification[p] # "failed"

(* What the owner has withdrawn or the forum shows is left alone for good. *)
LeftAlone ==
    [][\A p \in Rows : status[p] \in {"published", "withdrawn"} =>
          status'[p] = status[p] /\ created'[p] = created[p]]_vars

(* Nothing is upvoted twice unless the owner was told that a time failed:   *)
(* two votes for one target, in whatever order they are queued, withdrawn,  *)
(* sent, retried or abandoned in a crash, reach the forum together at most  *)
(* once more often than the attempts that were put on record as failed. A   *)
(* time-out that did reach it is such an attempt (publisher.py, _vote: each *)
(* target at most once).                                                    *)
Failures(p) == retries[p] + IF status[p] = "failed" THEN 1 ELSE 0

UpvotedOnce ==
    \A p, q \in Rows :
        (Kind[p] = "vote" /\ Kind[q] = "vote" /\ Target[p] = Target[q] /\ p # q)
        => created[p] + created[q] <= Failures(p) + Failures(q) + 1

(* The halt: the forum never sees more than MaxFailed failed verifications *)
(* in a row that the owner has not answered by a retry or a grant. A grant *)
(* made before a halt does not reopen it. Only a failure that could not be *)
(* recorded escapes the count, and it leaves its row publishing.           *)
StuckRows == {p \in Rows : status[p] = "publishing" /\ sending # p}

StopsInTime == unseen <= MaxFailed + Cardinality(StuckRows)

(* An approved row does not wait for ever: it is attempted with an outcome *)
(* or withdrawn, unless the publisher halts.                               *)
EventuallyAttempted ==
    \A p \in Rows : status[p] = "approved" ~> (status[p] # "approved" \/ Halted)
=============================================================================
