------------------------------ MODULE Community ------------------------------
(***************************************************************************)
(* What the organization says on Moltbook, up to the outbox: the comments  *)
(* in its own threads that the Scout offers for a reply, other             *)
(* conversations, questions and announcements about hypotheses, and the    *)
(* follow-ups of "we will look into it". Each is a job that drafts, with   *)
(* the model, minutes long, and proposes a decision, which the owner       *)
(* approves or rejects (roles/scout.py, replier.py, drafter.py,            *)
(* announcer.py, strategist.py, strategy.py, owner.py).                    *)
(*                                                                         *)
(* A draft is looked for before the model is called, and again in the      *)
(* transaction that proposes one; but that transaction is not serialized   *)
(* with another that does the same, so it is two actions here.             *)
(*                                                                         *)
(* All of it is of one domain. Decisions about one subject are told apart  *)
(* by their status only. What becomes of the outbox is Publisher's, but    *)
(* for acknowledgements, which matter once they are published; the vote    *)
(* and the research that go with an approved reply are left out.           *)
(***************************************************************************)
EXTENDS Integers, FiniteSets, Sequences, Functions, FiniteSetsExt

CONSTANTS
    Workers,     \* workers that run reply, draft and announce jobs
    Own,         \* sequence: the comments in our own threads, as they are listed
    Others,      \* posts and comments elsewhere
    Hypotheses,  \* what posts are about
    Nothing,     \* the subject of a worker without a job
    RepliesWaiting, \* MAX_REPLIES_WAITING
    OwnReplies,  \* MAX_OWN_THREAD_REPLIES
    ReplyDrafts, \* MAX_REPLY_DRAFTS
    MaxAcks,     \* bound on the acknowledgements followed up, for each comment
    MaxQueued,   \* bound on the jobs queued about one subject
    MaxRejected, \* bound on the owner's rejections about one subject ...
    MaxApproved  \* ... and on the approvals

Comments  == Range(Own)
Threads   == Comments \cup Others
FollowUps == Comments \X (1..MaxAcks)
Subjects  == Threads \cup Hypotheses \cup FollowUps

ASSUME CommunityAssumption ==
    /\ IsFiniteSet(Workers) /\ Workers # {}
    /\ Comments \cap Others = {}
    /\ Threads \cap Hypotheses = {}
    /\ FollowUps \cap (Threads \cup Hypotheses) = {}
    /\ Nothing \notin Subjects
    /\ {RepliesWaiting, OwnReplies, ReplyDrafts, MaxAcks} \subseteq Nat
    /\ {MaxQueued, MaxRejected, MaxApproved} \subseteq Nat

VARIABLES
    queued,    \* jobs pending about each subject
    proposed,  \* decisions about each: waiting for the owner,
    approved,  \* ... approved,
    rejected,  \* ... rejected
    known,     \* other threads the Scout has recorded
    acks,      \* "none", or what became of each acknowledgement approved
    scouting,  \* is a Scout at work?
    chosen,    \* the comments it is going to queue replies for
    pc,        \* where each worker is
    on,        \* the subject of its job
    raced      \* history: subjects that two transactions looked at side by side

decisions == <<proposed, approved, rejected>>
scout     == <<scouting, chosen>>
drafting  == <<pc, on>>
vars      == <<queued, decisions, known, acks, scout, drafting, raced>>

(* Type invariant; a follow-up is drafted only where an acknowledgement was *)
(* published.                                                              *)
TypeOK ==
    /\ queued   \in [Subjects -> 0..MaxQueued]
    /\ proposed \in [Subjects -> Nat]
    /\ approved \in [Subjects -> 0..MaxApproved]
    /\ rejected \in [Subjects -> 0..MaxRejected]
    /\ known    \in SUBSET Others
    /\ acks     \in [FollowUps -> {"none", "approved", "published", "withdrawn"}]
    /\ scouting \in BOOLEAN
    /\ chosen   \in SUBSET Comments
    /\ pc       \in [Workers -> {"idle", "drafting", "proposing"}]
    /\ on       \in [Workers -> Subjects \cup {Nothing}]
    /\ raced    \in SUBSET Subjects
    /\ \A f \in FollowUps :
           proposed[f] + approved[f] + rejected[f] > 0 => acks[f] = "published"

Init ==
    /\ queued   = [s \in Subjects |-> 0]
    /\ proposed = [s \in Subjects |-> 0]
    /\ approved = [s \in Subjects |-> 0]
    /\ rejected = [s \in Subjects |-> 0]
    /\ known    = {}
    /\ acks     = [f \in FollowUps |-> "none"]
    /\ scouting = FALSE
    /\ chosen   = {}
    /\ pc       = [w \in Workers |-> "idle"]
    /\ on       = [w \in Workers |-> Nothing]
    /\ raced    = {}
-----------------------------------------------------------------------------
(* reply_decisions_waiting, of the domain.                                 *)
RepliesProposed ==
    FoldSet(LAMBDA s, n : proposed[s] + n, 0, Threads \cup FollowUps)

Room == RepliesWaiting - RepliesProposed

(* What keeps a draft from being made: for a post one that waits, for a    *)
(* reply one that waits or was approved, for a follow-up any at all.       *)
Holding(s) ==
    CASE s \in Hypotheses -> proposed[s]
      [] s \in Threads    -> proposed[s] + approved[s]
      [] s \in FollowUps  -> proposed[s] + approved[s] + rejected[s]

Blocked(s) == Holding(s) > 0

(* reply_decision: a rejected one does not keep another from being drafted. *)
Answered(t) == Blocked(t)

Enqueue(subjects) ==
    /\ \A s \in subjects : queued[s] < MaxQueued
    /\ queued' = [s \in Subjects |-> queued[s] + (IF s \in subjects THEN 1 ELSE 0)]
-----------------------------------------------------------------------------
(* Who asks for drafts.                                                    *)

(* The first comments of those listed, as many as may be offered now.      *)
First(listed) ==
    {Own[i] : i \in {j \in listed :
        Cardinality({k \in listed : k <= j}) \in 1..OwnReplies \cap 1..Room}}

\* Mutated form of Offered: comments that have an answer hold their places.
Offered_Answered == {t \in First(DOMAIN Own) : ~Answered(t)}

(* new_replies: the first comments without an answer, as long as few       *)
(* drafts wait.                                                            *)
Offered == First({i \in DOMAIN Own : ~Answered(Own[i])})

(* The Scout chooses before it reads its leads with the model ...          *)
ScoutReads ==
    /\ ~scouting
    /\ scouting' = TRUE
    /\ chosen'   = Offered
    /\ UNCHANGED <<queued, decisions, known, acks, drafting, raced>>

(* ... and queues the replies when it persists, with some for the other    *)
(* conversations it records, known or not (what a search finds is not held *)
(* against the sources), as long as few drafts wait by now.                *)
ScoutPersists ==
    /\ scouting
    /\ \E recorded \in SUBSET Others : \E asked \in SUBSET recorded :
        /\ asked # {} => Cardinality(asked) <= ReplyDrafts /\ Cardinality(asked) <= Room
        /\ Enqueue(chosen \cup asked)
        /\ known' = known \cup recorded
    /\ scouting' = FALSE
    /\ chosen'   = {}
    /\ UNCHANGED <<decisions, acks, drafting, raced>>

(* It has no other lead, or a model call fails.                            *)
ScoutFails ==
    /\ scouting
    /\ scouting' = FALSE
    /\ chosen'   = {}
    /\ UNCHANGED <<queued, decisions, known, acks, drafting, raced>>

(* The owner: request_draft, request_reply.                                *)
OwnerAsks(s) ==
    /\ \/ s \in Hypotheses /\ proposed[s] = 0
       \/ s \in known /\ ~Answered(s)
    /\ Enqueue({s})
    /\ UNCHANGED <<decisions, known, acks, scout, drafting, raced>>

(* The Historian retires or supersedes a hypothesis.                       *)
HistorianAnnounces(h) ==
    /\ Enqueue({h})
    /\ UNCHANGED <<decisions, known, acks, scout, drafting, raced>>

(* post_candidate: one never asked about, while no draft waits.            *)
PostCandidates ==
    {h \in Hypotheses : /\ \A x \in Hypotheses : proposed[x] = 0
                        /\ approved[h] + rejected[h] = 0}

(* follow_ups_due: what was published, and not followed up.                *)
FollowUpsDue == {f \in FollowUps : acks[f] = "published" /\ ~Blocked(f)}

(* The Strategist: every follow-up that is due (an acknowledgement is too  *)
(* young at first, and later too old), and one hypothesis at most. What it *)
(* read the job reads again, so that its plan is one step.                 *)
StrategistAsks ==
    /\ \E due \in SUBSET FollowUpsDue, ask \in {{}} \cup {{h} : h \in PostCandidates} :
           due \cup ask # {} /\ Enqueue(due \cup ask)
    /\ UNCHANGED <<decisions, known, acks, scout, drafting, raced>>
-----------------------------------------------------------------------------
(* A draft: Replier, its _follow_up, Drafter, Announcer.                   *)

Ends(w) ==
    /\ pc' = [pc EXCEPT ![w] = "idle"]
    /\ on' = [on EXCEPT ![w] = Nothing]

Starts(w, s) ==
    /\ pc[w] = "idle"
    /\ queued[s] > 0
    /\ queued' = [queued EXCEPT ![s] = @ - 1]
    /\ \/ Blocked(s) /\ UNCHANGED drafting
       \/ /\ ~Blocked(s)
          /\ pc' = [pc EXCEPT ![w] = "drafting"]
          /\ on' = [on EXCEPT ![w] = s]
    /\ UNCHANGED <<decisions, known, acks, scout, raced>>

(* The model has nothing to say, or says too much, or the job fails; a     *)
(* failed one is tried again, up to its last attempt.                      *)
GivesUp(w) ==
    /\ pc[w] # "idle"
    /\ \/ UNCHANGED queued
       \/ Enqueue({on[w]})
    /\ Ends(w)
    /\ UNCHANGED <<decisions, known, acks, scout, raced>>

Proposing(s) == {w \in Workers : pc[w] = "proposing" /\ on[w] = s}

\* Mutated form of Drafted: nothing is looked for once the draft is there.
Drafted_Unchecked(w) == FALSE

(* persist: was one drafted in the meantime?                               *)
Drafted(w) == Blocked(on[w])

Checks(w) ==
    /\ pc[w] = "drafting"
    /\ \/ Drafted(w) /\ Ends(w) /\ UNCHANGED raced
       \/ /\ ~Drafted(w)
          /\ pc'    = [pc EXCEPT ![w] = "proposing"]
          /\ raced' = IF Proposing(on[w]) = {} THEN raced ELSE raced \cup {on[w]}
          /\ UNCHANGED on
    /\ UNCHANGED <<queued, decisions, known, acks, scout>>

(* ... and the transaction commits.                                        *)
Proposes(w) ==
    /\ pc[w] = "proposing"
    /\ proposed' = [proposed EXCEPT ![on[w]] = @ + 1]
    /\ Ends(w)
    /\ UNCHANGED <<queued, approved, rejected, known, acks, scout, raced>>
-----------------------------------------------------------------------------
(* The owner decides: resolve_decision.                                    *)

(* Approved, it goes to the outbox. Whether a reply in our own thread is   *)
(* an acknowledgement the model decided; it is told only here.             *)
Approve(s) ==
    /\ proposed[s] > 0
    /\ approved[s] < MaxApproved
    /\ proposed' = [proposed EXCEPT ![s] = @ - 1]
    /\ approved' = [approved EXCEPT ![s] = @ + 1]
    /\ \/ UNCHANGED acks
       \/ \E f \in FollowUps :
              /\ s = f[1] /\ acks[f] = "none"
              /\ acks' = [acks EXCEPT ![f] = "approved"]
    /\ UNCHANGED <<queued, rejected, known, scout, drafting, raced>>

Reject(s) ==
    /\ proposed[s] > 0
    /\ rejected[s] < MaxRejected
    /\ proposed' = [proposed EXCEPT ![s] = @ - 1]
    /\ rejected' = [rejected EXCEPT ![s] = @ + 1]
    /\ UNCHANGED <<queued, approved, known, acks, scout, drafting, raced>>

(* The publisher publishes the acknowledgement, or the owner withdraws it. *)
AckEnds(f, as) ==
    /\ acks[f] = "approved"
    /\ acks' = [acks EXCEPT ![f] = as]
    /\ UNCHANGED <<queued, decisions, known, scout, drafting, raced>>

Draft(w) ==
    \/ \E s \in Subjects : Starts(w, s)
    \/ GivesUp(w) \/ Checks(w) \/ Proposes(w)

Next ==
    \/ ScoutReads \/ ScoutPersists \/ ScoutFails
    \/ \E s \in Subjects : OwnerAsks(s) \/ Approve(s) \/ Reject(s)
    \/ \E h \in Hypotheses : HistorianAnnounces(h)
    \/ StrategistAsks
    \/ \E w \in Workers : Draft(w)
    \/ \E f \in FollowUps : AckEnds(f, "published") \/ AckEnds(f, "withdrawn")

Spec == Init /\ [][Next]_vars

(* The Scout runs every day, jobs are run, and the owner decides; a run of *)
(* the Scout, or of a reply, that is tried again and again succeeds.       *)
Fairness ==
    /\ WF_vars(ScoutReads) /\ SF_vars(ScoutPersists)
    /\ \A w \in Workers, s \in Subjects : SF_vars(Starts(w, s))
    /\ \A w \in Workers : SF_vars(Checks(w)) /\ SF_vars(Proposes(w))
    /\ \A s \in Subjects : WF_vars(Approve(s) \/ Reject(s))

FairSpec == Spec /\ Fairness
-----------------------------------------------------------------------------
(* Properties.                                                             *)

(* How many drafts of one subject there may be: one, unless transactions   *)
(* overlapped, and then one for every worker.                              *)
Limit(s) == IF s \in raced THEN Cardinality(Workers) ELSE 1

(* No comment or post gets two replies, nor two drafts of one side by side. *)
(* An approved reply counts for good, published or not.                    *)
OneReplyEach == \A t \in Threads : proposed[t] + approved[t] <= Limit(t)

(* The owner has one draft about a hypothesis to decide on, whether the    *)
(* Strategist, the Historian or the owner asked for it.                    *)
OneDraftEach == \A h \in Hypotheses : proposed[h] <= Limit(h)

(* What was said to be looked into is followed up once, even if the owner  *)
(* rejects it.                                                             *)
OneFollowUpEach ==
    \A f \in FollowUps : proposed[f] + approved[f] + rejected[f] <= Limit(f)

(* Nothing is said or put before the owner twice, whatever jobs and        *)
(* requests there are, whoever asked, and however long the drafts take.    *)
NoDoubles == OneReplyEach /\ OneDraftEach /\ OneFollowUpEach

(* No comment in our own threads is forgotten, whatever comments come      *)
(* before it, as long as the owner does not reject for ever.               *)
NoneForgotten == \A t \in Comments : <>[](Answered(t))
=============================================================================
