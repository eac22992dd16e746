--------------------------- MODULE PublisherProofs ---------------------------
(***************************************************************************)
(* Theorems about Publisher for any number of rows, grants, failures and   *)
(* retries. That the publisher halts in time is proved for a limit of two  *)
(* failures or more (Several); nothing else needs more than is assumed of  *)
(* the constants.                                                          *)
(***************************************************************************)
EXTENDS Publisher, FiniteSetTheorems, TLAPS

(* An attempt's new timestamp keeps the timeline a sequence of rows and    *)
(* grants.                                                                 *)
LEMMA Stamped ==
    ASSUME NEW p \in Rows, timeline \in Seq(Rows \cup Grants), Stamp(p)
    PROVE  timeline' \in Seq(Rows \cup Grants)
<1>1. CASE timeline' = Append(timeline, p)
  BY <1>1
<1>2. ASSUME NEW i \in DOMAIN timeline,
             timeline' = SubSeq(timeline, 1, i - 1)
                            \o SubSeq(timeline, i + 1, Len(timeline)) \o <<p>>
      PROVE  timeline' \in Seq(Rows \cup Grants)
  <2>1. i \in 1..Len(timeline)
    OBVIOUS
  <2>2. SubSeq(timeline, 1, i - 1) \in Seq(Rows \cup Grants)
    BY <2>1
  <2>3. SubSeq(timeline, i + 1, Len(timeline)) \in Seq(Rows \cup Grants)
    BY <2>1
  <2> QED
    BY <1>2, <2>2, <2>3
<1> QED
  BY <1>1, <1>2 DEF Stamp

(* The publisher is busy with a row exactly while it has marked one.       *)
Marking ==
    IF Busy THEN sending \in Rows /\ status[sending] = "publishing"
            ELSE sending = NoRow

(* The part of the invariant the promises below rest on: how often a row   *)
(* was created is known from where it is, and what is about to be recorded *)
(* as published is shown.                                                  *)
Accounted ==
    /\ \A p \in Rows : status[p] = "absent" => created[p] <= retries[p]
    /\ pc = "sending" => created[sending] <= retries[sending]
    /\ pc \in {"created", "passed"} => shown[sending]

(* Every upvote on its way is for something that has no other vote that    *)
(* counts: the unique index sees to it.                                    *)
OneLiveVote ==
    \A p, q \in Rows :
        (Kind[p] = "vote" /\ Kind[q] = "vote" /\ Target[p] = Target[q]
         /\ Live(p) /\ Live(q)) => p = q

IInv == TypeOK /\ Marking /\ Accounted /\ NeverTwiceUnseen /\ PublishedIsShown /\ OneLiveVote

(* The empty outbox satisfies the invariant.                               *)
LEMMA InitIInv == Init => IInv
BY PublisherAssumption
DEF Init, IInv, TypeOK, Marking, Busy, Accounted, NeverTwiceUnseen, PublishedIsShown,
    OneLiveVote, Live, Statuses, Places

(* What each action does to the row it is about, and that it leaves the    *)
(* others alone.                                                           *)
LEMMA NextIInv == IInv /\ [Next]_vars => IInv'
<1> SUFFICES ASSUME IInv, [Next]_vars PROVE IInv'
  OBVIOUS
<1> USE PublisherAssumption
    DEF IInv, TypeOK, Marking, Busy, Accounted, NeverTwiceUnseen, PublishedIsShown,
        OneLiveVote, Live, Statuses, Places, outbox, service, history
<1>1. ASSUME NEW p \in Rows, Queue(p) PROVE IInv'
  <2>1. TypeOK' /\ Marking' /\ Accounted' /\ NeverTwiceUnseen' /\ PublishedIsShown'
    BY <1>1 DEF Queue
  <2>2. OneLiveVote'
    BY <1>1 DEF Queue, VoteAllowed
  <2> QED
    BY <2>1, <2>2
<1>2. ASSUME NEW p \in Rows, WithdrawPost(p) PROVE IInv'
  <2>1. TypeOK' /\ Marking'
    BY <1>2 DEF WithdrawPost
  <2>2. Accounted' /\ NeverTwiceUnseen' /\ PublishedIsShown'
    BY <1>2 DEF WithdrawPost
  <2>3. OneLiveVote'
    BY <1>2 DEF WithdrawPost
  <2> QED
    BY <2>1, <2>2, <2>3
<1>3. ASSUME NEW p \in Rows, RetryPost(p) PROVE IInv'
  <2>5. status[p] = "failed" /\ retries' \in [Rows -> 0..MaxRetries]
    BY <1>3 DEF RetryPost, Retriable
  <2>1. TypeOK' /\ Marking'
    BY <1>3, <2>5 DEF RetryPost
  <2>4. Accounted' /\ PublishedIsShown'
    BY <1>3, <2>5 DEF RetryPost
  <2>2. ASSUME NEW q \in Rows
        PROVE  /\ created'[q] <= retries'[q] + 1
               /\ status'[q] \in {"approved", "withdrawn"} => created'[q] <= retries'[q]
    <3>1. created' = created /\ created[q] \in Nat /\ retries[q] \in Nat
      BY <1>3 DEF RetryPost
    <3>2. retries'[q] = IF q = p THEN retries[q] + 1 ELSE retries[q]
      BY <1>3 DEF RetryPost
    <3>3. q # p => status'[q] = status[q]
      BY <1>3 DEF RetryPost
    <3> QED
      BY <3>1, <3>2, <3>3
  <2>3. OneLiveVote'
    BY <1>3 DEF RetryPost, Retriable, VoteAllowed
  <2> QED
    BY <2>1, <2>2, <2>3, <2>4
<1>4. ASSUME NEW g \in Grants, GrantResume(g) PROVE IInv'
  BY <1>4 DEF GrantResume
<1>5. ASSUME NEW p \in Rows, Attempt(p) PROVE IInv'
  <2>1. timeline' \in Seq(Rows \cup Grants)
    BY <1>5, Stamped DEF Attempt
  <2>2. used' \in SUBSET Grants
    BY <1>5 DEF Attempt, First, Resumes, Granted
  <2>3. status[p] = "approved" /\ pc = "idle"
    BY <1>5 DEF Attempt, Waiting
  <2>4. TypeOK' /\ Marking'
    BY <1>5, <2>1, <2>2 DEF Attempt, Marked
  <2>5. Accounted' /\ NeverTwiceUnseen' /\ PublishedIsShown'
    BY <1>5, <2>3 DEF Attempt, Marked
  <2>6. OneLiveVote'
    BY <1>5, <2>3 DEF Attempt, Marked
  <2> QED
    BY <2>4, <2>5, <2>6
<1>6. CASE TurnedAway
  <2>1. TypeOK' /\ Marking'
    BY <1>6 DEF TurnedAway, Record
  <2>2. Accounted' /\ NeverTwiceUnseen' /\ PublishedIsShown'
    BY <1>6 DEF TurnedAway, Record
  <2>3. OneLiveVote'
    BY <1>6 DEF TurnedAway, Record
  <2> QED
    BY <2>1, <2>2, <2>3
<1>7. ASSUME NEW b \in BOOLEAN, SendFails(b) PROVE IInv'
  <2>1. status[sending] = "publishing" /\ created[sending] <= retries[sending]
    BY <1>7 DEF SendFails
  <2>2. TypeOK' /\ Marking'
    BY <1>7 DEF SendFails, Record, Created, AfterError
  <2>3. Accounted' /\ NeverTwiceUnseen'
    BY <1>7, <2>1 DEF SendFails, Record, Created, AfterError
  <2>4. PublishedIsShown' /\ OneLiveVote'
    BY <1>7 DEF SendFails, Record, Created, AfterError
  <2> QED
    BY <2>2, <2>3, <2>4
<1>8. ASSUME NEW b \in BOOLEAN, SendSucceeds(b) PROVE IInv'
  <2>1. /\ status[sending] = "publishing" /\ created[sending] <= retries[sending]
        /\ created' = [created EXCEPT ![sending] = @ + 1]
        /\ shown' = [shown EXCEPT ![sending] = ~b]
        /\ pc' = IF b THEN "challenged" ELSE "created"
    BY <1>8 DEF SendSucceeds, Created
  <2>2. TypeOK' /\ Marking'
    BY <1>8, <2>1 DEF SendSucceeds
  <2>3. Accounted'
    BY <1>8, <2>1 DEF SendSucceeds
  <2>6. NeverTwiceUnseen'
    <3>1. status' = status /\ retries' = retries
      BY <1>8 DEF SendSucceeds
    <3>2. ASSUME NEW p \in Rows
          PROVE  /\ created'[p] <= retries[p] + 1
                 /\ status[p] \in {"approved", "withdrawn"} => created'[p] <= retries[p]
      <4>1. CASE p = sending
        BY <2>1, <4>1
      <4>2. CASE p # sending
        BY <2>1, <4>2
      <4> QED
        BY <4>1, <4>2
    <3> QED
      BY <3>1, <3>2
  <2>4. PublishedIsShown'
    <3>1. status' = status /\ verification' = verification
      BY <1>8 DEF SendSucceeds
    <3>2. \A p \in Rows : p # sending => shown'[p] = shown[p]
      BY <2>1
    <3> QED
      BY <2>1, <3>1, <3>2
  <2>5. OneLiveVote'
    BY <1>8 DEF SendSucceeds
  <2> QED
    BY <2>2, <2>3, <2>4, <2>5, <2>6
<1>9. CASE Pass
  BY <1>9 DEF Pass
<1>10. CASE Refuse
  BY <1>10 DEF Refuse
<1>11. CASE Finish
  <2>1. /\ sending \in Rows
        /\ status'       = [status EXCEPT ![sending] = Outcome]
        /\ verification' = [verification EXCEPT ![sending] = Verdict(sending)]
        /\ Outcome \in {"failed", "published"}
        /\ Verdict(sending) \in {"none", "passed", "failed"}
    BY <1>11 DEF Finish, Record, Outcome, Verdict
  <2>2. TypeOK' /\ Marking'
    BY <1>11, <2>1 DEF Finish, Record
  <2>3. Accounted' /\ NeverTwiceUnseen' /\ OneLiveVote'
    BY <1>11, <2>1 DEF Finish, Record
  <2>4. PublishedIsShown'
    BY <1>11, <2>1 DEF Finish, Record, Outcome, Verdict
  <2> QED
    BY <2>2, <2>3, <2>4
<1>12. ASSUME NEW place \in {"idle", "down"}, NEW exists \in BOOLEAN, Abandon(place, exists)
       PROVE  IInv'
  <2>1. TypeOK' /\ Marking'
    BY <1>12 DEF Abandon, Created
  <2>2. Accounted' /\ NeverTwiceUnseen' /\ PublishedIsShown'
    BY <1>12 DEF Abandon, Created
  <2>3. OneLiveVote'
    BY <1>12 DEF Abandon, Created
  <2> QED
    BY <2>1, <2>2, <2>3
<1>13. CASE Stop \/ Restart
  <2>1. /\ UNCHANGED <<status, verification, timeline, used, ready, sending, created, shown,
                       retries, unseen>>
        /\ pc \in {"idle", "down"} /\ pc' \in {"idle", "down"}
    BY <1>13 DEF Stop, Restart
  <2>2. TypeOK' /\ Marking' /\ Accounted'
    BY <2>1
  <2>3. NeverTwiceUnseen' /\ PublishedIsShown' /\ OneLiveVote'
    BY <2>1
  <2> QED
    BY <2>2, <2>3
<1>14. ASSUME NEW k \in Kinds, BecomeReady(k) PROVE IInv'
  BY <1>14 DEF BecomeReady
<1>15. CASE UNCHANGED vars
  BY <1>15 DEF vars
<1> HIDE DEF IInv, Busy, outbox, service, history
<1>16. CASE OwnerStep
  BY <1>16, <1>1, <1>2, <1>3, <1>4 DEF OwnerStep
<1>17. CASE PublisherStep
  BY <1>17, <1>5, <1>6, <1>7, <1>8, <1>9, <1>10, <1>11, <1>12, <1>13 DEF PublisherStep
<1> QED
  BY <1>14, <1>15, <1>16, <1>17 DEF Next

(* The invariant holds in every state.                                     *)
LEMMA Invariance == Spec => []IInv
BY InitIInv, NextIInv, PTL DEF Spec

(* Type correctness: whatever happens, the outbox and the publisher stay   *)
(* within the statuses and places the code knows.                          *)
THEOREM Typing == Spec => []TypeOK
<1>1. IInv => TypeOK
  BY DEF IInv
<1> QED
  BY <1>1, Invariance, PTL

(* No row is created on the forum more often than the owner asked for,     *)
(* however many attempts crashed, timed out or were turned away.           *)
THEOREM SentOnlyWhenAsked == Spec => []NeverTwiceUnseen
<1>1. IInv => NeverTwiceUnseen
  BY DEF IInv
<1> QED
  BY <1>1, Invariance, PTL

(* What the outbox calls published is to be seen on the forum.             *)
THEOREM PublishedShows == Spec => []PublishedIsShown
<1>1. IInv => PublishedIsShown
  BY DEF IInv
<1> QED
  BY <1>1, Invariance, PTL

(* However votes for one thing crash, time out, are withdrawn or are sent  *)
(* back, it is upvoted at most once more often than the owner was told of  *)
(* a failure. A vote that counts has been created at most once more often  *)
(* than it was sent back, any other no more often than it failed; and of   *)
(* two for one target only one counts.                                     *)
THEOREM VotesOnce == Spec => []UpvotedOnce
<1>1. IInv => UpvotedOnce
  <2> SUFFICES ASSUME IInv, NEW p \in Rows, NEW q \in Rows, p # q,
                      Kind[p] = "vote", Kind[q] = "vote", Target[p] = Target[q]
               PROVE  created[p] + created[q] <= Failures(p) + Failures(q) + 1
    BY DEF UpvotedOnce
  <2>1. ASSUME NEW r \in Rows
        PROVE  /\ created[r] \in Nat /\ Failures(r) \in Nat
               /\ created[r] <= Failures(r) + 1
               /\ ~Live(r) => created[r] <= Failures(r)
    <3>1. created[r] \in Nat /\ retries[r] \in Nat /\ status[r] \in Statuses
      BY PublisherAssumption DEF IInv, TypeOK
    <3>2. /\ created[r] <= retries[r] + 1
          /\ status[r] \in {"approved", "withdrawn", "absent"} => created[r] <= retries[r]
      BY DEF IInv, NeverTwiceUnseen, Accounted
    <3> QED
      BY <3>1, <3>2 DEF Failures, Live, Statuses
  <2>2. ~Live(p) \/ ~Live(q)
    BY DEF IInv, OneLiveVote
  <2> QED
    BY <2>1, <2>2
<1> QED
  BY <1>1, Invariance, PTL
-----------------------------------------------------------------------------
(* That published and withdrawn rows are left alone follows from Marking:  *)
(* every step that changes a row concerns one that waits, has failed or is *)
(* marked publishing.                                                      *)
Untouched(p) == status'[p] = status[p] /\ created'[p] = created[p]
Closed(p)    == status[p] \in {"published", "withdrawn"}

(* No action that is enabled touches a row that is closed.                 *)
LEMMA ClosedUntouched ==
    ASSUME IInv, [Next]_vars, NEW p \in Rows, Closed(p)
    PROVE  Untouched(p)
<1> USE DEF Closed, Untouched, outbox, service, history
<1>1. Busy => sending \in Rows /\ sending # p
  BY DEF IInv, Marking
<1>2. status \in [Rows -> Statuses] /\ created \in [Rows -> Nat]
  BY DEF IInv, TypeOK
<1>3. ASSUME NEW q \in Rows, Queue(q) \/ WithdrawPost(q) \/ RetryPost(q) \/ Attempt(q)
      PROVE  Untouched(p)
  BY <1>2, <1>3 DEF Queue, WithdrawPost, RetryPost, Retriable, Attempt, Waiting
<1>4. ASSUME NEW g \in Grants, GrantResume(g) PROVE Untouched(p)
  BY <1>4 DEF GrantResume
<1>5. CASE TurnedAway \/ Finish \/ \E b \in BOOLEAN : SendFails(b)
  BY <1>1, <1>2, <1>5 DEF TurnedAway, Finish, SendFails, Record, Created, Busy
<1>6. CASE Pass \/ Refuse \/ \E b \in BOOLEAN : SendSucceeds(b)
  BY <1>1, <1>2, <1>6 DEF Pass, Refuse, SendSucceeds, Created, Busy
<1>7. CASE \E place \in {"idle", "down"}, exists \in BOOLEAN : Abandon(place, exists)
  BY <1>1, <1>2, <1>7 DEF Abandon, Created, Busy
<1>8. CASE Stop \/ Restart \/ \E k \in Kinds : BecomeReady(k)
  BY <1>8 DEF Stop, Restart, BecomeReady
<1>9. CASE UNCHANGED vars
  BY <1>9 DEF vars
<1> HIDE DEF Closed, Untouched, outbox, service, history
<1> QED
  BY <1>3, <1>4, <1>5, <1>6, <1>7, <1>8, <1>9 DEF Next, OwnerStep, PublisherStep

(* What the owner has withdrawn is never sent, and what was published is   *)
(* never sent again.                                                       *)
THEOREM ClosedForGood == Spec => LeftAlone
<1>1. IInv /\ [Next]_vars =>
        [\A p \in Rows : status[p] \in {"published", "withdrawn"} =>
            status'[p] = status[p] /\ created'[p] = created[p]]_vars
  BY ClosedUntouched DEF Closed, Untouched
<1> QED
  BY <1>1, Invariance, PTL DEF Spec, LeftAlone
-----------------------------------------------------------------------------
(* The halt. First the timeline: in it an attempt moves its row behind all *)
(* others, and leaves their order alone.                                   *)
Timed(x) == \E i \in DOMAIN timeline : timeline[i] = x
OnceEach == \A i, k \in DOMAIN timeline : timeline[i] = timeline[k] => i = k

LEMMA OrderOfTime ==
    ASSUME timeline \in Seq(Rows \cup Grants), OnceEach
    PROVE  /\ \A x, y : Before(x, y) => Timed(x) /\ Timed(y) /\ ~Before(y, x)
           /\ \A x, y : Timed(x) /\ Timed(y) => x = y \/ Before(x, y) \/ Before(y, x)
           /\ \A x, y, z : Before(x, y) /\ Before(y, z) => Before(x, z)
<1>1. DOMAIN timeline \subseteq Int
  OBVIOUS
<1>2. \A x, y : Before(x, y) => Timed(x) /\ Timed(y) /\ ~Before(y, x)
  BY <1>1 DEF OnceEach, Before, Timed
<1>3. \A x, y : Timed(x) /\ Timed(y) => x = y \/ Before(x, y) \/ Before(y, x)
  BY <1>1 DEF OnceEach, Before, Timed
<1>4. \A x, y, z : Before(x, y) /\ Before(y, z) => Before(x, z)
  <2> SUFFICES ASSUME NEW x, NEW y, NEW z, Before(x, y), Before(y, z) PROVE Before(x, z)
    OBVIOUS
  <2>1. PICK i, k \in DOMAIN timeline : i < k /\ timeline[i] = x /\ timeline[k] = y
    BY DEF Before
  <2>2. PICK m, n \in DOMAIN timeline : m < n /\ timeline[m] = y /\ timeline[n] = z
    BY DEF Before
  <2>3. k = m
    BY <2>1, <2>2 DEF OnceEach
  <2>4. i < n
    BY <1>1, <2>1, <2>2, <2>3
  <2> QED
    BY <2>1, <2>2, <2>4 DEF Before
<1> QED
  BY <1>2, <1>3, <1>4

LEMMA Joined ==
    ASSUME NEW S, NEW a \in Seq(S), NEW b \in Seq(S)
    PROVE  /\ a \o b \in Seq(S) /\ Len(a \o b) = Len(a) + Len(b)
           /\ \A k \in 1..Len(a) + Len(b) :
                 (a \o b)[k] = IF k <= Len(a) THEN a[k] ELSE b[k - Len(a)]
OBVIOUS

LEMMA AtEnd ==
    ASSUME NEW S, NEW c \in Seq(S), NEW p \in S
    PROVE  /\ DOMAIN (c \o <<p>>) = 1..Len(c) + 1
           /\ (c \o <<p>>)[Len(c) + 1] = p
           /\ \A k \in 1..Len(c) : (c \o <<p>>)[k] = c[k]
OBVIOUS

(* Where an entry that is stamped was (i), and where it is (m): what came  *)
(* after it moves up by one.                                               *)
LEMMA Shifted ==
    ASSUME NEW p, p \in Rows \cup Grants, timeline \in Seq(Rows \cup Grants), OnceEach, Stamp(p)
    PROVE  \E i, m \in Nat \ {0} :
              /\ \/ i <= Len(timeline) /\ m = Len(timeline) /\ timeline[i] = p
                 \/ i = Len(timeline) + 1 /\ m = i /\ ~Timed(p)
              /\ DOMAIN timeline' = 1..m
              /\ timeline'[m] = p
              /\ \A k \in 1..m - 1 : timeline'[k] = timeline[IF k < i THEN k ELSE k + 1]
<1> DEFINE L == Len(timeline)
<1>0. L \in Nat /\ DOMAIN timeline = 1..L
  OBVIOUS
<1>1. CASE (\A i \in DOMAIN timeline : timeline[i] # p) /\ timeline' = Append(timeline, p)
  <2>1. /\ DOMAIN timeline' = 1..L + 1 /\ timeline'[L + 1] = p
        /\ \A k \in 1..L : timeline'[k] = timeline[k]
    BY <1>1
  <2>2. ~Timed(p)
    BY <1>1 DEF Timed
  <2>3. L + 1 \in Nat \ {0} /\ L + 1 - 1 = L /\ \A k \in 1..L : k < L + 1
    BY <1>0
  <2>4. \A k \in 1..L + 1 - 1 : timeline'[k] = timeline[IF k < L + 1 THEN k ELSE k + 1]
    BY <2>1, <2>3
  <2> DEFINE m == L + 1
  <2>5. m \in Nat \ {0} /\ m = Len(timeline) + 1 /\ DOMAIN timeline' = 1..m /\ timeline'[m] = p
    BY <2>1, <2>3
  <2>6. \A k \in 1..m - 1 : timeline'[k] = timeline[IF k < m THEN k ELSE k + 1]
    BY <2>4
  <2> HIDE DEF m, L
  <2> QED
    BY <2>2, <2>5, <2>6
<1>2. ASSUME NEW i \in DOMAIN timeline, timeline[i] = p,
             timeline' = SubSeq(timeline, 1, i - 1)
                            \o SubSeq(timeline, i + 1, Len(timeline)) \o <<p>>
      PROVE  /\ DOMAIN timeline' = 1..L /\ timeline'[L] = p
             /\ \A k \in 1..L - 1 : timeline'[k] = timeline[IF k < i THEN k ELSE k + 1]
  <2> DEFINE a == SubSeq(timeline, 1, i - 1)
             b == SubSeq(timeline, i + 1, L)
  <2>1. i \in 1..L
    BY <1>0
  <2>2. a \in Seq(Rows \cup Grants) /\ Len(a) = i - 1 /\ \A k \in 1..i - 1 : a[k] = timeline[k]
    BY <2>1
  <2>3. b \in Seq(Rows \cup Grants) /\ Len(b) = L - i /\ \A k \in 1..L - i : b[k] = timeline[k + i]
    BY <2>1
  <2> HIDE DEF a, b
  <2>4. /\ a \o b \in Seq(Rows \cup Grants) /\ Len(a \o b) = L - 1
        /\ \A k \in 1..L - 1 : (a \o b)[k] = IF k < i THEN timeline[k] ELSE timeline[k + 1]
    <3>1. /\ a \o b \in Seq(Rows \cup Grants) /\ Len(a \o b) = Len(a) + Len(b)
          /\ \A k \in 1..Len(a) + Len(b) :
                (a \o b)[k] = IF k <= Len(a) THEN a[k] ELSE b[k - Len(a)]
      BY <2>2, <2>3, Joined
    <3>3. Len(a) + Len(b) = L - 1 /\ Len(a) = i - 1
      BY <1>0, <2>1, <2>2, <2>3
    <3>2. ASSUME NEW k \in 1..L - 1
          PROVE  (a \o b)[k] = IF k < i THEN timeline[k] ELSE timeline[k + 1]
      <4>1. CASE k < i
        <5>1. k <= Len(a) /\ k \in 1..i - 1 /\ k \in 1..Len(a) + Len(b)
          BY <1>0, <2>1, <3>3, <4>1
        <5> QED
          BY <2>2, <3>1, <4>1, <5>1
      <4>2. CASE ~(k < i)
        <5>1. /\ ~(k <= Len(a)) /\ k - Len(a) \in 1..L - i /\ k - Len(a) + i = k + 1
              /\ k \in 1..Len(a) + Len(b)
          BY <1>0, <2>1, <3>3, <4>2
        <5>2. b[k - Len(a)] = timeline[k + 1]
          BY <2>3, <5>1
        <5> QED
          BY <3>1, <4>2, <5>1, <5>2
      <4> QED
        BY <4>1, <4>2
    <3> QED
      BY <3>1, <3>2, <3>3
  <2>5. timeline' = (a \o b) \o <<p>>
    BY <1>2 DEF a, b
  <2> DEFINE c == a \o b
  <2>6. /\ c \in Seq(Rows \cup Grants) /\ Len(c) = L - 1 /\ timeline' = c \o <<p>>
        /\ \A k \in 1..L - 1 : c[k] = IF k < i THEN timeline[k] ELSE timeline[k + 1]
    BY <2>4, <2>5
  <2> HIDE DEF c
  <2>7. /\ DOMAIN timeline' = 1..L - 1 + 1 /\ timeline'[L - 1 + 1] = p
        /\ \A k \in 1..L - 1 : timeline'[k] = c[k]
    BY <2>6, AtEnd
  <2>8. L - 1 + 1 = L
    BY <1>0
  <2> QED
    BY <2>6, <2>7, <2>8
<1>3. CASE \E i \in DOMAIN timeline : /\ timeline[i] = p
                                      /\ timeline' = SubSeq(timeline, 1, i - 1)
                                           \o SubSeq(timeline, i + 1, Len(timeline)) \o <<p>>
  <2>1. PICK i \in DOMAIN timeline : /\ timeline[i] = p
                                     /\ timeline' = SubSeq(timeline, 1, i - 1)
                                          \o SubSeq(timeline, i + 1, Len(timeline)) \o <<p>>
    BY <1>3
  <2>2. /\ DOMAIN timeline' = 1..L /\ timeline'[L] = p
        /\ \A k \in 1..L - 1 : timeline'[k] = timeline[IF k < i THEN k ELSE k + 1]
    BY <1>2, <2>1
  <2>3. i \in Nat \ {0} /\ L \in Nat \ {0} /\ i <= L
    BY <1>0
  <2> HIDE DEF L
  <2>4. timeline[i] = p
    BY <2>1
  <2> QED
    BY <2>2, <2>3, <2>4 DEF L
<1> QED
  BY <1>1, <1>3 DEF Stamp

LEMMA StampedLast ==
    ASSUME NEW p, p \in Rows \cup Grants, timeline \in Seq(Rows \cup Grants), OnceEach, Stamp(p)
    PROVE  /\ OnceEach'
           /\ \A x : Timed(x)' <=> Timed(x) \/ x = p
           /\ \A x, y : x # p /\ y # p => (Before(x, y)' <=> Before(x, y))
           /\ \A x : Timed(x) /\ x # p => Before(x, p)'
<1>1. PICK i, m \in Nat \ {0} :
              /\ \/ i <= Len(timeline) /\ m = Len(timeline) /\ timeline[i] = p
                 \/ i = Len(timeline) + 1 /\ m = i /\ ~Timed(p)
              /\ DOMAIN timeline' = 1..m
              /\ timeline'[m] = p
              /\ \A k \in 1..m - 1 : timeline'[k] = timeline[IF k < i THEN k ELSE k + 1]
  BY Shifted
<1> DEFINE L == Len(timeline)
           from(k) == IF k < i THEN k ELSE k + 1
           to(k)   == IF k < i THEN k ELSE k - 1
<1>2. L \in Nat /\ DOMAIN timeline = 1..L
  OBVIOUS
<1>0. /\ i \in Nat \ {0}
      /\ \/ i <= L /\ m = L /\ timeline[i] = p
         \/ i = L + 1 /\ m = i /\ ~Timed(p)
  BY <1>1
<1>15. \A k \in 1..m - 1 : timeline'[k] = timeline[from(k)]
  BY <1>1
<1> HIDE DEF L
<1>3. \A k \in 1..m - 1 : from(k) \in 1..L /\ from(k) # i
  BY <1>0, <1>2
<1>4. \A k \in 1..L : k # i => to(k) \in 1..m - 1 /\ to(k) \in 1..m /\ to(k) < m
  BY <1>0, <1>2
<1>16. \A k \in 1..L : k # i => from(to(k)) = k
  BY <1>0, <1>2
<1>5. \A k, n \in 1..m - 1 : k < n <=> from(k) < from(n)
  BY <1>0, <1>2
<1>7. \A k, n \in 1..L : k # i /\ n # i /\ k < n => to(k) < to(n)
  BY <1>0, <1>2
<1> HIDE DEF from, to
<1>6. \A k \in 1..L : k # i => timeline'[to(k)] = timeline[k]
  BY <1>4, <1>15, <1>16
<1>8. \A k \in 1..L : timeline[k] = p <=> k = i
  <2>1. CASE i <= L /\ timeline[i] = p
    <3>1. i \in 1..L
      BY <1>0, <1>2, <2>1
    <3> QED
      BY <1>2, <1>15, <2>1, <3>1 DEF OnceEach
  <2>2. CASE i = L + 1 /\ ~Timed(p)
    <3>1. \A k \in 1..L : timeline[k] # p /\ k # i
      BY <1>0, <1>2, <1>15, <2>2 DEF Timed
    <3> QED
      BY <3>1
  <2> QED
    BY <1>0, <2>1, <2>2
<1>9. m \in 1..m /\ \A k \in 1..m : k = m \/ k \in 1..m - 1
  BY <1>1
<1>10. \A k \in 1..m - 1 : timeline'[k] # p /\ k \in 1..m
  BY <1>1, <1>3, <1>8, <1>15
<1>11. OnceEach'
  <2> SUFFICES ASSUME NEW k \in 1..m, NEW n \in 1..m, timeline'[k] = timeline'[n] PROVE k = n
    BY <1>1 DEF OnceEach
  <2>1. CASE k = m \/ n = m
    BY <1>1, <1>9, <1>10, <2>1
  <2>2. CASE k # m /\ n # m
    <3>1. k \in 1..m - 1 /\ n \in 1..m - 1
      BY <1>9, <2>2
    <3>2. from(k) = from(n)
      BY <1>2, <1>3, <1>15, <3>1 DEF OnceEach
    <3>3. ~(k < n) /\ ~(n < k)
      <4>1. from(k) \in 1..L /\ from(n) \in 1..L
        BY <1>3, <3>1
      <4>2. ~(from(k) < from(n)) /\ ~(from(n) < from(k))
        BY <1>2, <3>2, <4>1
      <4> QED
        BY <1>5, <3>1, <4>2
    <3> QED
      BY <1>1, <3>1, <3>3
  <2> QED
    BY <2>1, <2>2
<1>12. ASSUME NEW x PROVE Timed(x)' <=> Timed(x) \/ x = p
  <2>1. ASSUME Timed(x)' PROVE Timed(x) \/ x = p
    BY <1>1, <1>2, <1>3, <1>9, <1>15, <2>1 DEF Timed
  <2>2. ASSUME Timed(x) \/ x = p PROVE Timed(x)'
    <3>1. CASE x = p
      BY <1>1, <1>9, <3>1 DEF Timed
    <3>2. CASE Timed(x) /\ x # p
      <4>1. PICK k \in 1..L : timeline[k] = x
        BY <1>2, <3>2 DEF Timed
      <4>2. k # i
        BY <1>8, <3>2, <4>1
      <4> QED
        BY <1>1, <1>4, <1>6, <4>1, <4>2 DEF Timed
    <3> QED
      BY <2>2, <3>1, <3>2
  <2> QED
    BY <2>1, <2>2
<1>13. ASSUME NEW x, NEW y, x # p, y # p PROVE Before(x, y)' <=> Before(x, y)
  <2>1. ASSUME Before(x, y)' PROVE Before(x, y)
    <3>1. PICK k, n \in 1..m : k < n /\ timeline'[k] = x /\ timeline'[n] = y
      BY <1>1, <2>1 DEF Before
    <3>2. k \in 1..m - 1 /\ n \in 1..m - 1
      BY <1>1, <1>9, <1>13, <3>1
    <3> QED
      BY <1>2, <1>3, <1>5, <1>15, <3>1, <3>2 DEF Before
  <2>2. ASSUME Before(x, y) PROVE Before(x, y)'
    <3>1. PICK k, n \in 1..L : k < n /\ timeline[k] = x /\ timeline[n] = y
      BY <1>2, <2>2 DEF Before
    <3>2. k # i /\ n # i
      BY <1>8, <1>13, <3>1
    <3> QED
      BY <1>1, <1>4, <1>6, <1>7, <3>1, <3>2 DEF Before
  <2> QED
    BY <2>1, <2>2
<1>14. ASSUME NEW x, Timed(x), x # p PROVE Before(x, p)'
  <2>1. PICK k \in 1..L : timeline[k] = x
    BY <1>2, <1>14 DEF Timed
  <2>2. k # i
    BY <1>8, <1>14, <2>1
  <2>3. to(k) \in 1..m /\ to(k) < m /\ timeline'[to(k)] = x
    BY <1>4, <1>6, <2>1, <2>2
  <2> QED
    BY <1>1, <1>9, <2>3 DEF Before
<1> QED
  BY <1>11, <1>12, <1>13, <1>14
-----------------------------------------------------------------------------
(* Sizes. What the halt counts are rows that have been attempted, of which *)
(* there are finitely many.                                                *)
LEMMA Few ==
    ASSUME NEW X, NEW line \in Seq(X), NEW F,
           \A p \in F : \E i \in DOMAIN line : line[i] = p
    PROVE  IsFiniteSet(F) /\ Cardinality(F) \in Nat
<1> DEFINE all == {line[i] : i \in 1..Len(line)}
           f   == [i \in 1..Len(line) |-> line[i]]
<1>1. Len(line) \in Nat /\ DOMAIN line = 1..Len(line)
  OBVIOUS
<1>2. IsFiniteSet(1..Len(line))
  BY <1>1, FS_Interval
<1>3. f \in Surjection(1..Len(line), all)
  BY DEF Surjection
<1>4. IsFiniteSet(all)
  BY <1>2, <1>3, FS_Surjection
<1>5. F \in SUBSET all
  BY <1>1
<1> QED
  BY <1>4, <1>5, FS_Subset, FS_CardinalityType

LEMMA LeastOf ==
    ASSUME NEW K \in SUBSET Nat, K # {}
    PROVE  \E k \in K : \A j \in K : k <= j
<1>1. PICK k \in K : \A j \in K : ~(<<j, k>> \in OpToRel(<, Nat))
  BY NatLessThanWellFounded, WFMin
<1>2. \A j \in K : <<j, k>> \in Nat \X Nat
  OBVIOUS
<1>3. \A j \in K : ~(j < k)
  BY <1>1, <1>2 DEF OpToRel
<1> QED
  BY <1>3

(* Failures that are on record, those of a row attempted after a grant,    *)
(* and the one that is known and not yet recorded.                         *)
Recorded  == {p \in Rows : status[p] = "failed" /\ verification[p] = "failed"}
Since(g)  == {p \in Recorded : Before(g, p)}
Known     == IF pc = "refused" THEN 1 ELSE 0

(* A row that was sent is in the timeline, once, the one in hand last; one *)
(* that passed its verification is published.                              *)
Ordered ==
    /\ OnceEach
    /\ \A p \in Rows : status[p] = "publishing" \/ verification[p] # "none" => Timed(p)
    /\ \A p \in Rows : verification[p] = "passed" => status[p] = "published"
    /\ Busy => \A q \in Rows \ {sending} : Timed(q) => Before(q, sending)

(* The unanswered failures are among the last rows that were verified,     *)
(* which all failed: these are what _halted_since counts.                  *)
InARow ==
    \E S \in SUBSET Failed :
        /\ Latest(S)
        /\ unseen <= Cardinality(S \cap Recorded) + Cardinality(StuckRows) + Known

(* Since a grant, no failure but that of the row in hand when it was made  *)
(* is of a row attempted before it.                                        *)
SinceGrants ==
    \A g \in Granted :
        unseen <= Cardinality(Since(g)) + Cardinality(StuckRows) + Known
                    + IF Busy /\ ~Before(g, sending) THEN 0 ELSE 1

(* A row is sent only while one more failure does not exceed the limit.    *)
RoomForOne ==
    /\ pc = "passed" => unseen = 0
    /\ unseen + (IF pc \in {"sending", "challenged"} THEN 1 ELSE 0)
           <= MaxFailed + Cardinality(StuckRows)

HaltIInv == IInv /\ Ordered /\ InARow /\ SinceGrants /\ RoomForOne

Countable ==
    /\ \A S \in SUBSET Verified : IsFiniteSet(S) /\ Cardinality(S) \in Nat
    /\ IsFiniteSet(StuckRows) /\ Cardinality(StuckRows) \in Nat
    /\ Recorded \subseteq Failed /\ Failed \subseteq Verified
    /\ \A g : Since(g) \subseteq Recorded

LEMMA Sizes == TypeOK /\ Ordered => Countable
<1> SUFFICES ASSUME TypeOK, Ordered PROVE Countable
  OBVIOUS
<1>1. timeline \in Seq(Rows \cup Grants)
  BY DEF TypeOK
<1>2. \A p \in Verified \cup StuckRows : \E i \in DOMAIN timeline : timeline[i] = p
  BY DEF Ordered, Timed, Verified, StuckRows
<1>3. ASSUME NEW S \in SUBSET Verified PROVE IsFiniteSet(S) /\ Cardinality(S) \in Nat
  BY <1>1, <1>2, Few
<1>4. IsFiniteSet(StuckRows) /\ Cardinality(StuckRows) \in Nat
  BY <1>1, <1>2, Few
<1>5. Recorded \subseteq Failed /\ Failed \subseteq Verified
  BY DEF Recorded, Failed, Verified
<1>6. \A g : Since(g) \subseteq Recorded
  BY DEF Since
<1> QED
  BY <1>3, <1>4, <1>5, <1>6 DEF Countable

LEMMA SizesNext == TypeOK' /\ Ordered' => Countable'
BY Sizes, PTL
-----------------------------------------------------------------------------
(* Of failures that come last, so many as the limit come last as well: the *)
(* publisher halts.                                                        *)
LEMMA LastOnes ==
    ASSUME TypeOK, Ordered, NEW S \in SUBSET Failed, Latest(S),
           NEW n \in Nat, n <= Cardinality(S)
    PROVE  \E T \in SUBSET Failed : Cardinality(T) = n /\ Latest(T)
<1> DEFINE K == {k \in Nat : n <= k /\ \E U \in SUBSET S : Latest(U) /\ Cardinality(U) = k}
<1>1. Cardinality(S) \in K
  BY Sizes DEF Countable
<1>2. PICK k \in K : \A j \in K : k <= j
  BY <1>1, LeastOf
<1>3. PICK U \in SUBSET S : Latest(U) /\ Cardinality(U) = k
  OBVIOUS
<1>4. k = n
  <2> SUFFICES ASSUME k # n PROVE FALSE
    OBVIOUS
  <2>1. k \in Nat /\ k > n /\ IsFiniteSet(U)
    BY Sizes DEF Countable
  <2>2. U # {}
    BY <1>3, <2>1, FS_EmptySet
  <2> DEFINE I == {i \in DOMAIN timeline : timeline[i] \in U}
  <2>3. DOMAIN timeline \subseteq Nat
    BY DEF TypeOK
  <2>4. \A p \in U : Timed(p) /\ p \in Verified
    BY Sizes DEF Countable, Ordered, Verified, Failed
  <2>5. I # {} /\ I \in SUBSET Nat
    BY <2>2, <2>3, <2>4 DEF Timed
  <2>6. /\ I \subseteq DOMAIN timeline
        /\ \A j \in DOMAIN timeline : timeline[j] \in U <=> j \in I
    OBVIOUS
  <2> HIDE DEF I
  <2>7. PICK i \in I : \A j \in I : i <= j
    BY <2>5, LeastOf
  <2> DEFINE e == timeline[i]
             W == U \ {e}
  <2>8. e \in U
    BY <2>6
  <2>9. Cardinality(W) = k - 1
    BY <1>3, <2>1, <2>8, FS_RemoveElement
  <2>10. Latest(W)
    <3> SUFFICES ASSUME NEW p \in W, NEW q \in Verified \ W PROVE Before(q, p)
      BY DEF Latest
    <3>1. CASE q = e
      <4>1. PICK j \in DOMAIN timeline : timeline[j] = p
        BY <2>4 DEF Timed
      <4>2. j \in I /\ j # i
        BY <2>6, <4>1
      <4>3. i < j
        BY <2>3, <2>6, <2>7, <4>2
      <4> QED
        BY <2>6, <3>1, <4>1, <4>3 DEF Before
    <3>2. CASE q # e
      BY <1>3, <3>2 DEF Latest
    <3> QED
      BY <3>1, <3>2
  <2>11. k - 1 \in K
    BY <2>1, <2>9, <2>10
  <2> QED
    BY <1>2, <2>1, <2>11
<1> QED
  BY <1>3, <1>4

(* So an attempt that is not against a grant leaves room for a failure ... *)
LEMMA NotHalted ==
    ASSUME TypeOK, Ordered, InARow, ~Halted, Known = 0
    PROVE  unseen + 1 <= MaxFailed + Cardinality(StuckRows)
<1>1. PICK S \in SUBSET Failed :
         /\ Latest(S)
         /\ unseen <= Cardinality(S \cap Recorded) + Cardinality(StuckRows) + Known
  BY DEF InARow
<1>2. MaxFailed \in Nat
  BY PublisherAssumption
<1>3. IsFiniteSet(S) /\ Cardinality(S) \in Nat /\ Cardinality(StuckRows) \in Nat
  BY Sizes DEF Countable
<1>4. ~(MaxFailed <= Cardinality(S))
  BY <1>1, <1>2, LastOnes DEF Halted
<1>5. Cardinality(S \cap Recorded) \in Nat /\ Cardinality(S \cap Recorded) <= Cardinality(S)
  BY <1>3, FS_Intersection, FS_CardinalityType
<1>6. unseen \in Nat
  BY DEF TypeOK
<1> QED
  BY <1>1, <1>2, <1>3, <1>4, <1>5, <1>6

(* ... and so does one against a grant made after the halt took hold, with *)
(* a limit of two or more: of the failures since, one at most is of a row  *)
(* that was already in hand.                                               *)
LEMMA AgainstAGrant ==
    ASSUME TypeOK, Ordered, SinceGrants, NEW g \in Resumes, pc = "idle", MaxFailed >= 2
    PROVE  unseen + 1 <= MaxFailed + Cardinality(StuckRows)
<1>1. g \in Granted /\ \A p \in Rows : Newest(p) => Before(p, g)
  BY DEF Resumes
<1>2. Since(g) = {}
  <2> SUFFICES ASSUME NEW x \in Since(g) PROVE FALSE
    OBVIOUS
  <2>1. x \in Verified /\ Before(g, x)
    BY Sizes DEF Countable, Since
  <2> DEFINE L == Len(timeline)
             I == {i \in DOMAIN timeline : timeline[i] \in Verified}
             J == {L - i : i \in I}
  <2>2. L \in Nat /\ DOMAIN timeline = 1..L
    BY DEF TypeOK
  <2>3. \A p \in Verified : p \in Rows /\ \E i \in DOMAIN timeline : timeline[i] = p
    BY DEF Ordered, Verified, Timed
  <2>4. I # {} /\ J # {} /\ J \in SUBSET Nat
    BY <2>1, <2>2, <2>3
  <2>5. PICK j \in J : \A k \in J : j <= k
    BY <2>4, LeastOf
  <2>6. PICK m \in I : j = L - m
    OBVIOUS
  <2>7. \A i \in I : i <= m
    <3> SUFFICES ASSUME NEW i \in I PROVE i <= m
      OBVIOUS
    <3>1. L - m <= L - i
      BY <2>5, <2>6
    <3> QED
      BY <2>2, <3>1
  <2>8. Newest(timeline[m])
    <3> SUFFICES ASSUME NEW q \in Verified \ {timeline[m]} PROVE Before(q, timeline[m])
      BY DEF Newest
    <3>1. PICK i \in DOMAIN timeline : timeline[i] = q
      BY <2>3
    <3>2. i \in I /\ i # m
      BY <3>1
    <3>3. i < m
      BY <2>2, <2>7, <3>2
    <3> QED
      BY <3>1, <3>3 DEF Before
  <2>9. Before(timeline[m], g) /\ (x = timeline[m] \/ Before(x, timeline[m]))
    BY <1>1, <2>1, <2>3, <2>8 DEF Newest
  <2>10. timeline \in Seq(Rows \cup Grants) /\ OnceEach
    BY DEF TypeOK, Ordered
  <2>11. Before(x, g)
    BY <2>9, <2>10, OrderOfTime
  <2> QED
    BY <2>1, <2>10, <2>11, OrderOfTime
<1>3. unseen <= 0 + Cardinality(StuckRows) + 0 + 1
  <2>1. Cardinality(Since(g)) = 0 /\ Known = 0
    BY <1>2, FS_EmptySet DEF Known
  <2> QED
    BY <1>1, <2>1 DEF SinceGrants, Busy
<1>4. unseen \in Nat /\ Cardinality(StuckRows) \in Nat /\ MaxFailed \in Nat
  BY Sizes, PublisherAssumption DEF Countable, TypeOK
<1> QED
  BY <1>3, <1>4
-----------------------------------------------------------------------------
(* Ordered is kept: by what leaves the timeline alone, and by what stamps. *)
LEMMA OrderedStays ==
    ASSUME Ordered, UNCHANGED timeline, Busy' => Busy /\ sending' = sending,
           \A p \in Rows : status'[p] = "publishing" \/ verification'[p] # "none" =>
                           status[p] = "publishing" \/ verification[p] # "none",
           \A p \in Rows : verification'[p] = "passed" => status'[p] = "published"
    PROVE  Ordered'
<1>1. OnceEach' /\ \A x, y : (Timed(x)' <=> Timed(x)) /\ (Before(x, y)' <=> Before(x, y))
  BY DEF Ordered, OnceEach, Timed, Before
<1> QED
  BY <1>1 DEF Ordered

LEMMA OrderedNext == ASSUME IInv, Ordered, [Next]_vars PROVE Ordered'
<1> USE DEF outbox, service, history
<1>1. /\ status \in [Rows -> Statuses] /\ timeline \in Seq(Rows \cup Grants) /\ OnceEach
      /\ verification \in [Rows -> {"none", "passed", "failed"}]
      /\ \A p \in Rows : verification[p] = "passed" => status[p] = "published"
  BY DEF IInv, TypeOK, Ordered
<1>2. IF Busy THEN sending \in Rows /\ status[sending] = "publishing" ELSE sending = NoRow
  BY DEF IInv, Marking
<1>3. ASSUME NEW p \in Rows, Queue(p) \/ WithdrawPost(p) \/ RetryPost(p) PROVE Ordered'
  <2>1. /\ UNCHANGED <<timeline, verification, pc, sending>> /\ status[p] # "published"
        /\ \E s \in {"approved", "withdrawn"} : status' = [status EXCEPT ![p] = s]
    BY <1>3 DEF Queue, WithdrawPost, RetryPost, Retriable
  <2>2. \A q \in Rows : status'[q] = "publishing" => status[q] = "publishing"
    BY <1>1, <2>1
  <2>3. \A q \in Rows : status[q] = "published" => status'[q] = "published"
    BY <1>1, <2>1
  <2> QED
    BY <1>1, <2>1, <2>2, <2>3, OrderedStays DEF Busy
<1>4. ASSUME NEW g \in Grants, GrantResume(g) PROVE Ordered'
  <2>1. /\ UNCHANGED <<status, verification, pc, sending>> /\ g \notin Rows
        /\ ~Timed(g) /\ timeline' = Append(timeline, g)
    BY <1>4, PublisherAssumption DEF GrantResume, Granted, Timed
  <2>2. Stamp(g)
    BY <2>1 DEF Stamp, Timed
  <2>3. /\ OnceEach'
        /\ \A x : Timed(x)' <=> Timed(x) \/ x = g
        /\ \A x, y : x # g /\ y # g => (Before(x, y)' <=> Before(x, y))
    BY <1>1, <2>2, StampedLast
  <2>4. \A p \in Rows : p # g
    BY <2>1
  <2> QED
    BY <1>2, <2>1, <2>3, <2>4 DEF Ordered, Busy
<1>5. ASSUME NEW p \in Rows, Attempt(p) PROVE Ordered'
  <2>1. /\ UNCHANGED verification /\ Stamp(p) /\ sending' = p
        /\ status[p] = "approved" /\ status' = [status EXCEPT ![p] = "publishing"]
    BY <1>5 DEF Attempt, Waiting, Marked
  <2>2. /\ OnceEach'
        /\ \A x : Timed(x)' <=> Timed(x) \/ x = p
        /\ \A x : Timed(x) /\ x # p => Before(x, p)'
    BY <1>1, <2>1, StampedLast
  <2>3. /\ \A q \in Rows : status'[q] = "publishing" => status[q] = "publishing" \/ q = p
        /\ \A q \in Rows : status[q] = "published" => status'[q] = "published"
    BY <1>1, <2>1
  <2> QED
    BY <1>1, <2>1, <2>2, <2>3 DEF Ordered
<1>6. CASE TurnedAway \/ \E b \in BOOLEAN : SendFails(b)
  <2>1. /\ UNCHANGED <<timeline, verification>> /\ pc' = "idle" /\ pc = "sending"
        /\ \E s \in {"approved", "failed"} : status' = [status EXCEPT ![sending] = s]
    BY <1>6 DEF TurnedAway, SendFails, Record, AfterError
  <2>2. \A q \in Rows : /\ status'[q] = "publishing" => status[q] = "publishing"
                        /\ status[q] = "published" => status'[q] = "published"
    BY <1>1, <1>2, <2>1 DEF Busy
  <2> QED
    BY <1>1, <2>1, <2>2, OrderedStays DEF Busy
<1>7. CASE Finish
  <2>1. /\ UNCHANGED timeline /\ pc' = "idle" /\ Busy
        /\ status' = [status EXCEPT ![sending] = Outcome]
        /\ verification' = [verification EXCEPT ![sending] = Verdict(sending)]
    BY <1>7 DEF Finish, Record, Busy
  <2>2. Outcome # "publishing" /\ (Verdict(sending) = "passed" => Outcome = "published")
    BY DEF Outcome, Verdict
  <2>3. \A q \in Rows : /\ status'[q] = "publishing" => status[q] = "publishing"
                        /\ verification'[q] # "none" =>
                              status[q] = "publishing" \/ verification[q] # "none"
                        /\ verification'[q] = "passed" => status'[q] = "published"
    BY <1>1, <1>2, <2>1, <2>2
  <2> QED
    BY <2>1, <2>3, OrderedStays DEF Busy
<1>8. CASE \/ Pass \/ Refuse \/ Stop \/ Restart \/ UNCHANGED vars
           \/ \E b \in BOOLEAN : SendSucceeds(b)
           \/ \E place \in {"idle", "down"}, exists \in BOOLEAN : Abandon(place, exists)
           \/ \E k \in Kinds : BecomeReady(k)
  <2>1. /\ UNCHANGED <<status, timeline, verification>>
        /\ Busy' => Busy /\ sending' = sending
    BY <1>8 DEF Pass, Refuse, Stop, Restart, SendSucceeds, Abandon, BecomeReady, vars, Busy
  <2> QED
    BY <1>1, <2>1, OrderedStays
<1> QED
  BY <1>3, <1>4, <1>5, <1>6, <1>7, <1>8 DEF Next, OwnerStep, PublisherStep
-----------------------------------------------------------------------------
(* What an attempt at verification, a retry or a grant sets back to zero.  *)
LEMMA SetBack ==
    ASSUME TypeOK', Ordered', unseen' = 0
    PROVE  InARow' /\ SinceGrants' /\ RoomForOne'
<1>1. Countable'
  BY SizesNext
<1>2. Cardinality(StuckRows') \in Nat /\ Known' \in Nat
  BY <1>1 DEF Countable, Known
<1>3. InARow'
  <2>1. Latest({})' /\ {} \in SUBSET Failed'
    BY DEF Latest
  <2>2. Cardinality({} \cap Recorded') = 0
    BY FS_EmptySet
  <2> QED
    BY <1>2, <2>1, <2>2 DEF InARow
<1>4. SinceGrants'
  <2>1. \A g : Cardinality(Since(g)') \in Nat
    BY <1>1 DEF Countable
  <2> QED
    BY <1>2, <2>1 DEF SinceGrants
<1>5. RoomForOne'
  BY <1>2, PublisherAssumption DEF RoomForOne
<1> QED
  BY <1>3, <1>4, <1>5

(* What sends nothing new and verifies nothing: no failure is forgotten    *)
(* that is not one more row that stays stuck.                              *)
LEMMA NothingNew ==
    ASSUME HaltIInv, TypeOK', Ordered', UNCHANGED <<timeline, verification, unseen>>,
           Recorded \subseteq Recorded',
           Cardinality(StuckRows) <= Cardinality(StuckRows'),
           Cardinality(StuckRows) + Known <= Cardinality(StuckRows') + Known',
           Busy' => Busy /\ sending' = sending,
           pc' \in {"sending", "challenged"} => pc \in {"sending", "challenged"},
           pc' = "passed" => pc = "passed"
    PROVE  InARow' /\ SinceGrants' /\ RoomForOne'
<1>1. /\ Verified' = Verified /\ Failed' = Failed /\ Granted' = Granted
      /\ \A x, y : Before(x, y)' <=> Before(x, y)
  BY DEF Verified, Failed, Granted, Before
<1>2. Countable /\ Countable'
  BY Sizes, SizesNext DEF HaltIInv, IInv
<1>3. /\ Cardinality(StuckRows) \in Nat /\ Cardinality(StuckRows') \in Nat
      /\ Known \in Nat /\ Known' \in Nat /\ unseen \in Nat /\ MaxFailed \in Nat
  BY <1>2, PublisherAssumption DEF Countable, Known, HaltIInv, IInv, TypeOK
<1>4. \A S \in SUBSET Recorded, W \in SUBSET Recorded' : S \subseteq W =>
         Cardinality(S) \in Nat /\ Cardinality(W) \in Nat /\ Cardinality(S) <= Cardinality(W)
  BY <1>1, <1>2, FS_Subset DEF Countable
<1>5. InARow'
  <2>1. PICK S \in SUBSET Failed :
           /\ Latest(S)
           /\ unseen <= Cardinality(S \cap Recorded) + Cardinality(StuckRows) + Known
    BY DEF HaltIInv, InARow
  <2>2. Latest(S)'
    BY <1>1, <2>1 DEF Latest
  <2>3. /\ Cardinality(S \cap Recorded) \in Nat /\ Cardinality(S \cap Recorded') \in Nat
        /\ Cardinality(S \cap Recorded) <= Cardinality(S \cap Recorded')
    BY <1>4
  <2>4. unseen' <= Cardinality(S \cap Recorded') + Cardinality(StuckRows') + Known'
    BY <1>3, <2>1, <2>3
  <2> QED
    BY <1>1, <2>2, <2>4 DEF InARow
<1>6. SinceGrants'
  <2> SUFFICES ASSUME NEW g \in Granted
               PROVE  unseen <= Cardinality(Since(g)') + Cardinality(StuckRows') + Known'
                                  + IF Busy' /\ ~Before(g, sending)' THEN 0 ELSE 1
    BY <1>1 DEF SinceGrants
  <2>1. unseen <= Cardinality(Since(g)) + Cardinality(StuckRows) + Known
                    + IF Busy /\ ~Before(g, sending) THEN 0 ELSE 1
    BY DEF HaltIInv, SinceGrants
  <2>2. Since(g) \subseteq Since(g)'
    BY <1>1 DEF Since
  <2>3. /\ Cardinality(Since(g)) \in Nat /\ Cardinality(Since(g)') \in Nat
        /\ Cardinality(Since(g)) <= Cardinality(Since(g)')
    BY <1>2, <1>4, <2>2 DEF Countable
  <2>4. Busy' /\ ~Before(g, sending)' => Busy /\ ~Before(g, sending)
    BY <1>1
  <2> QED
    BY <1>3, <2>1, <2>3, <2>4
<1>7. RoomForOne'
  BY <1>3 DEF HaltIInv, RoomForOne
<1> QED
  BY <1>5, <1>6, <1>7

(* The steps of the owner and the publisher that are of that kind.         *)
LEMMA Unmoved ==
    ASSUME HaltIInv, TypeOK', Ordered',
           \/ \E p \in Rows : Queue(p) \/ WithdrawPost(p)
           \/ \E k \in Kinds : BecomeReady(k)
           \/ Stop \/ Restart \/ UNCHANGED vars
           \/ \E b \in BOOLEAN : SendSucceeds(b)
    PROVE  InARow' /\ SinceGrants' /\ RoomForOne'
<1> USE DEF outbox, service, history
<1>1. status \in [Rows -> Statuses]
  BY DEF HaltIInv, IInv, TypeOK
<1>2. /\ UNCHANGED <<timeline, verification, unseen, sending>>
      /\ Busy' <=> Busy
      /\ pc' \in {"sending", "challenged"} => pc \in {"sending", "challenged"}
      /\ pc' = "passed" <=> pc = "passed"
      /\ pc' = "refused" <=> pc = "refused"
  BY DEF Queue, WithdrawPost, BecomeReady, Stop, Restart, SendSucceeds, vars, Busy
<1>3. \A q \in Rows : /\ status[q] = "failed" <=> status'[q] = "failed"
                      /\ status[q] = "publishing" <=> status'[q] = "publishing"
  BY <1>1 DEF Queue, WithdrawPost, BecomeReady, Stop, Restart, SendSucceeds, vars
<1>4. Recorded' = Recorded /\ StuckRows' = StuckRows /\ Known' = Known
  BY <1>2, <1>3 DEF Recorded, StuckRows, Known
<1>5. Cardinality(StuckRows) \in Nat /\ Known \in Nat
  BY Sizes DEF Countable, Known, HaltIInv, IInv
<1> QED
  BY <1>2, <1>4, <1>5, NothingNew

LEMMA LetGo ==
    ASSUME HaltIInv, TypeOK', Ordered', TurnedAway \/ \E b \in BOOLEAN : SendFails(b)
    PROVE  InARow' /\ SinceGrants' /\ RoomForOne'
<1>1. /\ status \in [Rows -> Statuses] /\ pc = "sending"
      /\ sending \in Rows /\ status[sending] = "publishing"
  BY DEF HaltIInv, IInv, TypeOK, Marking, Busy, TurnedAway, SendFails
<1>2. /\ UNCHANGED <<timeline, verification, unseen>> /\ pc' = "idle" /\ sending' = NoRow
      /\ \E s \in {"approved", "failed"} : status' = [status EXCEPT ![sending] = s]
  BY DEF TurnedAway, SendFails, Record, AfterError, history
<1>3. StuckRows' = StuckRows
  BY <1>1, <1>2, PublisherAssumption DEF StuckRows
<1>4. Recorded \subseteq Recorded'
  BY <1>1, <1>2 DEF Recorded
<1>5. Cardinality(StuckRows) \in Nat /\ Known = 0 /\ Known' = 0 /\ ~Busy'
  BY <1>1, <1>2, Sizes DEF Countable, Known, HaltIInv, IInv, Busy
<1> QED
  BY <1>2, <1>3, <1>4, <1>5, NothingNew

(* A row that is abandoned is one more that is stuck, which makes up for   *)
(* its failure if there was one.                                           *)
LEMMA Abandoned ==
    ASSUME HaltIInv, TypeOK', Ordered', NEW place \in {"idle", "down"}, NEW exists \in BOOLEAN,
           Abandon(place, exists)
    PROVE  InARow' /\ SinceGrants' /\ RoomForOne'
<1>1. sending \in Rows /\ status[sending] = "publishing"
  BY DEF HaltIInv, IInv, Marking, Abandon
<1>2. /\ UNCHANGED <<timeline, verification, unseen, status>> /\ sending' = NoRow
      /\ ~Busy' /\ pc' \notin {"sending", "challenged", "passed", "refused"}
  BY DEF Abandon, outbox, Busy
<1>3. StuckRows' = StuckRows \cup {sending} /\ sending \notin StuckRows
  BY <1>1, <1>2, PublisherAssumption DEF StuckRows
<1>4. IsFiniteSet(StuckRows) /\ Cardinality(StuckRows) \in Nat /\ Known \in {0, 1} /\ Known' = 0
  BY <1>2, Sizes DEF Countable, Known, HaltIInv, IInv
<1>5. Cardinality(StuckRows') = Cardinality(StuckRows) + 1
  BY <1>3, <1>4, FS_AddElement
<1>6. Recorded' = Recorded
  BY <1>2 DEF Recorded
<1> QED
  BY <1>2, <1>4, <1>5, <1>6, NothingNew

(* A refusal is known before it is on record.                              *)
LEMMA Refused ==
    ASSUME HaltIInv, Refuse
    PROVE  InARow' /\ SinceGrants' /\ RoomForOne'
<1>1. /\ UNCHANGED <<timeline, verification, status, sending>> /\ pc = "challenged"
      /\ pc' = "refused" /\ unseen' = unseen + 1
  BY DEF Refuse, outbox
<1>2. /\ Verified' = Verified /\ Failed' = Failed /\ Granted' = Granted
      /\ \A x, y : Before(x, y)' <=> Before(x, y)
      /\ Recorded' = Recorded /\ StuckRows' = StuckRows
  BY <1>1 DEF Verified, Failed, Granted, Before, Recorded, StuckRows
<1>3. Known = 0 /\ Known' = 1 /\ Busy /\ Busy'
  BY <1>1 DEF Known, Busy
<1>4. Countable /\ unseen \in Nat /\ MaxFailed \in Nat
  BY Sizes, PublisherAssumption DEF HaltIInv, IInv, TypeOK
<1>5. InARow'
  <2>1. PICK S \in SUBSET Failed :
           /\ Latest(S)
           /\ unseen <= Cardinality(S \cap Recorded) + Cardinality(StuckRows) + Known
    BY DEF HaltIInv, InARow
  <2>2. Latest(S)'
    BY <1>2, <2>1 DEF Latest
  <2>3. S \cap Recorded \in SUBSET Verified
    BY <1>4 DEF Countable
  <2>4. Cardinality(S \cap Recorded) \in Nat /\ Cardinality(StuckRows) \in Nat
    BY <1>4, <2>3 DEF Countable
  <2>5. unseen' <= Cardinality(S \cap Recorded') + Cardinality(StuckRows') + Known'
    BY <1>1, <1>2, <1>3, <1>4, <2>1, <2>4
  <2> QED
    BY <1>2, <2>2, <2>5 DEF InARow
<1>6. SinceGrants'
  <2> SUFFICES ASSUME NEW g \in Granted
               PROVE  unseen + 1 <= Cardinality(Since(g)) + Cardinality(StuckRows) + 1
                                      + IF ~Before(g, sending) THEN 0 ELSE 1
    <3>1. \A g : Since(g)' = Since(g)
      BY <1>2 DEF Since
    <3> QED
      BY <1>1, <1>2, <1>3, <3>1 DEF SinceGrants
  <2>1. unseen <= Cardinality(Since(g)) + Cardinality(StuckRows) + 0
                    + IF ~Before(g, sending) THEN 0 ELSE 1
    BY <1>3 DEF HaltIInv, SinceGrants
  <2>2. Cardinality(Since(g)) \in Nat /\ Cardinality(StuckRows) \in Nat
    BY <1>4 DEF Countable
  <2> QED
    BY <1>4, <2>1, <2>2
<1>7. RoomForOne'
  <2>1. Cardinality(StuckRows) \in Nat
    BY <1>4 DEF Countable
  <2>2. unseen + 1 <= MaxFailed + Cardinality(StuckRows)
    BY <1>1 DEF HaltIInv, RoomForOne
  <2> QED
    BY <1>1, <1>2, <1>4, <2>1, <2>2 DEF RoomForOne
<1> QED
  BY <1>5, <1>6, <1>7

(* A failure put on record is the latest verification there is, and of a   *)
(* row that was attempted after any grant but those made since.            *)
LEMMA OnRecord ==
    ASSUME HaltIInv, TypeOK', Ordered', Finish
    PROVE  InARow' /\ SinceGrants' /\ RoomForOne'
<1>0. PICK s : s = sending
  OBVIOUS
<1>1. /\ UNCHANGED <<timeline, unseen>> /\ pc' = "idle" /\ sending' = NoRow
      /\ status' = [status EXCEPT ![s] = Outcome] /\ Outcome \in {"failed", "published"}
      /\ verification' = [verification EXCEPT ![s] = Verdict(s)]
  BY <1>0 DEF Finish, Record, history, Outcome
<1>2. /\ s \in Rows /\ status[s] = "publishing" /\ status \in [Rows -> Statuses]
      /\ verification \in [Rows -> {"none", "passed", "failed"}]
  BY <1>0 DEF HaltIInv, IInv, TypeOK, Marking, Finish, Busy
<1>3. /\ Granted' = Granted /\ Known' = 0 /\ ~Busy'
      /\ \A x, y : Before(x, y)' <=> Before(x, y)
  BY <1>1 DEF Granted, Before, Known, Busy
<1>4. StuckRows' = StuckRows
  BY <1>0, <1>1, <1>2, PublisherAssumption DEF StuckRows
<1>5. /\ Countable /\ Countable' /\ unseen \in Nat /\ MaxFailed \in Nat
      /\ Cardinality(StuckRows) \in Nat
  BY Sizes, SizesNext, PublisherAssumption DEF HaltIInv, IInv, TypeOK, Countable
<1>6. /\ \A q \in Verified : Before(q, s) \/ q = s
      /\ s \notin Recorded
  BY <1>0, <1>2 DEF HaltIInv, Ordered, Finish, Busy, Verified, Recorded
<1>7. RoomForOne'
  <2>1. pc \notin {"sending", "challenged"}
    BY DEF Finish
  <2> QED
    BY <1>1, <1>4, <1>5, <2>1 DEF HaltIInv, RoomForOne
<1>8. PICK S \in SUBSET Failed :
         /\ Latest(S)
         /\ unseen <= Cardinality(S \cap Recorded) + Cardinality(StuckRows) + Known
  BY DEF HaltIInv, InARow
<1>9. \A T \in SUBSET Recorded : IsFiniteSet(T) /\ Cardinality(T) \in Nat
  BY <1>5 DEF Countable
<1>10. CASE pc = "created"
  <2>1. verification' = [verification EXCEPT ![s] = "none"] /\ status'[s] = "published"
    BY <1>1, <1>2, <1>10 DEF Verdict, Outcome
  <2>2. Verified' = Verified \ {s} /\ Failed' = Failed \ {s} /\ Recorded' = Recorded
    BY <1>1, <1>2, <2>1 DEF Verified, Failed, Recorded
  <2>3. InARow'
    <3> DEFINE T == S \ {s}
    <3>1. T \in SUBSET Failed' /\ Latest(T)'
      BY <1>3, <1>8, <2>2 DEF Latest
    <3>2. T \cap Recorded' = S \cap Recorded
      BY <1>6, <2>2
    <3>3. unseen' <= Cardinality(T \cap Recorded') + Cardinality(StuckRows') + Known'
      BY <1>1, <1>3, <1>4, <1>8, <1>10, <3>2 DEF Known
    <3> QED
      BY <3>1, <3>3 DEF InARow
  <2>4. SinceGrants'
    <3> SUFFICES ASSUME NEW g \in Granted
                 PROVE  unseen <= Cardinality(Since(g)) + Cardinality(StuckRows) + 0 + 1
      <4>1. \A g : Since(g)' = Since(g)
        BY <1>3, <2>2 DEF Since
      <4> QED
        BY <1>1, <1>3, <1>4, <4>1 DEF SinceGrants
    <3>1. unseen <= Cardinality(Since(g)) + Cardinality(StuckRows) + 0
                      + IF Busy /\ ~Before(g, s) THEN 0 ELSE 1
      BY <1>0, <1>10 DEF HaltIInv, SinceGrants, Known
    <3>2. Cardinality(Since(g)) \in Nat
      BY <1>5 DEF Countable
    <3> QED
      BY <1>5, <3>1, <3>2
  <2> QED
    BY <1>7, <2>3, <2>4
<1>11. CASE pc = "passed"
  <2>1. unseen' = 0
    BY <1>1, <1>11 DEF HaltIInv, RoomForOne
  <2> QED
    BY <2>1, SetBack
<1>12. CASE pc = "refused"
  <2>1. verification' = [verification EXCEPT ![s] = "failed"] /\ status'[s] = "failed"
    BY <1>1, <1>2, <1>12 DEF Verdict, Outcome
  <2>2. /\ Verified' = Verified \cup {s} /\ Failed' = Failed \cup {s}
        /\ Recorded' = Recorded \cup {s}
    BY <1>1, <1>2, <2>1 DEF Verified, Failed, Recorded
  <2>3. \A T \in SUBSET Recorded : Cardinality(T \cup {s}) = Cardinality(T) + 1
    BY <1>6, <1>9, FS_AddElement
  <2>4. Known = 1
    BY <1>12 DEF Known
  <2>5. InARow'
    <3> DEFINE T == S \cup {s}
    <3>1. T \in SUBSET Failed'
      BY <2>2
    <3>2. Latest(T)'
      BY <1>3, <1>6, <1>8, <2>2 DEF Latest
    <3>3. T \cap Recorded' = (S \cap Recorded) \cup {s}
      BY <1>6, <2>2
    <3>4. /\ Cardinality(T \cap Recorded') = Cardinality(S \cap Recorded) + 1
          /\ Cardinality(S \cap Recorded) \in Nat
      BY <1>9, <2>3, <3>3
    <3>5. unseen' <= Cardinality(T \cap Recorded') + Cardinality(StuckRows') + Known'
      BY <1>1, <1>3, <1>4, <1>5, <1>8, <2>4, <3>4
    <3> QED
      BY <3>1, <3>2, <3>5 DEF InARow
  <2>6. SinceGrants'
    <3> SUFFICES ASSUME NEW g \in Granted
                 PROVE  unseen <= Cardinality(Since(g)') + Cardinality(StuckRows) + 0 + 1
      BY <1>1, <1>3, <1>4 DEF SinceGrants
    <3>1. unseen <= Cardinality(Since(g)) + Cardinality(StuckRows) + 1
                      + IF ~Before(g, s) THEN 0 ELSE 1
      BY <1>0, <1>12, <2>4 DEF HaltIInv, SinceGrants, Busy
    <3>2. Since(g) \in SUBSET Recorded /\ Cardinality(Since(g)) \in Nat
      BY <1>5 DEF Countable
    <3>3. Since(g)' = IF Before(g, s) THEN Since(g) \cup {s} ELSE Since(g)
      BY <1>3, <2>2 DEF Since
    <3>4. Cardinality(Since(g)') = Cardinality(Since(g)) + IF Before(g, s) THEN 1 ELSE 0
      BY <2>3, <3>2, <3>3
    <3> QED
      BY <1>5, <3>1, <3>2, <3>4
  <2> QED
    BY <1>7, <2>5, <2>6
<1> QED
  BY <1>10, <1>11, <1>12 DEF Finish

(* An attempt is the latest. It does not change which failures are on      *)
(* record, for its own row was not among them.                             *)
LEMMA Attempted ==
    ASSUME HaltIInv, MaxFailed >= 2, NEW p \in Rows, Attempt(p)
    PROVE  InARow' /\ SinceGrants' /\ RoomForOne'
<1>1. /\ UNCHANGED <<verification, unseen>> /\ Stamp(p) /\ sending' = p
      /\ pc = "idle" /\ pc' = "sending"
      /\ status[p] = "approved" /\ status' = [status EXCEPT ![p] = "publishing"]
  BY DEF Attempt, Waiting, Marked
<1>2. /\ sending = NoRow /\ status \in [Rows -> Statuses]
      /\ timeline \in Seq(Rows \cup Grants) /\ OnceEach
  BY <1>1 DEF HaltIInv, IInv, TypeOK, Marking, Ordered, Busy
<1>3. /\ \A x : Timed(x)' <=> Timed(x) \/ x = p
      /\ \A x, y : x # p /\ y # p => (Before(x, y)' <=> Before(x, y))
      /\ \A x : Timed(x) /\ x # p => Before(x, p)'
  BY <1>1, <1>2, StampedLast
<1>4. /\ Verified' = Verified /\ Failed' = Failed
      /\ Recorded' = Recorded /\ p \notin Recorded
  BY <1>1, <1>2 DEF Verified, Failed, Recorded
<1>5. StuckRows' = StuckRows
  BY <1>1, <1>2, PublisherAssumption DEF StuckRows
<1>6. Granted' = Granted /\ p \notin Granted
  <2>1. \A g \in Grants : g # p /\ (Timed(g)' <=> Timed(g))
    BY <1>3, PublisherAssumption
  <2> QED
    BY <2>1 DEF Granted, Timed
<1>7. Known = 0 /\ Known' = 0
  BY <1>1 DEF Known
<1>8. /\ Countable /\ unseen \in Nat /\ Cardinality(StuckRows) \in Nat
  BY Sizes DEF HaltIInv, IInv, TypeOK, Countable
<1>9. InARow'
  <2>1. PICK S \in SUBSET Failed :
           /\ Latest(S)
           /\ unseen <= Cardinality(S \cap Recorded) + Cardinality(StuckRows) + Known
    BY DEF HaltIInv, InARow
  <2>0. PICK T : T = IF p \in Failed THEN S \cup {p} ELSE S
    OBVIOUS
  <2>2. /\ \A q \in Verified : Timed(q)
        /\ p \in Verified => p \in Failed
    BY <1>1 DEF HaltIInv, IInv, TypeOK, Ordered, Verified, Failed
  <2>3. Latest(T)'
    <3> SUFFICES ASSUME NEW r \in T, NEW q \in Verified \ T PROVE Before(q, r)'
      BY <1>4 DEF Latest
    <3>1. q # p /\ q \notin S
      BY <2>0, <2>2
    <3>2. CASE r = p
      BY <1>3, <2>2, <3>1, <3>2
    <3>3. CASE r # p
      BY <1>3, <2>0, <2>1, <3>1, <3>3 DEF Latest
    <3> QED
      BY <3>2, <3>3
  <2>4. T \in SUBSET Failed' /\ T \cap Recorded' = S \cap Recorded
    BY <1>4, <2>0
  <2>5. unseen' <= Cardinality(T \cap Recorded') + Cardinality(StuckRows') + Known'
    BY <1>1, <1>5, <1>7, <2>1, <2>4
  <2> QED
    BY <2>3, <2>4, <2>5 DEF InARow
<1>10. SinceGrants'
  <2> SUFFICES ASSUME NEW g \in Granted
               PROVE  unseen <= Cardinality(Since(g)') + Cardinality(StuckRows) + 0
                                  + IF ~Before(g, p)' THEN 0 ELSE 1
    BY <1>1, <1>5, <1>6, <1>7 DEF SinceGrants, Busy
  <2>1. Before(g, p)'
    BY <1>3, <1>6 DEF Granted, Timed
  <2>2. Since(g)' = Since(g)
    BY <1>3, <1>4, <1>6 DEF Since
  <2>3. unseen <= Cardinality(Since(g)) + Cardinality(StuckRows) + 0 + 1
    BY <1>1, <1>7 DEF HaltIInv, SinceGrants, Busy
  <2> QED
    BY <2>1, <2>2, <2>3
<1>11. unseen + 1 <= MaxFailed + Cardinality(StuckRows)
  <2>1. CASE Halted
    <3>1. PICK g : g \in Resumes
      BY <2>1 DEF Attempt, First
    <3> QED
      BY <1>1, <3>1, AgainstAGrant DEF HaltIInv, IInv
  <2>2. CASE ~Halted
    BY <1>7, <2>2, NotHalted DEF HaltIInv, IInv
  <2> QED
    BY <2>1, <2>2
<1>12. RoomForOne'
  BY <1>1, <1>5, <1>11 DEF RoomForOne
<1> QED
  BY <1>9, <1>10, <1>12

(* Before anything is in the outbox nothing has failed.                    *)
LEMMA InitHalt == Init => HaltIInv
<1> SUFFICES ASSUME Init PROVE HaltIInv
  OBVIOUS
<1>1. IInv
  BY InitIInv
<1>2. timeline = <<>> /\ unseen = 0 /\ pc = "idle"
  BY DEF Init
<1>3. DOMAIN timeline = {} /\ Verified = {} /\ StuckRows = {} /\ Granted = {}
  BY <1>2 DEF Init, Verified, StuckRows, Granted
<1>4. Ordered
  BY <1>2, <1>3 DEF Init, Ordered, OnceEach, Busy
<1>5. InARow
  <2>1. Latest({}) /\ {} \in SUBSET Failed
    BY DEF Latest
  <2>2. Cardinality({} \cap Recorded) = 0 /\ Cardinality(StuckRows) = 0
    BY <1>3, FS_EmptySet
  <2> QED
    BY <1>2, <2>1, <2>2 DEF InARow, Known
<1>6. SinceGrants
  BY <1>3 DEF SinceGrants
<1>7. RoomForOne
  BY <1>2, <1>3, FS_EmptySet, PublisherAssumption DEF RoomForOne
<1> QED
  BY <1>1, <1>4, <1>5, <1>6, <1>7 DEF HaltIInv

(* With a limit of one, a grant made while a row is in hand lets two       *)
(* failures through: that row's, and that of the attempt the grant is then *)
(* spent on. MAX_FAILED_VERIFICATIONS is three.                            *)
Several == MaxFailed >= 2

LEMMA NextHalt == Several /\ HaltIInv /\ [Next]_vars => HaltIInv'
<1> SUFFICES ASSUME Several, HaltIInv, [Next]_vars PROVE HaltIInv'
  OBVIOUS
<1>1. IInv' /\ TypeOK' /\ Ordered'
  BY NextIInv, OrderedNext DEF HaltIInv, IInv
<1> SUFFICES InARow' /\ SinceGrants' /\ RoomForOne'
  BY <1>1 DEF HaltIInv
<1>2. CASE \/ \E p \in Rows : Queue(p) \/ WithdrawPost(p)
           \/ \E k \in Kinds : BecomeReady(k)
           \/ Stop \/ Restart \/ UNCHANGED vars
           \/ \E b \in BOOLEAN : SendSucceeds(b)
  BY <1>1, <1>2, Unmoved
<1>3. CASE (\E p \in Rows : RetryPost(p)) \/ (\E g \in Grants : GrantResume(g)) \/ Pass
  <2>1. unseen' = 0
    BY <1>3 DEF RetryPost, GrantResume, Pass
  <2> QED
    BY <1>1, <2>1, SetBack
<1>4. CASE TurnedAway \/ \E b \in BOOLEAN : SendFails(b)
  BY <1>1, <1>4, LetGo
<1>5. CASE \E place \in {"idle", "down"}, exists \in BOOLEAN : Abandon(place, exists)
  BY <1>1, <1>5, Abandoned
<1>6. CASE Refuse
  BY <1>6, Refused
<1>7. CASE Finish
  BY <1>1, <1>7, OnRecord
<1>8. CASE \E p \in Rows : Attempt(p)
  BY <1>8, Attempted DEF Several
<1> QED
  BY <1>2, <1>3, <1>4, <1>5, <1>6, <1>7, <1>8 DEF Next, OwnerStep, PublisherStep

(* The forum never sees more failed verifications in a row than the limit  *)
(* without an answer of the owner, those aside that a crash or an error    *)
(* kept from being recorded: each of these leaves a row publishing.        *)
THEOREM HaltsInTime ==
    ASSUME Several PROVE Spec => []StopsInTime
<1>1. HaltIInv => StopsInTime
  <2> SUFFICES ASSUME HaltIInv PROVE StopsInTime
    OBVIOUS
  <2>1. Cardinality(StuckRows) \in Nat /\ unseen \in Nat /\ MaxFailed \in Nat
    BY Sizes, PublisherAssumption DEF Countable, HaltIInv, IInv, TypeOK
  <2> QED
    BY <2>1 DEF HaltIInv, RoomForOne, StopsInTime
<1>2. HaltIInv /\ [Next]_vars => HaltIInv'
  BY NextHalt
<1> QED
  BY <1>1, <1>2, InitHalt, PTL DEF Spec
=============================================================================
