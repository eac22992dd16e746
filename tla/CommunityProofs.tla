--------------------------- MODULE CommunityProofs ---------------------------
(***************************************************************************)
(* Proofs about Community, for any comments, hypotheses and workers:       *)
(* nothing is said twice and nothing is put before the owner twice.        *)
(***************************************************************************)
EXTENDS Community, FiniteSetTheorems, TLAPS

(* The drafts about s, those a transaction is about to add included. A     *)
(* draft is only started where none is held, and the transactions that     *)
(* looked side by side are of different workers.                           *)
Roomy(s) == Holding(s) + Cardinality(Proposing(s)) <= Limit(s)

(* The part of TypeOK the argument needs. *)
Counting ==
    /\ proposed \in [Subjects -> Nat]
    /\ approved \in [Subjects -> Nat]
    /\ rejected \in [Subjects -> Nat]
    /\ raced \in SUBSET Subjects
    /\ pc \in [Workers -> {"idle", "drafting", "proposing"}]
    /\ on \in [Workers -> Subjects \cup {Nothing}]
    /\ \A w \in Workers : pc[w] # "idle" => on[w] \in Subjects

(* A follow-up is asked for, drafted and held only once it is due. *)
Due ==
    \A f \in FollowUps :
        \/ acks[f] = "published"
        \/ queued[f] = 0 /\ Holding(f) = 0 /\ \A w \in Workers : on[w] # f

(* The inductive invariant. *)
IInv == TypeOK /\ Counting /\ Due /\ \A s \in Subjects : Roomy(s)

LEMMA Kinds ==
    ASSUME NEW s \in Subjects
    PROVE  \/ s \in Hypotheses /\ s \notin Threads /\ s \notin FollowUps
           \/ s \in Threads /\ s \notin Hypotheses /\ s \notin FollowUps
           \/ s \in FollowUps /\ s \notin Hypotheses /\ s \notin Threads
BY CommunityAssumption DEF Subjects

LEMMA HoldingIsNat == ASSUME Counting, NEW s \in Subjects PROVE Holding(s) \in Nat
<1>1. proposed[s] \in Nat /\ approved[s] \in Nat /\ rejected[s] \in Nat
  BY DEF Counting
<1> QED
  BY <1>1, Kinds DEF Holding

LEMMA HoldingSame ==
    ASSUME NEW s \in Subjects, proposed'[s] = proposed[s], approved'[s] = approved[s],
           rejected'[s] = rejected[s]
    PROVE  Holding(s)' = Holding(s)
BY DEF Holding

LEMMA FewWorkers ==
    /\ Cardinality(Workers) \in Nat /\ Cardinality(Workers) >= 1
    /\ \A S \in SUBSET Workers : Cardinality(S) \in Nat /\ Cardinality(S) <= Cardinality(Workers)
<1>1. IsFiniteSet(Workers) /\ Workers # {}
  BY CommunityAssumption
<1>2. Cardinality(Workers) \in Nat /\ Cardinality(Workers) # 0
  BY <1>1, FS_CardinalityType, FS_EmptySet
<1>3. ASSUME NEW S \in SUBSET Workers
      PROVE  Cardinality(S) \in Nat /\ Cardinality(S) <= Cardinality(Workers)
  BY <1>1, FS_Subset, FS_CardinalityType
<1> QED
  BY <1>2, <1>3

(* What leaves the counts and the transactions about s alone.              *)
LEMMA RoomSame ==
    ASSUME NEW s \in Subjects, Roomy(s), Counting,
           Holding(s)' \in Nat, Holding(s)' <= Holding(s), Proposing(s)' \subseteq Proposing(s),
           raced' = raced
    PROVE  Roomy(s)'
<1>1. Proposing(s) \in SUBSET Workers /\ IsFiniteSet(Proposing(s))
  BY CommunityAssumption, FS_Subset DEF Proposing
<1>2. /\ Cardinality(Proposing(s)') \in Nat /\ Cardinality(Proposing(s)) \in Nat
      /\ Cardinality(Proposing(s)') <= Cardinality(Proposing(s))
  BY <1>1, FS_Subset, FS_CardinalityType
<1>3. Limit(s)' = Limit(s) /\ Limit(s) \in Nat
  BY FewWorkers DEF Limit
<1> QED
  BY <1>2, <1>3, HoldingIsNat DEF Roomy
-----------------------------------------------------------------------------
LEMMA Initially == Init => IInv
<1> SUFFICES ASSUME Init PROVE IInv
  OBVIOUS
<1>0. 0 \in 0..MaxQueued /\ 0 \in 0..MaxApproved /\ 0 \in 0..MaxRejected
  BY CommunityAssumption
<1>1. Counting
  BY DEF Init, Counting
<1>2. TypeOK
  <2>1. \A f \in FollowUps : f \in Subjects
    BY DEF Subjects
  <2>2. \A f \in FollowUps : proposed[f] = 0 /\ approved[f] = 0 /\ rejected[f] = 0
    BY <2>1 DEF Init
  <2>3. \A f \in FollowUps :
           proposed[f] + approved[f] + rejected[f] > 0 => acks[f] = "published"
    BY <2>2
  <2>4. /\ queued   \in [Subjects -> 0..MaxQueued]
        /\ approved \in [Subjects -> 0..MaxApproved]
        /\ rejected \in [Subjects -> 0..MaxRejected]
    BY <1>0 DEF Init
  <2>5. /\ known \in SUBSET Others /\ scouting \in BOOLEAN /\ chosen \in SUBSET Comments
        /\ acks \in [FollowUps -> {"none", "approved", "published", "withdrawn"}]
    BY DEF Init
  <2> QED
    BY <1>1, <2>3, <2>4, <2>5 DEF TypeOK, Counting
<1>3. ASSUME NEW s \in Subjects PROVE Holding(s) = 0 /\ Proposing(s) = {}
  BY Kinds DEF Init, Holding, Proposing
<1>4. ASSUME NEW s \in Subjects PROVE Roomy(s)
  <2>1. Limit(s) \in Nat /\ Limit(s) >= 1
    BY FewWorkers DEF Limit
  <2> QED
    BY <1>3, <2>1, FS_EmptySet DEF Roomy
<1>5. Due
  <2>1. \A f \in FollowUps : f \in Subjects /\ Nothing # f
    BY CommunityAssumption DEF Subjects
  <2> QED
    BY <1>3, <2>1 DEF Due, Init
<1> QED
  BY <1>1, <1>2, <1>4, <1>5 DEF IInv

(* Jobs are queued, and acknowledgements published.                        *)
LEMMA AskingSteps ==
    ASSUME IInv,
           \/ ScoutReads \/ ScoutPersists \/ ScoutFails
           \/ \E s \in Subjects : OwnerAsks(s)
           \/ \E h \in Hypotheses : HistorianAnnounces(h)
           \/ StrategistAsks
           \/ \E f \in FollowUps : AckEnds(f, "published") \/ AckEnds(f, "withdrawn")
           \/ UNCHANGED vars
    PROVE  IInv'
<1>1. UNCHANGED <<decisions, drafting, raced>>
  BY DEF ScoutReads, ScoutPersists, ScoutFails, OwnerAsks, HistorianAnnounces, StrategistAsks,
         AckEnds, vars
<1>2. \A s \in Subjects : Holding(s)' = Holding(s) /\ Proposing(s)' = Proposing(s)
  BY <1>1 DEF Holding, Proposing, decisions, drafting
<1>3. Counting'
  BY <1>1 DEF IInv, Counting, decisions, drafting
<1>4. \A s \in Subjects : Roomy(s)'
  BY <1>1, <1>2 DEF IInv, Roomy, Limit
<1>5. ASSUME NEW S, Enqueue(S)
      PROVE  /\ queued' \in [Subjects -> 0..MaxQueued]
             /\ \A s \in Subjects \ S : queued'[s] = queued[s]
  BY <1>5, CommunityAssumption DEF IInv, TypeOK, Enqueue
<1>6. chosen' \in SUBSET Comments /\ scouting' \in BOOLEAN /\ known' \in SUBSET Others
  BY DEF ScoutReads, ScoutPersists, ScoutFails, OwnerAsks, HistorianAnnounces, StrategistAsks,
         AckEnds, vars, scout, IInv, TypeOK, Offered, First, Comments, Range
<1>7. queued' \in [Subjects -> 0..MaxQueued]
  BY <1>5 DEF ScoutReads, ScoutPersists, ScoutFails, OwnerAsks, HistorianAnnounces, StrategistAsks,
         AckEnds, vars, IInv, TypeOK
<1>8. ASSUME NEW f \in FollowUps
      PROVE  /\ acks'[f] \in {"none", "approved", "published", "withdrawn"}
             /\ acks[f] = "published" => acks'[f] = "published"
             /\ queued'[f] = queued[f] \/ acks[f] = "published"
  <2>1. f \in Subjects /\ f \notin Threads /\ f \notin Hypotheses
    BY CommunityAssumption DEF Subjects
  <2>2. CASE ScoutReads \/ ScoutFails \/ UNCHANGED vars
    BY <2>2 DEF ScoutReads, ScoutFails, vars, IInv, TypeOK
  <2>3. CASE ScoutPersists
    <3>1. acks' = acks /\ \E asked \in SUBSET Others : Enqueue(chosen \cup asked)
      BY <2>3 DEF ScoutPersists
    <3>2. f \notin chosen /\ f \notin Others
      BY <2>1 DEF IInv, TypeOK, Threads
    <3> QED
      BY <3>1, <3>2, <2>1, <1>5 DEF IInv, TypeOK
  <2>4. ASSUME NEW s \in Subjects, OwnerAsks(s) PROVE acks' = acks /\ queued'[f] = queued[f]
    BY <2>1, <2>4, <1>5 DEF OwnerAsks, IInv, TypeOK, Threads
  <2>5. ASSUME NEW h \in Hypotheses, HistorianAnnounces(h)
        PROVE  acks' = acks /\ queued'[f] = queued[f]
    BY <2>1, <2>5, <1>5 DEF HistorianAnnounces
  <2>6. CASE StrategistAsks
    <3>1. acks' = acks
      BY <2>6 DEF StrategistAsks
    <3>2. PICK due \in SUBSET FollowUpsDue, ask \in {{}} \cup {{h} : h \in PostCandidates} :
             Enqueue(due \cup ask)
      BY <2>6 DEF StrategistAsks
    <3>3. ask \subseteq Hypotheses
      BY <3>2 DEF PostCandidates
    <3>4. f \notin due \/ acks[f] = "published"
      BY <3>2 DEF FollowUpsDue
    <3> QED
      BY <3>1, <3>2, <3>3, <3>4, <2>1, <1>5 DEF IInv, TypeOK
  <2>7. ASSUME NEW g \in FollowUps, NEW as \in {"published", "withdrawn"}, AckEnds(g, as)
        PROVE  /\ acks'[f] \in {"none", "approved", "published", "withdrawn"}
               /\ acks[f] = "published" => acks'[f] = "published"
               /\ queued'[f] = queued[f]
    BY <2>7 DEF AckEnds, IInv, TypeOK
  <2> QED
    BY <2>2, <2>3, <2>4, <2>5, <2>6, <2>7 DEF IInv, TypeOK
<1>9. acks' \in [FollowUps -> {"none", "approved", "published", "withdrawn"}]
  <2>1. DOMAIN acks' = FollowUps /\ acks' = [f \in FollowUps |-> acks'[f]]
    BY DEF ScoutReads, ScoutPersists, ScoutFails, OwnerAsks, HistorianAnnounces, StrategistAsks,
           AckEnds, vars, IInv, TypeOK
  <2> QED
    BY <2>1, <1>8
<1>10. Due'
  <2>1. \A f \in FollowUps : f \in Subjects
    BY DEF Subjects
  <2> QED
    BY <1>1, <1>2, <1>8, <2>1 DEF IInv, Due, drafting
<1>11. TypeOK'
  <2>1. \A f \in FollowUps :
           proposed'[f] + approved'[f] + rejected'[f] > 0 => acks'[f] = "published"
    BY <1>1, <1>8 DEF IInv, TypeOK, decisions
  <2> QED
    BY <1>1, <1>6, <1>7, <1>9, <2>1 DEF IInv, TypeOK, decisions, drafting
<1> QED
  BY <1>3, <1>4, <1>10, <1>11 DEF IInv

(* A worker takes a job, lets it be, looks again, or commits.              *)
LEMMA DraftSteps ==
    ASSUME IInv, NEW w \in Workers, Draft(w)
    PROVE  IInv'
<1>0. UNCHANGED <<approved, rejected, known, acks, scout>>
  BY DEF Draft, Starts, GivesUp, Checks, Proposes, decisions
<1>1. ASSUME NEW x \in Subjects, Starts(w, x) PROVE IInv'
  <2>1. UNCHANGED <<decisions, raced>>
    BY <1>1 DEF Starts
  <2>2. \A z \in Subjects : Holding(z)' = Holding(z)
    BY <2>1 DEF Holding, decisions
  <2>3. \A z \in Subjects : Proposing(z)' \subseteq Proposing(z)
    BY <1>1 DEF Starts, Proposing, IInv, Counting, drafting
  <2>4. Counting'
    BY <1>1, <2>1 DEF Starts, IInv, Counting, decisions, drafting
  <2>5. ASSUME NEW z \in Subjects PROVE Roomy(z)'
    BY <2>1, <2>2, <2>3, HoldingIsNat, RoomSame DEF IInv
  <2>6. queued' \in [Subjects -> 0..MaxQueued] /\ \A z \in Subjects : queued[z] = 0 => queued'[z] = 0
    BY <1>1, CommunityAssumption DEF Starts, IInv, TypeOK
  <2>7. TypeOK'
    BY <1>0, <2>1, <2>4, <2>6 DEF IInv, TypeOK, Counting, decisions, scout
  <2>8. Due'
    <3>1. \A f \in FollowUps : f \in Subjects /\ acks'[f] = acks[f]
      BY <1>0 DEF Subjects
    <3>2. queued[x] > 0 /\ \A v \in Workers : on'[v] \in {on[v], x}
      BY <1>1 DEF Starts, drafting, IInv, Counting
    <3> QED
      BY <3>1, <3>2, <2>2, <2>6 DEF IInv, Due
  <2> QED
    BY <2>4, <2>5, <2>7, <2>8 DEF IInv
<1>2. ASSUME NEW s \in Subjects, on[w] = s, Ends(w), UNCHANGED <<decisions, raced>>,
             queued' = queued \/ Enqueue({s})
      PROVE  IInv'
  <2>2. \A z \in Subjects : Holding(z)' = Holding(z)
    BY <1>2 DEF Holding, decisions
  <2>3. \A z \in Subjects : Proposing(z)' \subseteq Proposing(z)
    BY <1>2 DEF Ends, Proposing, IInv, Counting
  <2>4. Counting'
    BY <1>2 DEF Ends, IInv, Counting, decisions
  <2>5. ASSUME NEW z \in Subjects PROVE Roomy(z)'
    BY <1>2, <2>2, <2>3, HoldingIsNat, RoomSame DEF IInv
  <2>6. queued' \in [Subjects -> 0..MaxQueued] /\ \A z \in Subjects \ {s} : queued'[z] = queued[z]
    BY <1>2, CommunityAssumption DEF Enqueue, IInv, TypeOK
  <2>7. TypeOK'
    BY <1>0, <1>2, <2>4, <2>6 DEF IInv, TypeOK, Counting, decisions, scout
  <2>8. Due'
    <3>1. \A f \in FollowUps : f \in Subjects /\ f # Nothing /\ acks'[f] = acks[f]
      BY <1>0, CommunityAssumption DEF Subjects
    <3>2. \A v \in Workers : on'[v] \in {on[v], Nothing}
      BY <1>2 DEF Ends, IInv, Counting
    <3> QED
      BY <1>2, <3>1, <3>2, <2>2, <2>6 DEF IInv, Due
  <2> QED
    BY <2>4, <2>5, <2>7, <2>8 DEF IInv
<1>3. CASE GivesUp(w)
  BY <1>2, <1>3 DEF GivesUp, IInv, Counting
<1>4. CASE Checks(w) /\ Ends(w)
  BY <1>2, <1>4 DEF Checks, IInv, Counting, Ends
<1>5. ASSUME NEW s \in Subjects, on[w] = s,
             pc[w] = "drafting", ~Drafted(w), Checks(w)
      PROVE  IInv'
  <2>1. /\ pc' = [pc EXCEPT ![w] = "proposing"] /\ on' = on
        /\ UNCHANGED <<queued, decisions>>
        /\ raced' = IF Proposing(s) = {} THEN raced ELSE raced \cup {s}
    BY <1>5 DEF Checks
  <2>2. Holding(s) = 0
    BY <1>5, HoldingIsNat DEF IInv, Drafted, Blocked
  <2>3. \A z \in Subjects : Holding(z)' = Holding(z)
    BY <2>1 DEF Holding, decisions
  <2>4. Counting'
    BY <1>5, <2>1 DEF IInv, Counting, decisions
  <2>5. ASSUME NEW z \in Subjects, z # s PROVE Roomy(z)'
    <3>1. Proposing(z)' = Proposing(z)
      BY <1>5, <2>1, <2>5 DEF Proposing, IInv, Counting
    <3>2. Limit(z)' = Limit(z)
      BY <2>1, <2>5 DEF Limit
    <3> QED
      BY <2>3, <3>1, <3>2 DEF IInv, Roomy
  <2>6. Roomy(s)'
    <3>1. Proposing(s)' = Proposing(s) \cup {w} /\ Proposing(s)' \in SUBSET Workers
      BY <1>5, <2>1, <2>2 DEF Proposing, IInv, Counting
    <3>2. CASE Proposing(s) = {}
      <4>1. Cardinality(Proposing(s)') = 1
        BY <3>1, <3>2, FS_Singleton
      <4>2. Limit(s)' >= 1
        BY FewWorkers DEF Limit
      <4>3. Limit(s)' \in Nat
        BY FewWorkers DEF Limit
      <4> QED
        BY <2>2, <2>3, <4>1, <4>2, <4>3 DEF Roomy
    <3>3. CASE Proposing(s) # {}
      <4>1. Limit(s)' = Cardinality(Workers)
        BY <2>1, <3>3 DEF Limit
      <4>2. Cardinality(Proposing(s)') \in Nat /\ Cardinality(Proposing(s)') <= Cardinality(Workers)
        BY <3>1, FewWorkers
      <4> QED
        BY <2>2, <2>3, <4>1, <4>2 DEF Roomy
    <3> QED
      BY <3>2, <3>3
  <2>7. TypeOK'
    BY <1>0, <2>1, <2>4 DEF IInv, TypeOK, Counting, decisions, scout
  <2>8. Due'
    BY <1>0, <2>1, <2>3 DEF IInv, Due, Subjects
  <2> QED
    BY <2>4, <2>5, <2>6, <2>7, <2>8 DEF IInv
<1>6. ASSUME NEW s \in Subjects, on[w] = s, Proposes(w) PROVE IInv'
  <2>1. /\ pc[w] = "proposing" /\ w \in Proposing(s)
        /\ proposed' = [proposed EXCEPT ![s] = @ + 1]
        /\ UNCHANGED <<queued, approved, rejected, raced>> /\ Ends(w)
    BY <1>6 DEF Proposes, Proposing, IInv, Counting
  <2>2. Counting'
    BY <2>1 DEF Ends, IInv, Counting
  <2>3. \A z \in Subjects \ {s} : Holding(z)' = Holding(z)
    BY <2>1, HoldingSame DEF IInv, Counting
  <2>4. \A z \in Subjects \ {s} : Proposing(z)' = Proposing(z)
    BY <2>1 DEF Ends, Proposing, IInv, Counting
  <2>5. Holding(s)' = Holding(s) + 1
    <3>1. /\ proposed[s] \in Nat /\ approved[s] \in Nat /\ rejected[s] \in Nat
          /\ proposed'[s] = proposed[s] + 1 /\ approved' = approved /\ rejected' = rejected
      BY <2>1 DEF IInv, Counting
    <3> QED
      BY <2>1, <3>1, Kinds DEF Holding
  <2>6. Roomy(s)'
    <3>1. Proposing(s)' = Proposing(s) \ {w}
      BY <2>1 DEF Ends, Proposing, IInv, Counting
    <3>2. IsFiniteSet(Proposing(s))
      BY CommunityAssumption, FS_Subset DEF Proposing
    <3>3. /\ Cardinality(Proposing(s)') = Cardinality(Proposing(s)) - 1
          /\ Cardinality(Proposing(s)) \in Nat
      BY <2>1, <3>1, <3>2, FS_RemoveElement, FS_CardinalityType
    <3>4. Limit(s)' = Limit(s) /\ Limit(s) \in Nat /\ Holding(s) \in Nat
      BY <2>1, FewWorkers, HoldingIsNat DEF Limit, IInv
    <3> QED
      BY <2>1, <2>5, <3>3, <3>4 DEF Roomy, IInv
  <2>7. ASSUME NEW z \in Subjects, z # s PROVE Roomy(z)'
    BY <2>1, <2>3, <2>4, <2>7 DEF IInv, Roomy, Limit
  <2>8. ASSUME NEW f \in FollowUps PROVE f \in Subjects /\ f # Nothing /\ acks' = acks
    BY <1>0, CommunityAssumption DEF Subjects
  <2>9. \A v \in Workers : on'[v] \in {on[v], Nothing}
    BY <2>1 DEF Ends, IInv, Counting
  <2>10. Due'
    <3>1. \A f \in FollowUps : f = s => acks[f] = "published"
      BY <1>6 DEF IInv, Due
    <3> QED
      BY <2>1, <2>3, <2>8, <2>9, <3>1 DEF IInv, Due
  <2>11. TypeOK'
    <3>1. \A f \in FollowUps :
             proposed'[f] + approved'[f] + rejected'[f] > 0 => acks'[f] = "published"
      <4>1. ASSUME NEW f \in FollowUps, f # s
            PROVE  proposed'[f] = proposed[f] /\ approved'[f] = approved[f] /\ rejected'[f] = rejected[f]
        BY <2>1, <2>8, <4>1 DEF IInv, Counting
      <4>2. \A f \in FollowUps : f = s => acks[f] = "published"
        BY <1>6 DEF IInv, Due
      <4> QED
        BY <4>1, <4>2, <2>8 DEF IInv, TypeOK
    <3> QED
      BY <1>0, <2>1, <2>2, <3>1 DEF IInv, TypeOK, Counting, scout
  <2> QED
    BY <2>2, <2>6, <2>7, <2>10, <2>11 DEF IInv
<1>7. pc[w] # "idle" => on[w] \in Subjects
  BY DEF IInv, Counting
<1>8. CASE Checks(w)
  <2>1. pc[w] = "drafting" /\ (Ends(w) \/ ~Drafted(w))
    BY <1>8 DEF Checks
  <2> QED
    BY <1>4, <1>5, <1>7, <1>8, <2>1
<1>9. CASE Proposes(w)
  BY <1>6, <1>7, <1>9 DEF Proposes
<1> QED
  BY <1>1, <1>3, <1>8, <1>9 DEF Draft

(* The owner decides. What is approved or rejected held a draft before.    *)
LEMMA OwnerSteps ==
    ASSUME IInv, NEW s \in Subjects, Approve(s) \/ Reject(s)
    PROVE  IInv'
<1>1. /\ UNCHANGED <<queued, known, scout, drafting, raced>>
      /\ proposed[s] > 0
      /\ proposed' = [proposed EXCEPT ![s] = @ - 1]
  BY DEF Approve, Reject
<1>2. \/ /\ rejected' = rejected /\ approved[s] < MaxApproved
         /\ approved' = [approved EXCEPT ![s] = @ + 1]
      \/ /\ approved' = approved /\ rejected[s] < MaxRejected
         /\ rejected' = [rejected EXCEPT ![s] = @ + 1]
  BY DEF Approve, Reject
<1>3. /\ proposed[s] \in Nat /\ approved[s] \in Nat /\ rejected[s] \in Nat
      /\ proposed'[s] = proposed[s] - 1
      /\ \/ approved'[s] = approved[s] + 1 /\ rejected'[s] = rejected[s]
         \/ approved'[s] = approved[s] /\ rejected'[s] = rejected[s] + 1
  BY <1>1, <1>2 DEF IInv, Counting
<1>4. Counting'
  BY <1>1, <1>2, <1>3 DEF IInv, Counting, drafting
<1>5. /\ approved' \in [Subjects -> 0..MaxApproved] /\ rejected' \in [Subjects -> 0..MaxRejected]
  BY <1>2, CommunityAssumption DEF IInv, TypeOK
<1>6. Holding(s)' \in Nat /\ Holding(s)' <= Holding(s)
  <2>1. CASE s \in Hypotheses
    <3>1. Holding(s) = proposed[s] /\ Holding(s)' = proposed'[s]
      BY <2>1, Kinds DEF Holding
    <3> QED
      BY <1>1, <1>3, <3>1
  <2>2. CASE s \in Threads
    <3>1. /\ Holding(s) = proposed[s] + approved[s]
          /\ Holding(s)' = proposed'[s] + approved'[s]
      BY <2>2, Kinds DEF Holding
    <3> QED
      BY <1>1, <1>3, <3>1
  <2>3. CASE s \in FollowUps
    <3>1. /\ Holding(s) = proposed[s] + approved[s] + rejected[s]
          /\ Holding(s)' = proposed'[s] + approved'[s] + rejected'[s]
      BY <2>3, Kinds DEF Holding
    <3> QED
      BY <1>1, <1>3, <3>1
  <2> QED
    BY <2>1, <2>2, <2>3, Kinds
<1>7. \A z \in Subjects : z # s => Holding(z)' = Holding(z)
  BY <1>1, <1>2, HoldingSame DEF IInv, Counting
<1>8. \A z \in Subjects : Proposing(z)' = Proposing(z)
  BY <1>1 DEF Proposing, drafting
<1>9. ASSUME NEW z \in Subjects PROVE Roomy(z)'
  <2>1. Holding(z)' \in Nat /\ Holding(z)' <= Holding(z)
    BY <1>6, <1>7, HoldingIsNat DEF IInv
  <2> QED
    BY <1>1, <1>8, <2>1, RoomSame DEF IInv
<1>10. acks' \in [FollowUps -> {"none", "approved", "published", "withdrawn"}]
  BY DEF Approve, Reject, IInv, TypeOK
<1>11. \A f \in FollowUps : acks[f] = "published" => acks'[f] = "published"
  BY DEF Approve, Reject, IInv, TypeOK
<1>12. ASSUME NEW f \in FollowUps PROVE f \in Subjects /\ (f = s => acks[f] = "published")
  <2>1. f \in Subjects /\ f \notin Threads /\ f \notin Hypotheses
    BY CommunityAssumption DEF Subjects
  <2>2. ASSUME f = s PROVE Holding(f) # 0
    BY <1>1, <1>3, <2>1, <2>2 DEF Holding
  <2> QED
    BY <2>1, <2>2 DEF IInv, Due
<1>13. Due'
  BY <1>1, <1>7, <1>11, <1>12 DEF IInv, Due, drafting
<1>14. TypeOK'
  <2>1. ASSUME NEW f \in FollowUps, f # s
        PROVE  proposed'[f] = proposed[f] /\ approved'[f] = approved[f] /\ rejected'[f] = rejected[f]
    BY <1>1, <1>2, <1>12, <2>1 DEF IInv, Counting
  <2>2. \A f \in FollowUps :
           proposed'[f] + approved'[f] + rejected'[f] > 0 => acks'[f] = "published"
    BY <2>1, <1>11, <1>12 DEF IInv, TypeOK
  <2> QED
    BY <1>1, <1>4, <1>5, <1>10, <2>2 DEF IInv, TypeOK, Counting, drafting, scout
<1> QED
  BY <1>4, <1>9, <1>13, <1>14 DEF IInv

(* The inductive invariant holds. *)
THEOREM Invariance == Spec => []IInv
<1>1. IInv /\ [Next]_vars => IInv'
  BY AskingSteps, DraftSteps, OwnerSteps DEF Next
<1> QED
  BY Initially, <1>1, PTL DEF Spec

(* The state is well typed, and a follow-up is only ever drafted after its *)
(* acknowledgement was published.                                          *)
THEOREM Typing == Spec => []TypeOK
<1>1. IInv => TypeOK
  BY DEF IInv
<1> QED
  BY <1>1, Invariance, PTL

(* No two replies to one comment, no two drafts of one post waiting, and   *)
(* no two follow-ups of one promise, but by transactions side by side, one *)
(* for each worker.                                                        *)
THEOREM SaidOnce == Spec => []NoDoubles
<1>1. IInv => NoDoubles
  <2> SUFFICES ASSUME IInv PROVE NoDoubles
    OBVIOUS
  <2>1. ASSUME NEW s \in Subjects PROVE Holding(s) <= Limit(s)
    <3>1. Cardinality(Proposing(s)) \in Nat
      BY FewWorkers DEF Proposing
    <3>2. Limit(s) \in Nat /\ Holding(s) \in Nat
      BY FewWorkers, HoldingIsNat DEF Limit, IInv
    <3> QED
      BY <3>1, <3>2 DEF IInv, Roomy
  <2>2. OneReplyEach
    <3>1. \A t \in Threads : t \in Subjects /\ Holding(t) = proposed[t] + approved[t]
      BY Kinds DEF Holding, Subjects
    <3> QED
      BY <2>1, <3>1 DEF OneReplyEach
  <2>3. OneDraftEach
    <3>1. \A h \in Hypotheses : h \in Subjects /\ Holding(h) = proposed[h]
      BY Kinds DEF Holding, Subjects
    <3> QED
      BY <2>1, <3>1 DEF OneDraftEach
  <2>4. OneFollowUpEach
    <3>1. ASSUME NEW f \in FollowUps
          PROVE  f \in Subjects /\ Holding(f) = proposed[f] + approved[f] + rejected[f]
      <4>1. f \in Subjects /\ f \notin Threads /\ f \notin Hypotheses
        BY CommunityAssumption DEF Subjects
      <4> QED
        BY <4>1 DEF Holding
    <3> QED
      BY <2>1, <3>1 DEF OneFollowUpEach
  <2> QED
    BY <2>2, <2>3, <2>4 DEF NoDoubles
<1> QED
  BY <1>1, Invariance, PTL
=============================================================================
