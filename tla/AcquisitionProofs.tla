-------------------------- MODULE AcquisitionProofs --------------------------
(***************************************************************************)
(* Proofs about Acquisition, for any number of workers, calls and pages    *)
(* and any limits.                                                         *)
(***************************************************************************)
EXTENDS Acquisition, FiniteSetTheorems, TLAPS

(* The calls that are out, and the workers that wait for one.              *)
Out     == {c \in Calls : state[c] = "out"}
Calling == {w \in Workers : pc[w] \in {"searching", "paying"}}

(* Each call that is out is that of one worker, and was sent today.        *)
CallsOut ==
    /\ \A w \in Workers : w \notin Calling => current[w] = NoCall
    /\ \A w \in Calling : current[w] \in Out
    /\ \A v, w \in Calling : current[v] = current[w] => v = w
    /\ \A c \in Out : age[c] = "day" /\ \E w \in Calling : current[w] = c

(* What counts for each of the limits.                                     *)
Spent   == {c \in Calls : state[c] # "free" /\ age[c] = "day"}
Paid(p) ==
    {c \in Calls : /\ p \in asked[c] /\ age[c] # "month"
                   /\ state[c] \in Outcomes \cup {"out"}}
Missed(s) == {c \in Calls : state[c] = "nothing" /\ \E p \in asked[c] : Site[p] = s}
Maybe(s)  == {c \in Calls : state[c] \in {"nothing", "out"} /\ \E p \in asked[c] : Site[p] = s}

(* The workers that have asked the log about a page, or a site, and may    *)
(* still pay for it.                                                       *)
MayRead(p)    == {w \in Workers : pc[w] = "unread" /\ p \in rest[w]}
MayReadAt(s) == {w \in Workers : pc[w] = "unread" /\ \E p \in rest[w] : Site[p] = s}

FewPaid(p) == Cardinality(Paid(p)) + Cardinality(MayRead(p)) <= Cardinality(Workers)
FewMissed(s) ==
    Cardinality(Maybe(s)) + Cardinality(MayReadAt(s)) <= ClosedAfter + Cardinality(Workers) - 1

(* The inductive invariant. *)
Typed == TypeOK /\ CallsOut
IInv ==
    /\ Typed
    /\ BudgetHeld
    /\ \A p \in Pages : FewPaid(p)
    /\ \A p \in Pages : FewMissed(Site[p])
-----------------------------------------------------------------------------
(* Typing.                                                                 *)

LEMMA TypeInitially == Init => Typed
<1> SUFFICES ASSUME Init PROVE Typed
  OBVIOUS
<1>1. 0 \in 0..MaxPaidPerRun
  BY AcquisitionAssumption
<1> QED
  BY <1>1 DEF Init, Typed, TypeOK, CallsOut, Calling, Out, States, Ages, Places

LEMMA LeaveTyped ==
    ASSUME TypeOK, NEW w \in Workers, Leave(w)
    PROVE  /\ pc' \in [Workers -> Places]
           /\ named' \in [Workers -> BOOLEAN]
           /\ paidCalls' \in [Workers -> 0..MaxPaidPerRun]
           /\ pages' \in [Workers -> SUBSET Pages]
           /\ todo' \in [Workers -> SUBSET Pages]
           /\ rest' \in [Workers -> SUBSET WorthPaying]
           /\ enriching' \in [Workers -> BOOLEAN]
<1>1. 0 \in 0..MaxPaidPerRun
  BY AcquisitionAssumption
<1> QED
  BY <1>1 DEF Leave, TypeOK, Places

LEMMA EndExtractTyped ==
    ASSUME TypeOK, NEW w \in Workers, NEW tried \in SUBSET Pages, EndExtract(w, tried)
    PROVE  /\ pc' \in [Workers -> Places]
           /\ pages' \in [Workers -> SUBSET Pages]
           /\ todo' \in [Workers -> SUBSET Pages]
           /\ rest' \in [Workers -> SUBSET WorthPaying]
           /\ enriching' \in [Workers -> BOOLEAN]
BY DEF EndExtract, TypeOK, Places

LEMMA GoOnTyped ==
    ASSUME TypeOK, NEW w \in Workers, GoOn(w)
    PROVE  /\ pc' \in [Workers -> Places] /\ pages' \in [Workers -> SUBSET Pages]
           /\ todo' \in [Workers -> SUBSET Pages]
           /\ rest' \in [Workers -> SUBSET WorthPaying]
           /\ enriching' \in [Workers -> BOOLEAN]
BY DEF GoOn, TypeOK, Places

LEMMA SettleTyped ==
    ASSUME TypeOK, NEW w \in Workers, current[w] \in Calls,
           NEW as \in Outcomes \cup {"free"}, Settle(w, as)
    PROVE  /\ state' \in [Calls -> States] /\ asked' \in [Calls -> SUBSET Pages]
           /\ age' \in [Calls -> Ages] /\ current' \in [Workers -> Calls \cup {NoCall}]
BY DEF Settle, TypeOK, States

LEMMA SendTyped ==
    ASSUME TypeOK, NEW w \in Workers, NEW what \in SUBSET Pages, NEW place \in Places,
           MayPay(w), Send(w, what, place)
    PROVE  /\ state' \in [Calls -> States] /\ asked' \in [Calls -> SUBSET Pages]
           /\ age' \in [Calls -> Ages] /\ current' \in [Workers -> Calls \cup {NoCall}]
           /\ pc' \in [Workers -> Places]
           /\ paidCalls' \in [Workers -> 0..MaxPaidPerRun]
<1>1. PICK c \in Calls :
        /\ state' = [state EXCEPT ![c] = "out"]
        /\ asked' = [asked EXCEPT ![c] = what]
        /\ age'   = [age EXCEPT ![c] = "day"]
        /\ current' = [current EXCEPT ![w] = c]
        /\ paidCalls' = [paidCalls EXCEPT ![w] = IF paidFirst THEN @ ELSE @ + 1]
        /\ pc' = [pc EXCEPT ![w] = place]
  BY DEF Send
<1>2. /\ state' \in [Calls -> States] /\ asked' \in [Calls -> SUBSET Pages]
      /\ age' \in [Calls -> Ages] /\ current' \in [Workers -> Calls \cup {NoCall}]
      /\ pc' \in [Workers -> Places]
  BY <1>1 DEF TypeOK, States, Ages
<1>3. paidFirst \/ paidCalls[w] + 1 \in 0..MaxPaidPerRun
  <2>1. MaxPaidPerRun \in Nat /\ paidCalls[w] \in 0..MaxPaidPerRun
    BY AcquisitionAssumption DEF TypeOK
  <2> QED
    BY <2>1 DEF MayPay
<1>4. paidCalls' \in [Workers -> 0..MaxPaidPerRun]
  BY <1>1, <1>3 DEF TypeOK
<1> QED
  BY <1>2, <1>4

LEMMA TypeNext == ASSUME Typed, [Next]_vars PROVE TypeOK'
<1> USE DEF Typed
<1>0. /\ \A w \in Calling : current[w] \in Calls
      /\ WorthPaying \subseteq Pages
  BY AcquisitionAssumption DEF CallsOut, Out
<1>1. ASSUME NEW w \in Workers, NEW b \in BOOLEAN, StartRun(w, b) PROVE TypeOK'
  BY <1>1 DEF StartRun, log, TypeOK, Places
<1>2. ASSUME NEW w \in Workers, EndRun(w) PROVE TypeOK'
  BY <1>2, LeaveTyped DEF EndRun, log, TypeOK
<1>3. ASSUME NEW w \in Workers, EndRunCalling(w) PROVE TypeOK'
  <2>1. current[w] \in Calls /\ "free" \in Outcomes \cup {"free"}
    BY <1>0, <1>3 DEF EndRunCalling, Calling
  <2> QED
    BY <1>3, <2>1, LeaveTyped, SettleTyped DEF EndRunCalling, TypeOK
<1>4. ASSUME NEW w \in Workers, PaidSearch(w) PROVE TypeOK'
  BY <1>4, SendTyped DEF PaidSearch, TypeOK, Places
<1>5. ASSUME NEW w \in Workers, PaidSearchRefused(w) PROVE TypeOK'
  BY <1>5 DEF PaidSearchRefused, log, run, TypeOK, Places
<1>6. ASSUME NEW w \in Workers, SearchAnswered(w) PROVE TypeOK'
  <2>1. current[w] \in Calls /\ "found" \in Outcomes \cup {"free"}
    BY <1>0, <1>6 DEF SearchAnswered, Calling, Outcomes
  <2>2. pc' \in [Workers -> Places]
    BY <1>6 DEF SearchAnswered, TypeOK, Places
  <2> QED
    BY <1>6, <2>1, <2>2, SettleTyped DEF SearchAnswered, TypeOK
<1>7. ASSUME NEW w \in Workers, NEW as \in Outcomes, ReadAnswered(w, as) PROVE TypeOK'
  <2>1. current[w] \in Calls /\ todo[w] \in SUBSET Pages
    BY <1>0, <1>7 DEF ReadAnswered, Calling, TypeOK
  <2> QED
    BY <1>7, <2>1, SettleTyped, EndExtractTyped DEF ReadAnswered, TypeOK
<1>8. ASSUME NEW w \in Workers, CallFails(w) PROVE TypeOK'
  <2>1. current[w] \in Calls /\ "free" \in Outcomes \cup {"free"}
    BY <1>0, <1>8 DEF CallFails, Calling
  <2> QED
    BY <1>8, <2>1, SettleTyped, GoOnTyped DEF CallFails, TypeOK
<1>9. ASSUME NEW w \in Workers, NEW wanted \in SUBSET Pages, NEW b \in BOOLEAN,
             Extract(w, wanted, b)
      PROVE  TypeOK'
  <2> DEFINE unknown == (wanted \ Blocked) \ pages[w]
  <2>1. UNCHANGED <<paidFirst, log, named, paidCalls, current>>
    BY <1>9 DEF Extract
  <2>2. CASE EndExtract(w, unknown)
    BY <2>1, <2>2, EndExtractTyped DEF log, TypeOK
  <2>3. ASSUME NEW left \in SUBSET WorthPaying,
               pc' = [pc EXCEPT ![w] = "unread"], todo' = [todo EXCEPT ![w] = unknown],
               rest' = [rest EXCEPT ![w] = left], enriching' = [enriching EXCEPT ![w] = b],
               UNCHANGED pages
        PROVE  TypeOK'
    <3>1. /\ pc' \in [Workers -> Places] /\ todo' \in [Workers -> SUBSET Pages]
          /\ rest' \in [Workers -> SUBSET WorthPaying] /\ enriching' \in [Workers -> BOOLEAN]
      BY <2>3 DEF TypeOK, Places
    <3> QED
      BY <2>1, <2>3, <3>1 DEF log, TypeOK
  <2> QED
    BY <1>9, <2>2, <2>3 DEF Extract
<1>10. ASSUME NEW w \in Workers, PaidRead(w) PROVE TypeOK'
  <2>1. rest[w] \in SUBSET Pages
    BY <1>0 DEF TypeOK
  <2> QED
    BY <1>10, <2>1, SendTyped DEF PaidRead, TypeOK, Places
<1>11. ASSUME NEW w \in Workers, PaidReadRefused(w) PROVE TypeOK'
  <2>1. CASE pc' = [pc EXCEPT ![w] = "stopped"] /\ UNCHANGED run
    BY <1>11, <2>1 DEF PaidReadRefused, log, run, TypeOK, Places
  <2>2. CASE EndExtract(w, todo[w]) /\ UNCHANGED <<named, paidCalls, current>>
    <3>1. todo[w] \in SUBSET Pages
      BY DEF TypeOK
    <3> QED
      BY <1>11, <2>2, <3>1, EndExtractTyped DEF PaidReadRefused, log, TypeOK
  <2>3. CASE GoOn(w) /\ UNCHANGED <<named, paidCalls, current>>
    BY <1>11, <2>3, GoOnTyped DEF PaidReadRefused, log, TypeOK
  <2> QED
    BY <1>11, <2>1, <2>2, <2>3 DEF PaidReadRefused
<1>12. ASSUME NEW c \in Calls, Age(c) PROVE TypeOK'
  <2>1. /\ state' \in [Calls -> States] /\ asked' \in [Calls -> SUBSET Pages]
        /\ age' \in [Calls -> Ages]
    BY <1>12 DEF Age, TypeOK, States, Ages
  <2> QED
    BY <1>12, <2>1 DEF Age, run, TypeOK
<1>13. CASE UNCHANGED vars
  BY <1>13 DEF vars, log, run, TypeOK
<1> QED
  BY <1>1, <1>2, <1>3, <1>4, <1>5, <1>6, <1>7, <1>8, <1>9, <1>10, <1>11, <1>12, <1>13
     DEF Next, RunStep
-----------------------------------------------------------------------------
(* What a step does to the calls.                                          *)

(* A step of a worker that neither sends a call nor hears of one.          *)
LEMMA ElseTheCallsStay ==
    ASSUME Typed, NEW w \in Workers, w \notin Calling,
           NEW x \in {"idle", "working", "unread", "stopped"},
           pc' = [pc EXCEPT ![w] = x], UNCHANGED <<log, current>>
    PROVE  CallsOut'
<1>1. Calling' = Calling /\ Out' = Out
  BY DEF Calling, Out, log, Typed, TypeOK
<1> QED
  BY <1>1 DEF CallsOut, log, Typed

LEMMA SettlesOne ==
    ASSUME Typed, NEW w \in Calling, NEW as \in Outcomes \cup {"free"}, Settle(w, as),
           NEW x \in {"idle", "working"}, pc' = [pc EXCEPT ![w] = x]
    PROVE  /\ CallsOut'
           /\ Spent' \subseteq Spent
           /\ \A p : Paid(p)' \subseteq Paid(p)
           /\ \A s : Maybe(s)' \subseteq Maybe(s)
<1>1. current[w] \in Calls /\ state[current[w]] = "out" /\ age[current[w]] = "day"
  BY DEF Typed, CallsOut, Out
<1>2. /\ \A c \in Calls : c # current[w] => state'[c] = state[c] /\ asked'[c] = asked[c]
      /\ state'[current[w]] = as /\ as # "out"
      /\ as # "free" => asked'[current[w]] = asked[current[w]]
      /\ age' = age
  BY <1>1 DEF Settle, Typed, TypeOK, Outcomes
<1>3. Calling' = Calling \ {w} /\ Out' = Out \ {current[w]}
  BY <1>1, <1>2 DEF Calling, Out, Typed, TypeOK
<1>4. /\ current' = [current EXCEPT ![w] = NoCall] /\ current \in [Workers -> Calls \cup {NoCall}]
      /\ Calling \subseteq Workers
  BY DEF Settle, Typed, TypeOK, Calling
<1>5. CallsOut'
  <2>1. \A v \in Workers : v \notin Calling' => current'[v] = NoCall
    BY <1>3, <1>4 DEF CallsOut, Typed
  <2>2. \A v \in Calling' : current'[v] = current[v] /\ current[v] \in Out'
    BY <1>3, <1>4 DEF CallsOut, Typed
  <2>3. \A v, u \in Calling' : current'[v] = current'[u] => v = u
    BY <1>3, <2>2 DEF CallsOut, Typed
  <2>4. \A c \in Out' : age'[c] = "day" /\ \E v \in Calling' : current'[v] = c
    BY <1>2, <1>3, <2>2 DEF CallsOut, Typed
  <2> QED
    BY <2>1, <2>2, <2>3, <2>4 DEF CallsOut
<1>6. Spent' \subseteq Spent
  BY <1>1, <1>2 DEF Spent
<1>7. \A p : Paid(p)' \subseteq Paid(p)
  BY <1>1, <1>2 DEF Paid, Outcomes
<1>8. \A s : Maybe(s)' \subseteq Maybe(s)
  BY <1>1, <1>2 DEF Maybe
<1> QED
  BY <1>5, <1>6, <1>7, <1>8

LEMMA SendsOne ==
    ASSUME Typed, NEW w \in Workers, w \notin Calling, NEW what \in SUBSET Pages,
           NEW place \in {"searching", "paying"}, Send(w, what, place)
    PROVE  /\ CallsOut'
           /\ Spent' \subseteq Used \cup Out'
           /\ \E c : \A p : Paid(p)' \subseteq (IF p \in what THEN Paid(p) \cup {c} ELSE Paid(p))
           /\ \E c : \A s : Maybe(s)' \subseteq (IF \E p \in what : Site[p] = s
                                                 THEN Maybe(s) \cup {c} ELSE Maybe(s))
<1>1. PICK c \in Calls :
        /\ state[c] = "free"
        /\ state' = [state EXCEPT ![c] = "out"]
        /\ asked' = [asked EXCEPT ![c] = what]
        /\ age'   = [age EXCEPT ![c] = "day"]
        /\ current' = [current EXCEPT ![w] = c]
        /\ pc' = [pc EXCEPT ![w] = place]
  BY DEF Send
<1>2. /\ \A d \in Calls : d # c => state'[d] = state[d] /\ asked'[d] = asked[d] /\ age'[d] = age[d]
      /\ state'[c] = "out" /\ asked'[c] = what /\ age'[c] = "day"
  BY <1>1 DEF Typed, TypeOK
<1>3. Calling' = Calling \cup {w} /\ Out' = Out \cup {c} /\ c \notin Out
  BY <1>1, <1>2 DEF Calling, Out, Typed, TypeOK
<1>4. /\ current'[w] = c /\ \A v \in Workers : v # w => current'[v] = current[v]
      /\ Calling \subseteq Workers
  BY <1>1 DEF Typed, TypeOK, Calling
<1>5. CallsOut'
  <2>1. \A v \in Workers : v \notin Calling' => current'[v] = NoCall
    BY <1>3, <1>4 DEF CallsOut, Typed
  <2>2. \A v \in Calling : v # w /\ current'[v] = current[v] /\ current[v] \in Out
    BY <1>4 DEF CallsOut, Typed
  <2>3. \A v \in Calling' : current'[v] \in Out'
    BY <1>3, <1>4, <2>2
  <2>4. \A v, u \in Calling' : current'[v] = current'[u] => v = u
    BY <1>3, <1>4, <2>2 DEF CallsOut, Typed
  <2>5. \A d \in Out' : age'[d] = "day" /\ \E v \in Calling' : current'[v] = d
    BY <1>2, <1>3, <1>4, <2>2 DEF CallsOut, Typed, Out
  <2> QED
    BY <2>1, <2>3, <2>4, <2>5 DEF CallsOut
<1>6. Spent' \subseteq Used \cup Out'
  BY <1>2 DEF Spent, Used, Out, Typed, TypeOK, States
<1>7. \A p : Paid(p)' \subseteq (IF p \in what THEN Paid(p) \cup {c} ELSE Paid(p))
  BY <1>2 DEF Paid
<1>8. \A s : Maybe(s)' \subseteq (IF \E p \in what : Site[p] = s
                                  THEN Maybe(s) \cup {c} ELSE Maybe(s))
  BY <1>2 DEF Maybe
<1> QED
  BY <1>5, <1>6, <1>7, <1>8

LEMMA AgesOne ==
    ASSUME Typed, NEW c \in Calls, Age(c)
    PROVE  /\ CallsOut'
           /\ Spent' \subseteq Spent
           /\ \A p : Paid(p)' \subseteq Paid(p)
           /\ \A s : Maybe(s)' \subseteq Maybe(s)
<1>1. /\ \A d \in Calls : d # c => state'[d] = state[d] /\ asked'[d] = asked[d] /\ age'[d] = age[d]
      /\ state[c] \notin {"free", "out"}
      /\ \/ /\ state'[c] = state[c] /\ asked'[c] = asked[c]
            /\ age[c] # "month" /\ age'[c] # "day"
         \/ state'[c] = "free"
  BY DEF Age, Typed, TypeOK
<1>2. UNCHANGED <<pc, current>>
  BY DEF Age, run
<1>3. Out' = Out /\ Calling' = Calling /\ \A d \in Out : age'[d] = age[d]
  BY <1>1, <1>2 DEF Out, Calling
<1>4. CallsOut'
  BY <1>2, <1>3 DEF CallsOut, Typed
<1>5. Spent' \subseteq Spent
  BY <1>1 DEF Spent
<1>6. \A p : Paid(p)' \subseteq Paid(p)
  BY <1>1 DEF Paid, Outcomes
<1>7. \A s : Maybe(s)' \subseteq Maybe(s)
  BY <1>1 DEF Maybe
<1> QED
  BY <1>4, <1>5, <1>6, <1>7
-----------------------------------------------------------------------------
(* Counting.                                                               *)

LEMMA Numbers ==
    /\ Cardinality(Workers) \in Nat /\ Budget \in Nat
    /\ ClosedAfter \in Nat /\ ClosedAfter + Cardinality(Workers) - 1 \in Int
BY AcquisitionAssumption, FS_CardinalityType

LEMMA AllFinite ==
    /\ IsFiniteSet(Out) /\ IsFiniteSet(Used) /\ IsFiniteSet(Spent)
    /\ \A p : IsFiniteSet(Paid(p)) /\ IsFiniteSet(MayRead(p))
    /\ \A s : IsFiniteSet(Maybe(s)) /\ IsFiniteSet(MayReadAt(s)) /\ IsFiniteSet(Missed(s))
BY AcquisitionAssumption, FS_Subset
   DEF Out, Used, Spent, Paid, MayRead, Maybe, MayReadAt, Missed

LEMMA NoMore ==
    ASSUME NEW A, NEW B, NEW A2, NEW B2, NEW N \in Int, IsFiniteSet(A), IsFiniteSet(B),
           A2 \subseteq A, B2 \subseteq B, Cardinality(A) + Cardinality(B) <= N
    PROVE  Cardinality(A2) + Cardinality(B2) <= N
<1>1. /\ Cardinality(A2) \in Nat /\ Cardinality(A) \in Nat /\ Cardinality(A2) <= Cardinality(A)
      /\ Cardinality(B2) \in Nat /\ Cardinality(B) \in Nat /\ Cardinality(B2) <= Cardinality(B)
  BY FS_Subset, FS_CardinalityType
<1> QED
  BY <1>1

LEMMA OneMore ==
    ASSUME NEW A, NEW A2, NEW a, IsFiniteSet(A), A2 \subseteq A \cup {a}
    PROVE  /\ Cardinality(A) \in Nat /\ Cardinality(A2) \in Nat
           /\ Cardinality(A2) <= Cardinality(A) + 1
<1>1. /\ IsFiniteSet(A \cup {a}) /\ Cardinality(A) \in Nat
      /\ Cardinality(A \cup {a}) \in {Cardinality(A), Cardinality(A) + 1}
  BY FS_AddElement, FS_CardinalityType
<1>2. /\ Cardinality(A2) \in Nat /\ Cardinality(A2) <= Cardinality(A \cup {a})
  BY <1>1, FS_Subset, FS_CardinalityType
<1> QED
  BY <1>1, <1>2

LEMMA OneLess ==
    ASSUME NEW B, NEW B2, NEW b \in B, IsFiniteSet(B), B2 \subseteq B \ {b}
    PROVE  /\ Cardinality(B) \in Nat /\ Cardinality(B2) \in Nat
           /\ Cardinality(B2) <= Cardinality(B) - 1
<1>1. /\ IsFiniteSet(B \ {b}) /\ Cardinality(B) \in Nat
      /\ Cardinality(B \ {b}) = Cardinality(B) - 1
  BY FS_RemoveElement, FS_CardinalityType
<1>2. /\ Cardinality(B2) \in Nat /\ Cardinality(B2) <= Cardinality(B \ {b})
  BY <1>1, FS_Subset, FS_CardinalityType
<1> QED
  BY <1>1, <1>2

LEMMA AtMostBoth ==
    ASSUME NEW A, NEW B, NEW C, IsFiniteSet(A), IsFiniteSet(B), C \subseteq A \cup B
    PROVE  /\ Cardinality(A) \in Nat /\ Cardinality(B) \in Nat /\ Cardinality(C) \in Nat
           /\ Cardinality(C) <= Cardinality(A) + Cardinality(B)
<1>1. /\ IsFiniteSet(A \cup B) /\ IsFiniteSet(A \cap B)
      /\ Cardinality(A \cup B) = Cardinality(A) + Cardinality(B) - Cardinality(A \cap B)
  BY FS_Union, FS_Intersection
<1>2. /\ Cardinality(A) \in Nat /\ Cardinality(B) \in Nat /\ Cardinality(A \cap B) \in Nat
      /\ Cardinality(A \cup B) \in Nat
  BY <1>1, FS_CardinalityType
<1>3. Cardinality(C) \in Nat /\ Cardinality(C) <= Cardinality(A \cup B)
  BY <1>1, FS_Subset, FS_CardinalityType
<1> QED
  BY <1>1, <1>2, <1>3

(* Calls that are out, and workers that wait for none, are together no     *)
(* more than the workers.                                                  *)
LEMMA OneOutEach ==
    ASSUME Typed, NEW U \in SUBSET Workers, U \cap Calling = {}
    PROVE  Cardinality(Out) + Cardinality(U) <= Cardinality(Workers)
<1> DEFINE V == Workers \ U
           f == [c \in Out |-> CHOOSE w \in Calling : current[w] = c]
<1>1. /\ IsFiniteSet(V) /\ IsFiniteSet(U) /\ IsFiniteSet(Out)
      /\ Cardinality(V) = Cardinality(Workers) - Cardinality(U)
  <2>1. IsFiniteSet(Workers) /\ Workers \cap U = U
    BY AcquisitionAssumption
  <2>2. IsFiniteSet(V) /\ Cardinality(V) = Cardinality(Workers) - Cardinality(U)
    BY <2>1, FS_Difference
  <2>3. IsFiniteSet(U)
    BY <2>1, FS_Subset
  <2> QED
    BY <2>2, <2>3, AllFinite
<1>2. \A c \in Out : f[c] \in Calling /\ current[f[c]] = c
  BY DEF Typed, CallsOut
<1>3. f \in [Out -> V]
  BY <1>2 DEF Calling
<1>4. \A c, d \in Out : f[c] = f[d] => c = d
  BY <1>2
<1> HIDE DEF f, V
<1>5. ~(Cardinality(V) < Cardinality(Out))
  BY <1>1, <1>3, <1>4, FS_PigeonHole
<1>6. /\ Cardinality(V) \in Nat /\ Cardinality(Out) \in Nat /\ Cardinality(U) \in Nat
      /\ Cardinality(Workers) \in Nat
  BY <1>1, Numbers, FS_CardinalityType
<1> QED
  BY <1>1, <1>5, <1>6

LEMMA FewOut == Typed => Cardinality(Out) <= Cardinality(Workers)
<1> SUFFICES ASSUME Typed PROVE Cardinality(Out) <= Cardinality(Workers)
  OBVIOUS
<1>1. Cardinality(Out) + Cardinality({}) <= Cardinality(Workers)
  BY OneOutEach
<1>2. Cardinality({}) = 0 /\ Cardinality(Out) \in Nat
  BY AllFinite, FS_EmptySet, FS_CardinalityType
<1> QED
  BY <1>1, <1>2

(* Each call that found nothing is a miss of the sites it was for.         *)
LEMMA MissesCounted ==
    ASSUME Typed, NEW s
    PROVE  /\ Cardinality(Missed(s)) \in Nat /\ Cardinality(Misses(s)) \in Nat
           /\ Cardinality(Missed(s)) <= Cardinality(Misses(s))
<1> DEFINE f == [c \in Missed(s) |-> <<c, CHOOSE p \in asked[c] : Site[p] = s>>]
<1>1. IsFiniteSet(Calls \X Pages)
  BY AcquisitionAssumption, FS_Product
<1>2. IsFiniteSet(Misses(s)) /\ IsFiniteSet(Missed(s))
  BY <1>1, AllFinite, FS_Subset DEF Misses
<1>3. \A c \in Missed(s) : /\ c \in Calls /\ state[c] = "nothing" /\ asked[c] \subseteq Pages
                           /\ \E p \in asked[c] : Site[p] = s
  BY DEF Missed, Typed, TypeOK
<1>4. \A c \in Missed(s) : f[c] \in Misses(s)
  BY <1>3 DEF Misses
<1>5. f \in [Missed(s) -> Misses(s)] /\ \A c, d \in Missed(s) : f[c] = f[d] => c = d
  BY <1>4
<1> HIDE DEF f
<1>6. ~(Cardinality(Misses(s)) < Cardinality(Missed(s)))
  BY <1>2, <1>5, FS_PigeonHole
<1> QED
  BY <1>2, <1>6, FS_CardinalityType
-----------------------------------------------------------------------------
(* Every step is of one of these kinds.                                    *)

OnlyOf(w) == \A v \in Workers \ {w} : rest'[v] = rest[v]

Sending(w) ==
    \E what \in SUBSET Pages, place \in {"searching", "paying"} :
        /\ w \notin Calling
        /\ what = {} \/ (pc[w] = "unread" /\ what = rest[w])
        /\ MayPay(w) /\ Send(w, what, place)
        /\ UNCHANGED rest

Settling(w) ==
    \E as \in Outcomes \cup {"free"}, x \in {"idle", "working"} :
        /\ w \in Calling
        /\ Settle(w, as)
        /\ pc' = [pc EXCEPT ![w] = x]
        /\ OnlyOf(w)

Going(w) ==
    \E x \in {"idle", "working", "stopped"} :
        /\ w \notin Calling
        /\ pc' = [pc EXCEPT ![w] = x]
        /\ UNCHANGED <<log, current>>
        /\ OnlyOf(w)

Asking(w) ==
    /\ w \notin Calling
    /\ pc' = [pc EXCEPT ![w] = "unread"]
    /\ \A p \in rest'[w] : p \notin PaidBefore /\ Site[p] \notin ClosedSites
    /\ UNCHANGED <<log, current>>
    /\ OnlyOf(w)

LEMMA Kinds ==
    ASSUME Typed, [Next]_vars
    PROVE  \/ \E w \in Workers : Sending(w) \/ Settling(w) \/ Going(w) \/ Asking(w)
           \/ \E c \in Calls : Age(c)
           \/ UNCHANGED vars
<1>1. ASSUME NEW w \in Workers, NEW b \in BOOLEAN, StartRun(w, b) PROVE Going(w)
  BY <1>1 DEF StartRun, Going, OnlyOf, Calling
<1>2. ASSUME NEW w \in Workers, EndRun(w) PROVE Going(w)
  BY <1>2 DEF EndRun, Leave, Going, OnlyOf, Calling, Typed, TypeOK
<1>3. ASSUME NEW w \in Workers, EndRunCalling(w) PROVE Settling(w)
  <2>1. w \in Calling /\ Settle(w, "free") /\ pc' = [pc EXCEPT ![w] = "idle"] /\ OnlyOf(w)
    BY <1>3 DEF EndRunCalling, Leave, OnlyOf, Calling, Typed, TypeOK
  <2> QED
    BY <2>1 DEF Settling
<1>4. ASSUME NEW w \in Workers, PaidSearch(w) PROVE Sending(w)
  <2>1. w \notin Calling /\ MayPay(w) /\ Send(w, {}, "searching") /\ UNCHANGED rest
    BY <1>4 DEF PaidSearch, Calling
  <2> SUFFICES \E what \in SUBSET Pages, place \in {"searching", "paying"} :
                  /\ w \notin Calling
                  /\ what = {} \/ (pc[w] = "unread" /\ what = rest[w])
                  /\ MayPay(w) /\ Send(w, what, place)
                  /\ UNCHANGED rest
    BY DEF Sending
  <2> WITNESS {} \in SUBSET Pages, "searching" \in {"searching", "paying"}
  <2> QED
    BY <2>1
<1>5. ASSUME NEW w \in Workers, PaidSearchRefused(w) PROVE Going(w)
  BY <1>5 DEF PaidSearchRefused, run, Going, OnlyOf, Calling
<1>6. ASSUME NEW w \in Workers, SearchAnswered(w) PROVE Settling(w)
  <2>1. w \in Calling /\ Settle(w, "found") /\ pc' = [pc EXCEPT ![w] = "working"] /\ OnlyOf(w)
    BY <1>6 DEF SearchAnswered, OnlyOf, Calling
  <2> QED
    BY <2>1 DEF Settling, Outcomes
<1>7. ASSUME NEW w \in Workers, NEW as \in Outcomes, ReadAnswered(w, as) PROVE Settling(w)
  <2>1. w \in Calling /\ Settle(w, as) /\ pc' = [pc EXCEPT ![w] = "working"] /\ OnlyOf(w)
    BY <1>7 DEF ReadAnswered, EndExtract, OnlyOf, Calling, Typed, TypeOK
  <2> QED
    BY <2>1 DEF Settling
<1>8. ASSUME NEW w \in Workers, CallFails(w) PROVE Settling(w)
  <2>1. w \in Calling /\ Settle(w, "free") /\ pc' = [pc EXCEPT ![w] = "working"] /\ OnlyOf(w)
    BY <1>8 DEF CallFails, GoOn, OnlyOf, Calling, Typed, TypeOK
  <2> QED
    BY <2>1 DEF Settling
<1>9. ASSUME NEW w \in Workers, NEW wanted \in SUBSET Pages, NEW b \in BOOLEAN,
             Extract(w, wanted, b)
      PROVE  Going(w) \/ Asking(w)
  <2>1. w \notin Calling /\ UNCHANGED <<log, current>>
    BY <1>9 DEF Extract, Calling
  <2>2. ASSUME NEW tried, EndExtract(w, tried) PROVE Going(w)
    BY <2>1, <2>2 DEF EndExtract, Going, OnlyOf, Typed, TypeOK
  <2>3. ASSUME NEW left, pc' = [pc EXCEPT ![w] = "unread"], rest' = [rest EXCEPT ![w] = left],
               \A p \in left : p \notin PaidBefore /\ Site[p] \notin ClosedSites
        PROVE  Asking(w)
    BY <2>1, <2>3 DEF Asking, OnlyOf, Typed, TypeOK
  <2> DEFINE unknown == (wanted \ Blocked) \ pages[w]
             left(read) == {p \in (unknown \ read) \cap WorthPaying :
                               p \notin PaidBefore /\ Site[p] \notin ClosedSites}
  <2>4. PICK read \in SUBSET unknown :
          \/ EndExtract(w, unknown)
          \/ pc' = [pc EXCEPT ![w] = "unread"] /\ rest' = [rest EXCEPT ![w] = left(read)]
    BY <1>9 DEF Extract
  <2>5. \A p \in left(read) : p \notin PaidBefore /\ Site[p] \notin ClosedSites
    OBVIOUS
  <2> HIDE DEF unknown, left
  <2> QED
    BY <2>2, <2>3, <2>4, <2>5
<1>10. ASSUME NEW w \in Workers, PaidRead(w) PROVE Sending(w)
  <2>1. /\ w \notin Calling /\ MayPay(w) /\ Send(w, rest[w], "paying") /\ UNCHANGED rest
        /\ pc[w] = "unread" /\ rest[w] \in SUBSET Pages
    BY <1>10, AcquisitionAssumption DEF PaidRead, Calling, Typed, TypeOK
  <2> QED
    BY <2>1 DEF Sending
<1>11. ASSUME NEW w \in Workers, PaidReadRefused(w) PROVE Going(w)
  BY <1>11 DEF PaidReadRefused, EndExtract, GoOn, run, log, Going, OnlyOf, Calling, Typed, TypeOK
<1> QED
  BY <1>1, <1>2, <1>3, <1>4, <1>5, <1>6, <1>7, <1>8, <1>9, <1>10, <1>11 DEF Next, RunStep
-----------------------------------------------------------------------------
(* The limits.                                                             *)

LEMMA TypedNext == ASSUME Typed, [Next]_vars PROVE Typed'
<1>1. TypeOK'
  BY TypeNext
<1>2. CallsOut'
  <2>1. ASSUME NEW w \in Workers, Sending(w) PROVE CallsOut'
    BY <2>1, SendsOne DEF Sending
  <2>2. ASSUME NEW w \in Workers, Settling(w) PROVE CallsOut'
    BY <2>2, SettlesOne DEF Settling
  <2>3. ASSUME NEW w \in Workers, Going(w) \/ Asking(w) PROVE CallsOut'
    BY <2>3, ElseTheCallsStay DEF Going, Asking
  <2>4. ASSUME NEW c \in Calls, Age(c) PROVE CallsOut'
    BY <2>4, AgesOne
  <2>5. CASE UNCHANGED vars
    BY <2>5 DEF vars, log, run, Typed, CallsOut, Calling, Out
  <2> QED
    BY <2>1, <2>2, <2>3, <2>4, <2>5, Kinds
<1> QED
  BY <1>1, <1>2 DEF Typed

LEMMA BudgetNext == ASSUME Typed, [Next]_vars, BudgetHeld PROVE BudgetHeld'
<1>1. BudgetHeld <=> Cardinality(Spent) <= Budget + Cardinality(Workers) - 1
  BY DEF BudgetHeld, Spent
<1>2. BudgetHeld' <=> Cardinality(Spent') <= Budget + Cardinality(Workers) - 1
  BY DEF BudgetHeld, Spent
<1>3. CASE Spent' \subseteq Spent
  <2>1. /\ Cardinality(Spent) \in Nat /\ Cardinality(Spent') \in Nat
        /\ Cardinality(Spent') <= Cardinality(Spent)
    BY <1>3, AllFinite, FS_Subset, FS_CardinalityType
  <2> QED
    BY <1>1, <1>2, <2>1, Numbers
<1>4. ASSUME NEW w \in Workers, Sending(w) PROVE BudgetHeld'
  <2>1. Spent' \subseteq Used \cup Out' /\ Cardinality(Used) < Budget
    BY <1>4, SendsOne DEF Sending, MayPay
  <2>2. IsFiniteSet(Out') /\ Cardinality(Out') \in Nat /\ Cardinality(Out') <= Cardinality(Workers)
    <3>1. Typed'
      BY TypedNext
    <3>2. (Cardinality(Out) <= Cardinality(Workers))'
      BY <3>1, FewOut, PTL
    <3>3. IsFiniteSet(Out')
      BY AcquisitionAssumption, FS_Subset DEF Out
    <3> QED
      BY <3>2, <3>3, FS_CardinalityType
  <2>3. /\ Cardinality(Used) \in Nat /\ Cardinality(Spent') \in Nat
        /\ Cardinality(Spent') <= Cardinality(Used) + Cardinality(Out')
    BY <2>1, <2>2, AllFinite, AtMostBoth
  <2> QED
    BY <1>2, <2>1, <2>2, <2>3, Numbers
<1>5. ASSUME NEW w \in Workers, Settling(w) PROVE BudgetHeld'
  BY <1>3, <1>5, SettlesOne DEF Settling
<1>6. ASSUME NEW w \in Workers, Going(w) \/ Asking(w) PROVE BudgetHeld'
  BY <1>3, <1>6 DEF Going, Asking, log, Spent
<1>7. ASSUME NEW c \in Calls, Age(c) PROVE BudgetHeld'
  BY <1>3, <1>7, AgesOne
<1>8. CASE UNCHANGED vars
  BY <1>3, <1>8 DEF vars, log, Spent
<1> QED
  BY <1>4, <1>5, <1>6, <1>7, <1>8, Kinds

LEMMA PaidNext == ASSUME Typed, [Next]_vars, NEW p \in Pages, FewPaid(p) PROVE FewPaid(p)'
<1>1. CASE Paid(p)' \subseteq Paid(p) /\ MayRead(p)' \subseteq MayRead(p)
  <2>1. Cardinality(Paid(p)) + Cardinality(MayRead(p)) <= Cardinality(Workers)
    BY DEF FewPaid
  <2>2. Cardinality(Paid(p)') + Cardinality(MayRead(p)') <= Cardinality(Workers)
    BY <1>1, <2>1, Numbers, AllFinite, NoMore
  <2> QED
    BY <2>2 DEF FewPaid
<1>2. ASSUME NEW w \in Workers, Sending(w) PROVE FewPaid(p)'
  <2>1. PICK what \in SUBSET Pages, place \in {"searching", "paying"} :
          /\ w \notin Calling
          /\ what = {} \/ (pc[w] = "unread" /\ what = rest[w])
          /\ Send(w, what, place) /\ UNCHANGED rest
    BY <1>2 DEF Sending
  <2>2. pc' = [pc EXCEPT ![w] = place]
    BY <2>1 DEF Send
  <2>3. MayRead(p)' \subseteq MayRead(p) \ {w}
    BY <2>1, <2>2 DEF MayRead, Typed, TypeOK
  <2>4. PICK c : \A q : Paid(q)' \subseteq (IF q \in what THEN Paid(q) \cup {c} ELSE Paid(q))
    BY <2>1, SendsOne
  <2>5. CASE p \notin what
    BY <1>1, <2>3, <2>4, <2>5
  <2>6. CASE p \in what
    <3>1. w \in MayRead(p)
      BY <2>1, <2>6 DEF MayRead
    <3>2. Paid(p)' \subseteq Paid(p) \cup {c}
      BY <2>4, <2>6
    <3>3. Cardinality(Paid(p)) + Cardinality(MayRead(p)) <= Cardinality(Workers)
      BY DEF FewPaid
    <3>4. Cardinality(Workers) \in Int /\ IsFiniteSet(Paid(p)) /\ IsFiniteSet(MayRead(p))
      BY Numbers, AllFinite
    <3>5. /\ Cardinality(Paid(p)) \in Nat /\ Cardinality(Paid(p)') \in Nat
          /\ Cardinality(Paid(p)') <= Cardinality(Paid(p)) + 1
      BY <3>2, <3>4, OneMore
    <3>6. /\ Cardinality(MayRead(p)) \in Nat /\ Cardinality(MayRead(p)') \in Nat
          /\ Cardinality(MayRead(p)') <= Cardinality(MayRead(p)) - 1
      BY <2>3, <3>1, <3>4, OneLess
    <3>7. Cardinality(Paid(p)') + Cardinality(MayRead(p)') <= Cardinality(Workers)
      BY <3>3, <3>4, <3>5, <3>6
    <3> QED
      BY <3>7 DEF FewPaid
  <2> QED
    BY <2>5, <2>6
<1>3. ASSUME NEW w \in Workers, Asking(w) PROVE FewPaid(p)'
  <2>1. Paid(p)' = Paid(p)
    BY <1>3 DEF Asking, log, Paid
  <2>2. CASE p \notin rest'[w]
    <3>1. MayRead(p)' \subseteq MayRead(p)
      BY <1>3, <2>2 DEF Asking, OnlyOf, MayRead, Typed, TypeOK
    <3> QED
      BY <1>1, <2>1, <3>1
  <2>3. CASE p \in rest'[w]
    <3>1. Paid(p) \subseteq Out
      BY <1>3, <2>3 DEF Asking, PaidBefore, Paid, Out
    <3>2. MayRead(p)' \subseteq MayRead(p) \cup {w} /\ MayRead(p) \cup {w} \subseteq Workers
      BY <1>3 DEF Asking, OnlyOf, MayRead, Typed, TypeOK
    <3>3. (MayRead(p) \cup {w}) \cap Calling = {}
      BY <1>3 DEF Asking, MayRead, Calling
    <3>4. Cardinality(Out) + Cardinality(MayRead(p) \cup {w}) <= Cardinality(Workers)
      BY <3>2, <3>3, OneOutEach
    <3>5. IsFiniteSet(Out) /\ IsFiniteSet(MayRead(p) \cup {w}) /\ Cardinality(Workers) \in Int
      BY <3>2, Numbers, AllFinite, AcquisitionAssumption, FS_Subset
    <3>6. Cardinality(Paid(p)') + Cardinality(MayRead(p)') <= Cardinality(Workers)
      BY <2>1, <3>1, <3>2, <3>4, <3>5, NoMore
    <3> QED
      BY <3>6 DEF FewPaid
  <2> QED
    BY <2>2, <2>3
<1>4. ASSUME NEW w \in Workers, Settling(w) PROVE FewPaid(p)'
  <2>1. MayRead(p)' \subseteq MayRead(p)
    BY <1>4 DEF Settling, OnlyOf, MayRead, Typed, TypeOK
  <2>2. Paid(p)' \subseteq Paid(p)
    BY <1>4, SettlesOne DEF Settling
  <2> QED
    BY <1>1, <2>1, <2>2
<1>5. ASSUME NEW w \in Workers, Going(w) PROVE FewPaid(p)'
  <2>1. MayRead(p)' \subseteq MayRead(p) /\ Paid(p)' = Paid(p)
    BY <1>5 DEF Going, log, OnlyOf, MayRead, Paid, Typed, TypeOK
  <2> QED
    BY <1>1, <2>1
<1>6. ASSUME NEW c \in Calls, Age(c) PROVE FewPaid(p)'
  <2>1. MayRead(p)' = MayRead(p)
    BY <1>6 DEF Age, run, MayRead
  <2> QED
    BY <1>1, <1>6, <2>1, AgesOne
<1>7. CASE UNCHANGED vars
  BY <1>1, <1>7 DEF vars, log, run, MayRead, Paid
<1> QED
  BY <1>2, <1>3, <1>4, <1>5, <1>6, <1>7, Kinds

LEMMA MissedNext == ASSUME Typed, [Next]_vars, NEW s, FewMissed(s), s \in {Site[p] : p \in Pages}
                    PROVE  FewMissed(s)'
<1> DEFINE N == ClosedAfter + Cardinality(Workers) - 1
<1>n. N \in Int
  BY Numbers
<1>f. Cardinality(Maybe(s)) + Cardinality(MayReadAt(s)) <= N
  BY DEF FewMissed
<1>g. Cardinality(Maybe(s)') + Cardinality(MayReadAt(s)') <= N => FewMissed(s)'
  BY DEF FewMissed
<1> HIDE DEF N
<1>1. CASE Maybe(s)' \subseteq Maybe(s) /\ MayReadAt(s)' \subseteq MayReadAt(s)
  BY <1>1, <1>n, <1>f, <1>g, AllFinite, NoMore
<1>2. ASSUME NEW w \in Workers, Sending(w) PROVE FewMissed(s)'
  <2>1. PICK what \in SUBSET Pages, place \in {"searching", "paying"} :
          /\ w \notin Calling
          /\ what = {} \/ (pc[w] = "unread" /\ what = rest[w])
          /\ Send(w, what, place) /\ UNCHANGED rest
    BY <1>2 DEF Sending
  <2>2. pc' = [pc EXCEPT ![w] = place]
    BY <2>1 DEF Send
  <2>3. MayReadAt(s)' \subseteq MayReadAt(s) \ {w}
    BY <2>1, <2>2 DEF MayReadAt, Typed, TypeOK
  <2>4. PICK c : \A t : Maybe(t)' \subseteq (IF \E p \in what : Site[p] = t
                                             THEN Maybe(t) \cup {c} ELSE Maybe(t))
    BY <2>1, SendsOne
  <2>5. CASE ~\E p \in what : Site[p] = s
    BY <1>1, <2>3, <2>4, <2>5
  <2>6. CASE \E p \in what : Site[p] = s
    <3>1. w \in MayReadAt(s)
      BY <2>1, <2>6 DEF MayReadAt
    <3>2. Maybe(s)' \subseteq Maybe(s) \cup {c}
      BY <2>4, <2>6
    <3>3. IsFiniteSet(Maybe(s)) /\ IsFiniteSet(MayReadAt(s))
      BY AllFinite
    <3>4. /\ Cardinality(Maybe(s)) \in Nat /\ Cardinality(Maybe(s)') \in Nat
          /\ Cardinality(Maybe(s)') <= Cardinality(Maybe(s)) + 1
      BY <3>2, <3>3, OneMore
    <3>5. /\ Cardinality(MayReadAt(s)) \in Nat /\ Cardinality(MayReadAt(s)') \in Nat
          /\ Cardinality(MayReadAt(s)') <= Cardinality(MayReadAt(s)) - 1
      BY <2>3, <3>1, <3>3, OneLess
    <3>6. Cardinality(Maybe(s)') + Cardinality(MayReadAt(s)') <= N
      BY <3>4, <3>5, <1>n, <1>f
    <3> QED
      BY <3>6, <1>g
  <2> QED
    BY <2>5, <2>6
<1>3. ASSUME NEW w \in Workers, Asking(w) PROVE FewMissed(s)'
  <2>1. Maybe(s)' = Maybe(s)
    BY <1>3 DEF Asking, log, Maybe
  <2>2. CASE ~\E p \in rest'[w] : Site[p] = s
    <3>1. MayReadAt(s)' \subseteq MayReadAt(s)
      BY <1>3, <2>2 DEF Asking, OnlyOf, MayReadAt, Typed, TypeOK
    <3> QED
      BY <1>1, <2>1, <3>1
  <2>3. CASE \E p \in rest'[w] : Site[p] = s
    <3>1. ~(Cardinality(Misses(s)) >= ClosedAfter)
      BY <1>3, <2>3 DEF Asking, ClosedSites
    <3>2. Cardinality(Missed(s)) \in Nat /\ Cardinality(Missed(s)) <= ClosedAfter - 1
      BY <3>1, MissesCounted, Numbers
    <3>3. Maybe(s) \subseteq Missed(s) \cup Out
      BY DEF Maybe, Missed, Out
    <3>4. /\ Cardinality(Out) \in Nat /\ Cardinality(Maybe(s)) \in Nat
          /\ Cardinality(Maybe(s)) <= Cardinality(Missed(s)) + Cardinality(Out)
      BY <3>3, AllFinite, AtMostBoth
    <3>5. MayReadAt(s)' \subseteq MayReadAt(s) \cup {w} /\ MayReadAt(s) \cup {w} \subseteq Workers
      BY <1>3 DEF Asking, OnlyOf, MayReadAt, Typed, TypeOK
    <3>6. (MayReadAt(s) \cup {w}) \cap Calling = {}
      BY <1>3 DEF Asking, MayReadAt, Calling
    <3>7. Cardinality(Out) + Cardinality(MayReadAt(s) \cup {w}) <= Cardinality(Workers)
      BY <3>5, <3>6, OneOutEach
    <3>8. IsFiniteSet(MayReadAt(s) \cup {w})
      BY AllFinite, FS_AddElement
    <3>9. /\ Cardinality(MayReadAt(s) \cup {w}) \in Nat /\ Cardinality(MayReadAt(s)') \in Nat
          /\ Cardinality(MayReadAt(s)') <= Cardinality(MayReadAt(s) \cup {w})
      BY <3>5, <3>8, FS_Subset, FS_CardinalityType
    <3>10. Cardinality(Maybe(s)) + Cardinality(MayReadAt(s)') <= N
      BY <3>2, <3>4, <3>7, <3>9, Numbers DEF N
    <3> QED
      BY <2>1, <3>10, <1>g
  <2> QED
    BY <2>2, <2>3
<1>4. ASSUME NEW w \in Workers, Settling(w) PROVE FewMissed(s)'
  <2>1. MayReadAt(s)' \subseteq MayReadAt(s)
    BY <1>4 DEF Settling, OnlyOf, MayReadAt, Typed, TypeOK
  <2>2. Maybe(s)' \subseteq Maybe(s)
    BY <1>4, SettlesOne DEF Settling
  <2> QED
    BY <1>1, <2>1, <2>2
<1>5. ASSUME NEW w \in Workers, Going(w) PROVE FewMissed(s)'
  <2>1. MayReadAt(s)' \subseteq MayReadAt(s) /\ Maybe(s)' = Maybe(s)
    BY <1>5 DEF Going, log, OnlyOf, MayReadAt, Maybe, Typed, TypeOK
  <2> QED
    BY <1>1, <2>1
<1>6. ASSUME NEW c \in Calls, Age(c) PROVE FewMissed(s)'
  <2>1. MayReadAt(s)' = MayReadAt(s)
    BY <1>6 DEF Age, run, MayReadAt
  <2> QED
    BY <1>1, <1>6, <2>1, AgesOne
<1>7. CASE UNCHANGED vars
  BY <1>1, <1>7 DEF vars, log, run, MayReadAt, Maybe
<1> QED
  BY <1>2, <1>3, <1>4, <1>5, <1>6, <1>7, Kinds
-----------------------------------------------------------------------------
(* The theorems.                                                           *)

LEMMA FewInitially == Init => IInv
<1> SUFFICES ASSUME Init PROVE IInv
  OBVIOUS
<1>1. Typed
  BY TypeInitially
<1>2. /\ Spent = {}
      /\ \A p : Paid(p) = {} /\ MayRead(p) = {}
      /\ \A s : Maybe(s) = {} /\ MayReadAt(s) = {}
  BY DEF Init, Spent, Paid, MayRead, Maybe, MayReadAt
<1>3. Cardinality({}) = 0 /\ Cardinality(Workers) >= 1
  BY AcquisitionAssumption, FS_EmptySet, FS_CardinalityType
<1>4. /\ Cardinality(Workers) \in Nat /\ Budget \in Nat /\ ClosedAfter \in Nat \ {0}
  BY AcquisitionAssumption, Numbers
<1>5. BudgetHeld
  BY <1>2, <1>3, <1>4 DEF BudgetHeld, Spent
<1>6. \A p \in Pages : FewPaid(p)
  BY <1>2, <1>3, <1>4 DEF FewPaid
<1>7. \A p \in Pages : FewMissed(Site[p])
  BY <1>2, <1>3, <1>4 DEF FewMissed
<1> QED
  BY <1>1, <1>5, <1>6, <1>7 DEF IInv

(* The inductive invariant holds of every reachable state. *)
THEOREM Invariance == Spec => []IInv
<1>1. Init => IInv
  BY FewInitially
<1>2. IInv /\ [Next]_vars => IInv'
  <2> SUFFICES ASSUME IInv, [Next]_vars PROVE IInv'
    OBVIOUS
  <2>1. Typed' /\ BudgetHeld'
    BY TypedNext, BudgetNext DEF IInv
  <2>2. \A p \in Pages : FewPaid(p)'
    BY PaidNext DEF IInv
  <2>3. \A p \in Pages : FewMissed(Site[p])'
    BY MissedNext DEF IInv
  <2> QED
    BY <2>1, <2>2, <2>3 DEF IInv
<1> QED
  BY <1>1, <1>2, PTL DEF Spec

(* The state has its type: above all, a run of a job makes no more paid    *)
(* calls than MAX_PAID_PER_RUN (Acquisition._call).                        *)
THEOREM Typing == Spec => []TypeOK
<1>1. IInv => TypeOK
  BY DEF IInv, Typed
<1> QED
  BY <1>1, Invariance, PTL

(* However many workers read the budget before any has recorded its call,  *)
(* the calls of the last day exceed it by one for every worker but one.    *)
THEOREM WithinBudget == Spec => []BudgetHeld
<1>1. IInv => BudgetHeld
  BY DEF IInv
<1> QED
  BY <1>1, Invariance, PTL

(* A page is paid for once in seven days by each worker at most.           *)
THEOREM ReadOnce == Spec => []PaidOnce
<1>1. IInv => PaidOnce
  <2> SUFFICES ASSUME IInv, NEW p \in Pages
               PROVE  Cardinality(Paid(p)) <= Cardinality(Workers)
    BY DEF PaidOnce, Paid
  <2>1. Cardinality(Paid(p)) + Cardinality(MayRead(p)) <= Cardinality(Workers)
    BY DEF IInv, FewPaid
  <2>2. Cardinality(Paid(p)) \in Nat /\ Cardinality(MayRead(p)) \in Nat
    BY AllFinite, FS_CardinalityType
  <2> QED
    BY <2>1, <2>2, Numbers
<1> QED
  BY <1>1, Invariance, PTL

(* A site where paying found nothing often enough is not paid for again.   *)
THEOREM LeftForGood == Spec => []ClosedForGood
<1>1. IInv => ClosedForGood
  <2> SUFFICES ASSUME IInv, NEW q \in Pages
               PROVE  Cardinality(Missed(Site[q])) <= ClosedAfter + Cardinality(Workers) - 1
    BY DEF ClosedForGood, Missed
  <2> DEFINE s == Site[q]
  <2>1. Cardinality(Maybe(s)) + Cardinality(MayReadAt(s)) <= ClosedAfter + Cardinality(Workers) - 1
    BY DEF IInv, FewMissed
  <2>2. /\ Cardinality(Maybe(s)) \in Nat /\ Cardinality(MayReadAt(s)) \in Nat
        /\ Cardinality(Missed(s)) \in Nat /\ Cardinality(Missed(s)) <= Cardinality(Maybe(s))
    <3>1. Missed(s) \subseteq Maybe(s)
      BY DEF Missed, Maybe
    <3> QED
      BY <3>1, AllFinite, FS_Subset, FS_CardinalityType
  <2> QED
    BY <2>1, <2>2, Numbers
<1> QED
  BY <1>1, Invariance, PTL
=============================================================================
