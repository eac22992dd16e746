----------------------------- MODULE GoalsProofs -----------------------------
(***************************************************************************)
(* Proofs about Goals, for any number of planners, goals and programs.     *)
(***************************************************************************)
EXTENDS Goals, FiniteSetTheorems, TLAPS

(* A plan has closed no goal before it persists. *)
NoneClosedYet == \A w \in Planners : pc[w] # "persisting" => closed[w] = {}

(* The plans that may still propose a program, and those that may still    *)
(* add a goal with statement s.                                            *)
MayStillPropose == {w \in Planners : pc[w] = "planning" /\ ~readWaiting[w]}
MayStillAdd(s)  ==
    {w \in Planners : pc[w] # "idle" /\ \A g \in readGoals[w] : Statement[g] # s}

Pursued(s) == {g \in Active : Statement[g] = s}

(* What there is and what may still be added together are no more than the *)
(* planners: a plan that begins when there is something adds nothing, and  *)
(* one that adds something may not do so again.                            *)
FewProposals == Cardinality(Waiting) + Cardinality(MayStillPropose) <= Cardinality(Planners)

FewGoals(s) == Cardinality(Pursued(s)) + Cardinality(MayStillAdd(s)) <= Cardinality(Planners)

(* The open programs that investigate a target, and the plans that may     *)
(* still give it to one more: those that know of none that has it.         *)
Taken(t) == {p \in Open : t \in TargetsOf(p)}
MayStillTake(t) ==
    {w \in Planners : pc[w] # "idle" /\ \A q \in Known(w) : t \notin TargetsOf(q)}

FewPrograms(t) ==
    Cardinality(Taken(t)) + Cardinality(MayStillTake(t)) <= Cardinality(Planners)

Typed == TypeOK /\ NoneClosedYet

(* Goals link to programs there are, and a goal that a plan works on to    *)
(* one that the plan knows, unless it is closed: no plan gives targets to  *)
(* an open program that it does not know.                                  *)
Linked ==
    /\ \A g \in Goals : goal[g] = Absent => program[g] = NoProgram
    /\ \A g \in Goals : program[g] # NoProgram => status[program[g]] # Absent
    /\ \A w \in Planners :
          /\ pc[w] # "persisting" => new[w] = NoProgram
          /\ \A p \in Known(w) : status[p] # Absent
          /\ \A g \in readGoals[w] :
                /\ goal[g] # Absent
                /\ \/ program[g] \in Known(w) \cup {NoProgram}
                   \/ status[program[g]] = "closed"

(* The inductive invariant. *)
IInv ==
    /\ Typed
    /\ Linked
    /\ FewProposals
    /\ \A g \in Goals : FewGoals(Statement[g])
    /\ \A t \in Targets : FewPrograms(t)
-----------------------------------------------------------------------------
(* Typing.                                                                 *)

LEMMA TypedInitially == Init => Typed
<1> SUFFICES ASSUME Init PROVE Typed
  OBVIOUS
<1>1. NoLinks \in [Goals -> SUBSET Targets] /\ 0 \in 0..MaxPlans
  BY GoalsAssumption DEF NoLinks
<1> QED
  BY <1>1 DEF Init, Typed, TypeOK, NoneClosedYet, GoalStates, ProgramStates, Absent

LEMMA ForgetsTyped ==
    ASSUME Typed, NEW w \in Planners, Forgets(w), UNCHANGED <<rows, decided, plans>>
    PROVE  Typed'
<1>1. NoLinks \in [Goals -> SUBSET Targets]
  BY DEF NoLinks
<1> QED
  BY <1>1 DEF Forgets, rows, Typed, TypeOK, NoneClosedYet

LEMMA TypedNext == ASSUME Typed, [Next]_vars PROVE Typed'
<1>1. ASSUME NEW w \in Planners, PlanReads(w) PROVE Typed'
  <2>1. plans' \in 0..MaxPlans
    BY <1>1, GoalsAssumption DEF PlanReads, Typed, TypeOK
  <2>2. [g \in Goals |-> IF g \in Active THEN about[g] ELSE {}] \in [Goals -> SUBSET Targets]
    BY DEF Typed, TypeOK
  <2>3. readAbout' \in [Planners -> [Goals -> SUBSET Targets]]
    BY <1>1, <2>2 DEF PlanReads, Typed, TypeOK
  <2> QED
    BY <1>1, <2>1, <2>3 DEF PlanReads, Typed, TypeOK, NoneClosedYet, rows, local, Active, Open, Closed
<1>2. ASSUME NEW w \in Planners, PlanFails(w) \/ PlanEnds(w) PROVE Typed'
  BY <1>2, ForgetsTyped DEF PlanFails, PlanEnds
<1>3. ASSUME NEW w \in Planners, PlanCloses(w) PROVE Typed'
  <2>1. PICK dropped \in SUBSET MayAbandon(w) :
           /\ goal' = [g \in Goals |-> IF g \in dropped THEN "abandoned"
                                       ELSE IF g \in Finished(w) THEN "achieved"
                                       ELSE goal[g]]
           /\ closed' = [closed EXCEPT ![w] = Finished(w) \cup dropped]
    BY <1>3 DEF PlanCloses, SetGoalStatus, AddProgram
  <2>2. Finished(w) \cup dropped \subseteq readGoals[w] /\ readGoals[w] \subseteq Goals
    BY <2>1 DEF MayAbandon, Finished, Typed, TypeOK
  <2>3. goal' \in [Goals -> GoalStates] /\ closed' \in [Planners -> SUBSET Goals]
    BY <2>1, <2>2 DEF GoalStates, Typed, TypeOK
  <2>4. /\ status' \in [Programs -> ProgramStates]
        /\ new' \in [Planners -> Programs \cup {NoProgram}]
        /\ meant' \in [Planners -> SUBSET Targets]
    <3>1. /\ status \in [Programs -> ProgramStates] /\ readOpen[w] \subseteq Programs
          /\ new \in [Planners -> Programs \cup {NoProgram}]
          /\ meant \in [Planners -> SUBSET Targets]
      BY DEF Typed, TypeOK
    <3>2. CASE /\ \E p \in readOpen[w] \cup {NoProgram} : new' = [new EXCEPT ![w] = p]
               /\ UNCHANGED <<status, meant>>
      BY <3>1, <3>2
    <3>3. ASSUME NEW p \in Programs, NEW targets \in SUBSET Targets,
                 status' = [status EXCEPT ![p] = "proposed"],
                 new' = [new EXCEPT ![w] = p], meant' = [meant EXCEPT ![w] = targets]
          PROVE  /\ status' \in [Programs -> ProgramStates]
                 /\ new' \in [Planners -> Programs \cup {NoProgram}]
                 /\ meant' \in [Planners -> SUBSET Targets]
      BY <3>1, <3>3 DEF ProgramStates
    <3> QED
      BY <1>3, <3>2, <3>3 DEF PlanCloses, SetGoalStatus, AddProgram
  <2>5. NoLinks \in [Goals -> SUBSET Targets]
    BY DEF NoLinks
  <2>6. /\ readAbout' \in [Planners -> [Goals -> SUBSET Targets]]
        /\ readWaiting' \in [Planners -> BOOLEAN] /\ readClosed' \in [Planners -> SUBSET Programs]
        /\ pc' \in [Planners -> {"idle", "planning", "persisting"}]
    BY <1>3, <2>5 DEF PlanCloses, SetGoalStatus, AddProgram, Typed, TypeOK
  <2>7. /\ \A v \in Planners : pc'[v] = "idle" => readGoals'[v] = {}
        /\ \A v \in Planners : closed'[v] \subseteq readGoals'[v]
        /\ NoneClosedYet'
    BY <1>3, <2>1, <2>2 DEF PlanCloses, SetGoalStatus, AddProgram, Typed, TypeOK, NoneClosedYet
  <2>8. UNCHANGED <<program, about, decided, plans, readGoals, readOpen>>
    BY <1>3 DEF PlanCloses, SetGoalStatus, AddProgram
  <2> QED
    BY <2>3, <2>4, <2>6, <2>7, <2>8 DEF Typed, TypeOK
<1>4. ASSUME NEW w \in Planners, NEW g \in Goals, PlanAddsGoal(w, g) PROVE Typed'
  <2>1. \A p \in Programs \cup {NoProgram}, targets \in SUBSET Targets :
           Free(w, p, targets) \in SUBSET Targets
    BY DEF Free
  <2>2. Known(w) \subseteq Programs
    BY DEF Known, Typed, TypeOK
  <2>3. program' \in [Goals -> Programs \cup {NoProgram}] /\ about' \in [Goals -> SUBSET Targets]
    <3>1. PICK p \in Known(w) \cup {NoProgram}, targets \in SUBSET Targets :
             /\ program' = [program EXCEPT ![g] = p]
             /\ about'   = [about EXCEPT ![g] = Free(w, p, targets)]
      BY <1>4 DEF PlanAddsGoal, AddGoal
    <3> QED
      BY <2>1, <2>2, <3>1 DEF Typed, TypeOK
  <2>4. goal' \in [Goals -> GoalStates] /\ readGoals' \in [Planners -> SUBSET Goals]
    BY <1>4 DEF PlanAddsGoal, AddGoal, GoalStates, Typed, TypeOK
  <2>5. \A v \in Planners : /\ pc[v] = "idle" => readGoals'[v] = {}
                            /\ closed[v] \subseteq readGoals'[v]
    BY <1>4 DEF PlanAddsGoal, AddGoal, Typed, TypeOK
  <2> QED
    BY <1>4, <2>3, <2>4, <2>5 DEF PlanAddsGoal, AddGoal, Typed, TypeOK, NoneClosedYet, local
<1>5. ASSUME NEW w \in Planners, NEW g \in Goals, PlanContinuesGoal(w, g) PROVE Typed'
  <2>1. \A p \in Programs \cup {NoProgram}, targets \in SUBSET Targets :
           Free(w, p, targets) \in SUBSET Targets
    BY DEF Free
  <2>2. about' \in [Goals -> SUBSET Targets]
    <3>1. PICK targets \in SUBSET (Targets \ about[g]) :
             about' = [about EXCEPT ![g] = @ \cup Free(w, program[g], targets)]
      BY <1>5 DEF PlanContinuesGoal
    <3>2. about \in [Goals -> SUBSET Targets] /\ program[g] \in Programs \cup {NoProgram}
      BY DEF Typed, TypeOK
    <3>3. Free(w, program[g], targets) \in SUBSET Targets
      BY <2>1, <3>2
    <3> QED
      BY <3>1, <3>2, <3>3
  <2> QED
    BY <1>5, <2>2 DEF PlanContinuesGoal, Typed, TypeOK, NoneClosedYet, read, local
<1>6. ASSUME NEW p \in Programs, NEW as \in {"active", "closed"}, Withdraw(p) \/ Resolve(p, as)
      PROVE  Typed'
  <2>1. status' \in [Programs -> ProgramStates]
    <3>1. status \in [Programs -> ProgramStates]
      BY DEF Typed, TypeOK
    <3>2. CASE Withdraw(p)
      BY <3>1, <3>2 DEF Withdraw, ProgramStates
    <3>3. CASE Resolve(p, as)
      BY <3>1, <3>3 DEF Resolve, ProgramStates
    <3> QED
      BY <1>6, <3>2, <3>3
  <2>2. UNCHANGED <<goal, program, about, decided, plans, pc, read, local>>
    BY <1>6 DEF Withdraw, Resolve
  <2> QED
    BY <2>1, <2>2 DEF Typed, TypeOK, NoneClosedYet, read, local
<1>7. ASSUME NEW h \in Hypotheses, Decide(h) PROVE Typed'
  BY <1>7 DEF Decide, Typed, TypeOK, NoneClosedYet, rows, read, local
<1>8. CASE UNCHANGED vars
  BY <1>8 DEF vars, Typed, TypeOK, NoneClosedYet, rows, read, local
<1> QED
  BY <1>1, <1>2, <1>3, <1>4, <1>5, <1>6, <1>7, <1>8 DEF Next, Plan
-----------------------------------------------------------------------------
(* Links. *)

LEMMA LinkedInitially == Init => Linked
BY DEF Init, Linked, Known, Absent

LEMMA LinkedNext == ASSUME Typed, Linked, [Next]_vars PROVE Linked'
<1> USE GoalsAssumption DEF Absent
<1>1. ASSUME NEW w \in Planners, PlanReads(w) PROVE Linked'
  <2>1. /\ UNCHANGED <<goal, program, status, new>>
        /\ pc' = [pc EXCEPT ![w] = "planning"]
        /\ readGoals' = [readGoals EXCEPT ![w] = Active]
        /\ readOpen' = [readOpen EXCEPT ![w] = Open]
    BY <1>1 DEF PlanReads, rows, local
  <2>2. pc[w] # "persisting"
    BY <1>1 DEF PlanReads
  <2>3. new[w] = NoProgram
    BY <2>2 DEF Linked
  <2>4. Known(w)' = Open /\ \A v \in Planners \ {w} : Known(v)' = Known(v)
    BY <2>1, <2>3 DEF Known, Typed, TypeOK
  <2>5. \A g \in Active : program[g] \in Open \cup {NoProgram} \/ status[program[g]] = "closed"
    BY DEF Active, Open, Linked, Typed, TypeOK, ProgramStates
  <2>6. /\ pc'[w] # "persisting" => new'[w] = NoProgram
        /\ \A p \in Known(w)' : status'[p] # Absent
        /\ \A g \in readGoals'[w] :
              /\ goal'[g] # Absent
              /\ program'[g] \in Known(w)' \cup {NoProgram} \/ status'[program'[g]] = "closed"
    BY <2>1, <2>3, <2>4, <2>5 DEF Active, Open, Typed, TypeOK
  <2>7. \A v \in Planners \ {w} : pc'[v] = pc[v] /\ readGoals'[v] = readGoals[v]
    BY <2>1 DEF Typed, TypeOK
  <2> QED
    BY <2>1, <2>4, <2>6, <2>7 DEF Linked
<1>2. ASSUME NEW w \in Planners, PlanFails(w) \/ PlanEnds(w) PROVE Linked'
  <2>1. /\ UNCHANGED <<goal, program, status>>
        /\ pc' = [pc EXCEPT ![w] = "idle"]
        /\ readGoals' = [readGoals EXCEPT ![w] = {}]
        /\ readOpen' = [readOpen EXCEPT ![w] = {}]
        /\ new' = [new EXCEPT ![w] = NoProgram]
    BY <1>2 DEF PlanFails, PlanEnds, Forgets, rows
  <2>2. Known(w)' = {} /\ \A v \in Planners \ {w} : Known(v)' = Known(v)
    BY <2>1 DEF Known, Typed, TypeOK
  <2>3. new'[w] = NoProgram /\ readGoals'[w] = {}
    BY <2>1 DEF Typed, TypeOK
  <2>4. \A v \in Planners \ {w} : pc'[v] = pc[v] /\ readGoals'[v] = readGoals[v]
                                  /\ new'[v] = new[v]
    BY <2>1 DEF Typed, TypeOK
  <2> QED
    BY <2>1, <2>2, <2>3, <2>4 DEF Linked
<1>3. ASSUME NEW w \in Planners, PlanCloses(w) PROVE Linked'
  <2>1. /\ UNCHANGED <<program, readGoals, readOpen>>
        /\ pc[w] = "planning" /\ pc' = [pc EXCEPT ![w] = "persisting"]
        /\ \A g \in Goals : goal'[g] = Absent <=> goal[g] = Absent
    <3>1. PICK dropped \in SUBSET MayAbandon(w) : SetGoalStatus(Finished(w), dropped)
      BY <1>3 DEF PlanCloses
    <3>2. dropped \subseteq readGoals[w] /\ Finished(w) \subseteq readGoals[w]
      BY <3>1 DEF MayAbandon, Finished
    <3>3. \A g \in readGoals[w] : goal[g] # Absent
      BY DEF Linked
    <3>4. \A g \in Goals : goal'[g] = Absent <=> goal[g] = Absent
      BY <3>1, <3>2, <3>3 DEF SetGoalStatus
    <3> QED
      BY <1>3, <3>4 DEF PlanCloses
  <2>2. new[w] = NoProgram
    BY <2>1 DEF Linked
  <2>3. PICK p \in Programs \cup {NoProgram} :
           /\ new' = [new EXCEPT ![w] = p]
           /\ \/ status' = status /\ p \in readOpen[w] \cup {NoProgram}
              \/ /\ p \in Programs /\ status[p] = Absent
                 /\ status' = [status EXCEPT ![p] = "proposed"]
    <3>1. readOpen[w] \subseteq Programs
      BY DEF Typed, TypeOK
    <3> QED
      BY <1>3, <3>1 DEF PlanCloses, AddProgram
  <2>4. /\ Known(w) \subseteq Known(w)' /\ Known(w)' \subseteq Known(w) \cup ({p} \ {NoProgram})
        /\ \A v \in Planners \ {w} : Known(v)' = Known(v)
    BY <2>1, <2>2, <2>3 DEF Known, Typed, TypeOK
  <2>5. \A q \in Programs : /\ status[q] # Absent => status'[q] = status[q]
                            /\ status[q] = Absent => q = p \/ status'[q] = Absent
    BY <2>3 DEF Typed, TypeOK
  <2>6. p # NoProgram => status'[p] # Absent
    <3>1. p \in readOpen[w] => p \in Known(w)
      BY DEF Known
    <3> QED
      BY <2>3, <3>1 DEF Linked, Typed, TypeOK
  <2>7. \A q \in Programs : status[q] # Absent => status'[q] # Absent
    BY <2>5
  <2>8. \A v \in Planners : Known(v) \subseteq Programs /\ readGoals[v] \subseteq Goals
    BY DEF Known, Typed, TypeOK
  <2>9. \A g \in Goals : program[g] \in Programs \cup {NoProgram}
    BY DEF Typed, TypeOK
  <2>10. \A v \in Planners : /\ pc'[v] # "persisting" => new'[v] = NoProgram
                             /\ Known(v) \subseteq Known(v)'
    BY <2>1, <2>3, <2>4 DEF Linked, Typed, TypeOK
  <2>11. \A v \in Planners : \A q \in Known(v)' : status'[q] # Absent
    BY <2>4, <2>6, <2>7, <2>8 DEF Linked
  <2>12. \A v \in Planners : \A g \in readGoals[v] :
           /\ goal'[g] # Absent
           /\ program[g] \in Known(v)' \cup {NoProgram} \/ status'[program[g]] = "closed"
    <3> SUFFICES ASSUME NEW v \in Planners, NEW g \in readGoals[v]
                 PROVE  /\ goal'[g] # Absent
                        /\ \/ program[g] \in Known(v)' \cup {NoProgram}
                           \/ status'[program[g]] = "closed"
      OBVIOUS
    <3>1. g \in Goals /\ goal[g] # Absent
      BY <2>8 DEF Linked
    <3>2. program[g] \in Known(v) \cup {NoProgram} \/ status[program[g]] = "closed"
      BY DEF Linked
    <3> QED
      BY <2>1, <2>5, <2>9, <2>10, <3>1, <3>2
  <2> QED
    BY <2>1, <2>7, <2>9, <2>10, <2>11, <2>12 DEF Linked
<1>4. ASSUME NEW w \in Planners, NEW g \in Goals, PlanAddsGoal(w, g) PROVE Linked'
  <2>1. /\ goal[g] = Absent /\ goal' = [goal EXCEPT ![g] = "active"]
        /\ UNCHANGED <<status, pc, readOpen, new>>
        /\ readGoals' = [readGoals EXCEPT ![w] = @ \cup {g}]
    BY <1>4 DEF PlanAddsGoal, NewGoal, AddGoal, local
  <2>2. PICK p \in Known(w) \cup {NoProgram} : program' = [program EXCEPT ![g] = p]
    BY <1>4 DEF PlanAddsGoal, AddGoal
  <2>3. \A v \in Planners : Known(v)' = Known(v)
    BY <2>1 DEF Known
  <2>4. p # NoProgram => status[p] # Absent
    BY <2>2 DEF Linked
  <2>5. /\ \A x \in Goals : goal'[x] = Absent => program'[x] = NoProgram
        /\ \A x \in Goals : program'[x] # NoProgram => status[program'[x]] # Absent
    BY <2>1, <2>2, <2>4 DEF Linked, Typed, TypeOK
  <2>6. \A v \in Planners : \A x \in readGoals[v] :
           x \in Goals /\ x # g /\ program'[x] = program[x] /\ goal'[x] = goal[x]
    BY <2>1, <2>2 DEF Linked, Typed, TypeOK
  <2>7. \A v \in Planners : \A x \in readGoals'[v] : x \in readGoals[v] \/ (v = w /\ x = g)
    BY <2>1 DEF Typed, TypeOK
  <2>8. goal'[g] # Absent /\ program'[g] = p
    BY <2>1, <2>2 DEF Typed, TypeOK
  <2> QED
    BY <2>1, <2>2, <2>3, <2>5, <2>6, <2>7, <2>8 DEF Linked
<1>5. ASSUME NEW p \in Programs, NEW as \in {"active", "closed"}, Withdraw(p) \/ Resolve(p, as)
      PROVE  Linked'
  <2>1. /\ UNCHANGED <<goal, program, pc, readGoals, readOpen, new>>
        /\ status[p] \in {"proposed", "active"}
        /\ status' = [status EXCEPT ![p] = "closed"] \/ status' = [status EXCEPT ![p] = "active"]
    BY <1>5 DEF Withdraw, Resolve, read, local
  <2>2. \A q \in Programs : /\ status'[q] = Absent <=> status[q] = Absent
                            /\ status[q] = "closed" => status'[q] = "closed"
    BY <2>1 DEF Typed, TypeOK
  <2>3. \A v \in Planners : /\ Known(v)' = Known(v) /\ Known(v) \subseteq Programs
                            /\ readGoals[v] \subseteq Goals
    BY <2>1 DEF Known, Typed, TypeOK
  <2>4. \A g \in Goals : program[g] \in Programs \cup {NoProgram}
    BY DEF Typed, TypeOK
  <2> QED
    BY <2>1, <2>2, <2>3, <2>4 DEF Linked
<1>6. CASE UNCHANGED <<goal, program, status, pc, readGoals, readOpen, new>>
  BY <1>6 DEF Linked, Known
<1> QED
  BY <1>1, <1>2, <1>3, <1>4, <1>5, <1>6
     DEF Next, Plan, PlanContinuesGoal, Decide, vars, rows, read, local
-----------------------------------------------------------------------------
(* Counting. A is what there is, B those who may still add to it.          *)

LEMMA NoMore ==
    ASSUME NEW A, NEW B, NEW A2, NEW B2, NEW N \in Nat, IsFiniteSet(A), IsFiniteSet(B),
           A2 \subseteq A, B2 \subseteq B, Cardinality(A) + Cardinality(B) <= N
    PROVE  Cardinality(A2) + Cardinality(B2) <= N
<1>1. /\ Cardinality(A2) \in Nat /\ Cardinality(A) \in Nat /\ Cardinality(A2) <= Cardinality(A)
      /\ Cardinality(B2) \in Nat /\ Cardinality(B) \in Nat /\ Cardinality(B2) <= Cardinality(B)
  BY FS_Subset, FS_CardinalityType
<1> QED
  BY <1>1

LEMMA OneMore ==
    ASSUME NEW A, NEW A2, NEW a, IsFiniteSet(A), A2 \subseteq A \cup {a}
    PROVE  /\ Cardinality(A) \in Nat /\ Cardinality(A2) \in Nat
           /\ Cardinality(A2) <= Cardinality(A) + 1
<1>1. /\ IsFiniteSet(A \cup {a}) /\ Cardinality(A) \in Nat
      /\ Cardinality(A \cup {a}) \in {Cardinality(A), Cardinality(A) + 1}
  BY FS_AddElement, FS_CardinalityType
<1>2. /\ Cardinality(A2) \in Nat /\ Cardinality(A2) <= Cardinality(A \cup {a})
  BY <1>1, FS_Subset, FS_CardinalityType
<1> QED
  BY <1>1, <1>2

LEMMA OneLess ==
    ASSUME NEW B, NEW B2, NEW b \in B, IsFiniteSet(B), B2 \subseteq B \ {b}
    PROVE  /\ Cardinality(B) \in Nat /\ Cardinality(B2) \in Nat
           /\ Cardinality(B2) <= Cardinality(B) - 1
<1>1. /\ IsFiniteSet(B \ {b}) /\ Cardinality(B) \in Nat
      /\ Cardinality(B \ {b}) = Cardinality(B) - 1
  BY FS_RemoveElement, FS_CardinalityType
<1>2. /\ Cardinality(B2) \in Nat /\ Cardinality(B2) <= Cardinality(B \ {b})
  BY <1>1, FS_Subset, FS_CardinalityType
<1> QED
  BY <1>1, <1>2

LEMMA NoneYet ==
    ASSUME NEW B2 \in SUBSET Planners
    PROVE  Cardinality({}) + Cardinality(B2) <= Cardinality(Planners)
<1>1. /\ Cardinality(B2) \in Nat /\ Cardinality(B2) <= Cardinality(Planners)
      /\ Cardinality(Planners) \in Nat /\ Cardinality({}) = 0
  BY GoalsAssumption, FS_Subset, FS_CardinalityType, FS_EmptySet
<1> QED
  BY <1>1

LEMMA AllFinite ==
    /\ Cardinality(Planners) \in Nat
    /\ IsFiniteSet(Waiting) /\ IsFiniteSet(MayStillPropose)
    /\ \A s : IsFiniteSet(Pursued(s)) /\ IsFiniteSet(MayStillAdd(s))
    /\ \A t : IsFiniteSet(Taken(t)) /\ IsFiniteSet(MayStillTake(t))
BY GoalsAssumption, FS_Subset, FS_CardinalityType
   DEF Waiting, MayStillPropose, Pursued, Active, MayStillAdd, Taken, Open, MayStillTake

LEMMA FewInitially == Init => FewProposals /\ \A g \in Goals : FewGoals(Statement[g])
<1> SUFFICES ASSUME Init PROVE FewProposals /\ \A g \in Goals : FewGoals(Statement[g])
  OBVIOUS
<1>1. Waiting = {} /\ MayStillPropose = {}
  BY DEF Init, Waiting, MayStillPropose, Absent
<1>2. \A s : Pursued(s) = {} /\ MayStillAdd(s) = {}
  BY DEF Init, Pursued, Active, MayStillAdd, Absent
<1> QED
  BY <1>1, <1>2, NoneYet DEF FewProposals, FewGoals

LEMMA ProposalsNext ==
    ASSUME Typed, [Next]_vars, FewProposals
    PROVE  FewProposals'
<1>1. CASE Waiting' \subseteq Waiting /\ MayStillPropose' \subseteq MayStillPropose
  BY <1>1, AllFinite, NoMore DEF FewProposals
<1>2. ASSUME NEW w \in Planners, PlanReads(w) PROVE FewProposals'
  <2>1. Waiting' = Waiting
    BY <1>2 DEF PlanReads, rows, Waiting
  <2>2. CASE Waiting = {}
    BY <2>1, <2>2, NoneYet DEF FewProposals, MayStillPropose
  <2>3. CASE Waiting # {}
    <3>1. MayStillPropose' \subseteq MayStillPropose
      BY <1>2, <2>3 DEF PlanReads, MayStillPropose, Typed, TypeOK
    <3> QED
      BY <1>1, <2>1, <3>1
  <2> QED
    BY <2>2, <2>3
<1>3. ASSUME NEW w \in Planners, PlanFails(w) \/ PlanEnds(w) PROVE FewProposals'
  <2>1. Waiting' = Waiting
    BY <1>3 DEF PlanFails, PlanEnds, rows, Waiting
  <2>2. MayStillPropose' \subseteq MayStillPropose
    BY <1>3 DEF PlanFails, PlanEnds, Forgets, MayStillPropose, Typed, TypeOK
  <2> QED
    BY <1>1, <2>1, <2>2
<1>4. ASSUME NEW w \in Planners, PlanCloses(w) PROVE FewProposals'
  <2>1. MayStillPropose' \subseteq MayStillPropose \ {w}
    BY <1>4 DEF PlanCloses, SetGoalStatus, AddProgram, MayStillPropose, Typed, TypeOK
  <2>2. CASE status' = status
    BY <1>1, <2>1, <2>2 DEF Waiting
  <2>3. ASSUME NEW p \in Programs, ~readWaiting[w], status' = [status EXCEPT ![p] = "proposed"]
        PROVE  FewProposals'
    <3>1. Waiting' \subseteq Waiting \cup {p}
      BY <2>3 DEF Waiting, Typed, TypeOK
    <3>2. w \in MayStillPropose
      BY <1>4, <2>3 DEF PlanCloses, SetGoalStatus, AddProgram, MayStillPropose
    <3>3. /\ Cardinality(Planners) \in Nat
          /\ IsFiniteSet(Waiting) /\ IsFiniteSet(MayStillPropose)
      BY AllFinite
    <3>4. Cardinality(Waiting) + Cardinality(MayStillPropose) <= Cardinality(Planners)
      BY DEF FewProposals
    <3>5. /\ Cardinality(Waiting) \in Nat /\ Cardinality(Waiting') \in Nat
          /\ Cardinality(Waiting') <= Cardinality(Waiting) + 1
      BY <3>1, <3>3, OneMore
    <3>6. /\ Cardinality(MayStillPropose) \in Nat /\ Cardinality(MayStillPropose') \in Nat
          /\ Cardinality(MayStillPropose') <= Cardinality(MayStillPropose) - 1
      BY <2>1, <3>2, <3>3, OneLess
    <3>7. Cardinality(Waiting') + Cardinality(MayStillPropose') <= Cardinality(Planners)
      BY <3>3, <3>4, <3>5, <3>6
    <3> QED
      BY <3>7 DEF FewProposals
  <2> QED
    BY <1>4, <2>2, <2>3 DEF PlanCloses, SetGoalStatus, AddProgram, MayPropose
<1>5. ASSUME NEW p \in Programs, NEW as \in {"active", "closed"}, Withdraw(p) \/ Resolve(p, as)
      PROVE  FewProposals'
  <2>1. Waiting' \subseteq Waiting
    BY <1>5 DEF Withdraw, Resolve, Waiting, Typed, TypeOK
  <2>2. MayStillPropose' = MayStillPropose
    BY <1>5 DEF Withdraw, Resolve, MayStillPropose, read
  <2> QED
    BY <1>1, <2>1, <2>2
<1>6. CASE UNCHANGED <<status, pc, readWaiting>>
  BY <1>1, <1>6 DEF Waiting, MayStillPropose
<1> QED
  BY <1>2, <1>3, <1>4, <1>5, <1>6
     DEF Next, Plan, PlanAddsGoal, AddGoal, PlanContinuesGoal, Decide, vars, rows, read

LEMMA GoalsNext ==
    ASSUME Typed, [Next]_vars, NEW s, FewGoals(s)
    PROVE  FewGoals(s)'
<1>1. CASE Pursued(s)' \subseteq Pursued(s) /\ MayStillAdd(s)' \subseteq MayStillAdd(s)
  BY <1>1, AllFinite, NoMore DEF FewGoals
<1>2. ASSUME NEW w \in Planners, PlanReads(w) PROVE FewGoals(s)'
  <2>1. Pursued(s)' = Pursued(s) /\ Active' = Active
    BY <1>2 DEF PlanReads, rows, Pursued, Active
  <2>2. CASE Pursued(s) = {}
    BY <2>1, <2>2, NoneYet DEF FewGoals, MayStillAdd
  <2>3. CASE Pursued(s) # {}
    <3>1. w \notin MayStillAdd(s)'
      BY <1>2, <2>3 DEF PlanReads, Pursued, MayStillAdd, Typed, TypeOK
    <3>2. MayStillAdd(s)' \subseteq MayStillAdd(s)
      BY <1>2, <3>1 DEF PlanReads, MayStillAdd, Typed, TypeOK
    <3> QED
      BY <1>1, <2>1, <3>2
  <2> QED
    BY <2>2, <2>3
<1>3. ASSUME NEW w \in Planners, PlanFails(w) \/ PlanEnds(w) PROVE FewGoals(s)'
  <2>1. Pursued(s)' = Pursued(s)
    BY <1>3 DEF PlanFails, PlanEnds, rows, Pursued, Active
  <2>2. MayStillAdd(s)' \subseteq MayStillAdd(s)
    BY <1>3 DEF PlanFails, PlanEnds, Forgets, MayStillAdd, Typed, TypeOK
  <2> QED
    BY <1>1, <2>1, <2>2
<1>4. ASSUME NEW w \in Planners, PlanCloses(w) PROVE FewGoals(s)'
  <2>1. Pursued(s)' \subseteq Pursued(s)
    BY <1>4 DEF PlanCloses, SetGoalStatus, AddProgram, Pursued, Active, Typed, TypeOK
  <2>2. MayStillAdd(s)' \subseteq MayStillAdd(s)
    BY <1>4 DEF PlanCloses, SetGoalStatus, AddProgram, MayStillAdd, Typed, TypeOK
  <2> QED
    BY <1>1, <2>1, <2>2
<1>5. ASSUME NEW w \in Planners, NEW g \in Goals, PlanAddsGoal(w, g) PROVE FewGoals(s)'
  <2>1. /\ goal' = [goal EXCEPT ![g] = "active"] /\ pc' = pc
        /\ readGoals' = [readGoals EXCEPT ![w] = @ \cup {g}]
        /\ pc[w] = "persisting" /\ \A x \in readGoals[w] : Statement[x] # Statement[g]
    BY <1>5 DEF PlanAddsGoal, AddGoal, NewGoal
  <2>2. CASE Statement[g] = s
    <3>1. Pursued(s)' \subseteq Pursued(s) \cup {g}
      BY <2>1 DEF Pursued, Active, Typed, TypeOK
    <3>2. w \in MayStillAdd(s)
      BY <2>1, <2>2 DEF MayStillAdd
    <3>3. MayStillAdd(s)' \subseteq MayStillAdd(s) \ {w}
      BY <2>1, <2>2 DEF MayStillAdd, Typed, TypeOK
    <3>4. /\ Cardinality(Planners) \in Nat
          /\ IsFiniteSet(Pursued(s)) /\ IsFiniteSet(MayStillAdd(s))
      BY AllFinite
    <3>5. Cardinality(Pursued(s)) + Cardinality(MayStillAdd(s)) <= Cardinality(Planners)
      BY DEF FewGoals
    <3>6. /\ Cardinality(Pursued(s)) \in Nat /\ Cardinality(Pursued(s)') \in Nat
          /\ Cardinality(Pursued(s)') <= Cardinality(Pursued(s)) + 1
      BY <3>1, <3>4, OneMore
    <3>7. /\ Cardinality(MayStillAdd(s)) \in Nat /\ Cardinality(MayStillAdd(s)') \in Nat
          /\ Cardinality(MayStillAdd(s)') <= Cardinality(MayStillAdd(s)) - 1
      BY <3>2, <3>3, <3>4, OneLess
    <3>8. Cardinality(Pursued(s)') + Cardinality(MayStillAdd(s)') <= Cardinality(Planners)
      BY <3>4, <3>5, <3>6, <3>7
    <3> QED
      BY <3>8 DEF FewGoals
  <2>3. CASE Statement[g] # s
    <3>1. Pursued(s)' \subseteq Pursued(s)
      BY <2>1, <2>3 DEF Pursued, Active, Typed, TypeOK
    <3>2. MayStillAdd(s)' \subseteq MayStillAdd(s)
      BY <2>1 DEF MayStillAdd, Typed, TypeOK
    <3> QED
      BY <1>1, <3>1, <3>2
  <2> QED
    BY <2>2, <2>3
<1>6. CASE UNCHANGED <<goal, pc, readGoals>>
  BY <1>1, <1>6 DEF Pursued, Active, MayStillAdd
<1> QED
  BY <1>2, <1>3, <1>4, <1>5, <1>6
     DEF Next, Plan, PlanContinuesGoal, Withdraw, Resolve, Decide, vars, rows, read

LEMMA FewProgramsInitially == Init => \A t \in Targets : FewPrograms(t)
<1> SUFFICES ASSUME Init, NEW t \in Targets PROVE FewPrograms(t)
  OBVIOUS
<1>1. Taken(t) = {} /\ MayStillTake(t) = {}
  BY DEF Init, Taken, Open, MayStillTake, Absent
<1> QED
  BY <1>1, NoneYet DEF FewPrograms

(* A plan gives program p a target that it had not: p is the only program  *)
(* to gain it, and the plan, which knows p from then on to have it, loses  *)
(* its turn.                                                               *)
LEMMA TakesOneMore ==
    ASSUME Typed, NEW t \in Targets, FewPrograms(t),
           UNCHANGED <<status, pc, readOpen, new>>,
           NEW w \in Planners, pc[w] # "idle",
           NEW p \in Programs \cup {NoProgram},
           p \in Known(w) \cup {NoProgram} \/ status[p] = "closed",
           \A q \in Programs : TargetsOf(q) \subseteq TargetsOf(q)',
           \A q \in Programs \ {p} : TargetsOf(q)' = TargetsOf(q),
           t \in TargetsOf(p)' \ TargetsOf(p) =>
               \A q \in Known(w) \ {p} : t \notin TargetsOf(q)
    PROVE  FewPrograms(t)'
<1>1. \A v \in Planners : Known(v)' = Known(v) /\ Known(v) \subseteq Programs
  BY DEF Known, Typed, TypeOK
<1>2. Open' = Open /\ Open \subseteq Programs
  BY DEF Open
<1>3. MayStillTake(t)' \subseteq MayStillTake(t)
  BY <1>1 DEF MayStillTake
<1>4. CASE Taken(t)' \subseteq Taken(t)
  BY <1>3, <1>4, AllFinite, NoMore DEF FewPrograms
<1>5. CASE p \in Known(w) /\ t \in TargetsOf(p)' \ TargetsOf(p)
  <2>1. Taken(t)' \subseteq Taken(t) \cup {p}
    BY <1>2 DEF Taken
  <2>2. w \in MayStillTake(t)
    BY <1>5 DEF MayStillTake
  <2>3. MayStillTake(t)' \subseteq MayStillTake(t) \ {w}
    BY <1>1, <1>3, <1>5 DEF MayStillTake
  <2>4. /\ Cardinality(Planners) \in Nat
        /\ IsFiniteSet(Taken(t)) /\ IsFiniteSet(MayStillTake(t))
    BY AllFinite
  <2>5. Cardinality(Taken(t)) + Cardinality(MayStillTake(t)) <= Cardinality(Planners)
    BY DEF FewPrograms
  <2>6. /\ Cardinality(Taken(t)) \in Nat /\ Cardinality(Taken(t)') \in Nat
        /\ Cardinality(Taken(t)') <= Cardinality(Taken(t)) + 1
    BY <2>1, <2>4, OneMore
  <2>7. /\ Cardinality(MayStillTake(t)) \in Nat /\ Cardinality(MayStillTake(t)') \in Nat
        /\ Cardinality(MayStillTake(t)') <= Cardinality(MayStillTake(t)) - 1
    BY <2>2, <2>3, <2>4, OneLess
  <2>8. Cardinality(Taken(t)') + Cardinality(MayStillTake(t)') <= Cardinality(Planners)
    BY <2>4, <2>5, <2>6, <2>7
  <2> QED
    BY <2>8 DEF FewPrograms
<1>6. CASE ~(p \in Known(w) /\ t \in TargetsOf(p)' \ TargetsOf(p))
  <2>1. p \in Open => p \in Known(w) \cup {NoProgram}
    BY DEF Open
  <2>2. Taken(t)' \subseteq Taken(t)
    BY <1>2, <1>6, <2>1, GoalsAssumption DEF Taken
  <2> QED
    BY <1>4, <2>2
<1> QED
  BY <1>5, <1>6

(* The goals' links decide what a program investigates. *)
LEMMA InTargetsOf ==
    ASSUME NEW p, NEW t
    PROVE  t \in TargetsOf(p) <=> \E g \in Goals : program[g] = p /\ t \in about[g]
BY DEF TargetsOf

LEMMA ProgramsNext ==
    ASSUME Typed, Linked, [Next]_vars, NEW t \in Targets, FewPrograms(t)
    PROVE  FewPrograms(t)'
<1>1. CASE Taken(t)' \subseteq Taken(t) /\ MayStillTake(t)' \subseteq MayStillTake(t)
  BY <1>1, AllFinite, NoMore DEF FewPrograms
<1>0. UNCHANGED <<program, about>> => \A p : TargetsOf(p)' = TargetsOf(p)
  BY DEF TargetsOf
<1>2. ASSUME NEW w \in Planners, PlanReads(w) PROVE FewPrograms(t)'
  <2>1. Taken(t)' = Taken(t) /\ \A p : TargetsOf(p)' = TargetsOf(p)
    BY <1>0, <1>2 DEF PlanReads, rows, Taken, Open
  <2>2. CASE Taken(t) = {}
    BY <2>1, <2>2, NoneYet DEF FewPrograms, MayStillTake
  <2>3. CASE Taken(t) # {}
    <3>1. PICK p \in Open : t \in TargetsOf(p)
      BY <2>3 DEF Taken
    <3>2. p \in Known(w)' /\ \A v \in Planners \ {w} : Known(v)' = Known(v) /\ pc'[v] = pc[v]
      BY <1>2, <3>1 DEF PlanReads, local, Known, Typed, TypeOK
    <3>3. MayStillTake(t)' \subseteq MayStillTake(t)
      BY <2>1, <3>1, <3>2 DEF MayStillTake
    <3> QED
      BY <1>1, <2>1, <3>3
  <2> QED
    BY <2>2, <2>3
<1>3. ASSUME NEW w \in Planners, PlanFails(w) \/ PlanEnds(w) PROVE FewPrograms(t)'
  <2>1. Taken(t)' = Taken(t) /\ \A p : TargetsOf(p)' = TargetsOf(p)
    BY <1>0, <1>3 DEF PlanFails, PlanEnds, rows, Taken, Open
  <2>2. pc'[w] = "idle" /\ \A v \in Planners \ {w} : Known(v)' = Known(v) /\ pc'[v] = pc[v]
    BY <1>3 DEF PlanFails, PlanEnds, Forgets, Known, Typed, TypeOK
  <2>3. MayStillTake(t)' \subseteq MayStillTake(t)
    BY <2>1, <2>2 DEF MayStillTake
  <2> QED
    BY <1>1, <2>1, <2>3
<1>4. ASSUME NEW w \in Planners, PlanCloses(w) PROVE FewPrograms(t)'
  <2>1. /\ UNCHANGED <<program, about, readOpen>>
        /\ pc[w] = "planning" /\ pc' = [pc EXCEPT ![w] = "persisting"]
    BY <1>4 DEF PlanCloses
  <2>2. \A p : TargetsOf(p)' = TargetsOf(p)
    BY <1>0, <2>1
  <2>3. PICK p \in Programs \cup {NoProgram} :
           /\ new' = [new EXCEPT ![w] = p]
           /\ \/ status' = status
              \/ /\ p \in Programs /\ status[p] = Absent
                 /\ status' = [status EXCEPT ![p] = "proposed"]
    <3>1. readOpen[w] \subseteq Programs
      BY DEF Typed, TypeOK
    <3> QED
      BY <1>4, <3>1 DEF PlanCloses, AddProgram
  <2>4. new[w] = NoProgram
    BY <2>1 DEF Linked
  <2>5. \A v \in Planners : Known(v) \subseteq Known(v)' /\ (pc'[v] # "idle" => pc[v] # "idle")
    BY <2>1, <2>3, <2>4 DEF Known, Typed, TypeOK
  <2>6. MayStillTake(t)' \subseteq MayStillTake(t)
    BY <2>2, <2>5 DEF MayStillTake
  <2>7. \A q \in Programs : status[q] = Absent => t \notin TargetsOf(q)
    BY InTargetsOf, GoalsAssumption DEF Linked
  <2>8. \A q \in Open' : q \in Open \/ status[q] = Absent
    BY <2>3 DEF Open, Typed, TypeOK
  <2>9. Taken(t)' \subseteq Taken(t)
    BY <2>2, <2>7, <2>8 DEF Taken, Open
  <2> QED
    BY <1>1, <2>6, <2>9
<1>5. ASSUME NEW w \in Planners, NEW g \in Goals, PlanAddsGoal(w, g) PROVE FewPrograms(t)'
  <2>1. /\ UNCHANGED <<status, pc, readOpen, new>> /\ pc[w] # "idle"
        /\ goal[g] = Absent
    BY <1>5 DEF PlanAddsGoal, NewGoal, local
  <2>2. PICK p \in Known(w) \cup {NoProgram}, targets \in SUBSET Targets :
           /\ program' = [program EXCEPT ![g] = p]
           /\ about' = [about EXCEPT ![g] = Free(w, p, targets)]
    BY <1>5 DEF PlanAddsGoal, AddGoal
  <2>3. program[g] = NoProgram
    BY <2>1 DEF Linked
  <2>4. /\ p \in Programs \cup {NoProgram} /\ Known(w) \subseteq Programs
        /\ NoProgram \notin Programs
    BY GoalsAssumption DEF Known, Typed, TypeOK
  <2>5. \A x \in Goals : /\ program'[x] = IF x = g THEN p ELSE program[x]
                         /\ about'[x] = IF x = g THEN Free(w, p, targets) ELSE about[x]
    BY <2>2 DEF Typed, TypeOK
  <2>6. ASSUME NEW q \in Programs, NEW u
        PROVE  u \in TargetsOf(q)' <=>
                   u \in TargetsOf(q) \/ (q = p /\ u \in Free(w, p, targets))
    <3>1. u \in TargetsOf(q)' <=> \E x \in Goals : program'[x] = q /\ u \in about'[x]
      BY DEF TargetsOf
    <3>2. u \in TargetsOf(q) <=> \E x \in Goals : program[x] = q /\ u \in about[x]
      BY InTargetsOf
    <3> QED
      BY <2>3, <2>4, <2>5, <3>1, <3>2
  <2>7. /\ \A q \in Programs : TargetsOf(q) \subseteq TargetsOf(q)'
        /\ \A q \in Programs \ {p} : TargetsOf(q)' = TargetsOf(q)
    BY <2>6
  <2>8. p \in Programs =>
           \A u \in Free(w, p, targets) : \A q \in Known(w) \ {p} : u \notin TargetsOf(q)
    BY <2>4 DEF Free
  <2>9. CASE p \in Programs
    <3>1. t \in TargetsOf(p)' \ TargetsOf(p) =>
             \A q \in Known(w) \ {p} : t \notin TargetsOf(q)
      BY <2>6, <2>8, <2>9
    <3> QED
      BY <2>1, <2>2, <2>4, <2>7, <3>1, TakesOneMore
  <2>10. CASE p = NoProgram
    <3>1. \A q \in Programs : TargetsOf(q)' = TargetsOf(q)
      BY <2>4, <2>7, <2>10
    <3>2. Taken(t)' = Taken(t)
      BY <2>1, <3>1 DEF Taken, Open
    <3>3. \A v \in Planners : Known(v)' = Known(v) /\ Known(v) \subseteq Programs
      BY <2>1 DEF Known, Typed, TypeOK
    <3>4. MayStillTake(t)' = MayStillTake(t)
      BY <2>1, <3>1, <3>3 DEF MayStillTake
    <3> QED
      BY <1>1, <3>2, <3>4
  <2> QED
    BY <2>4, <2>9, <2>10
<1>6. ASSUME NEW w \in Planners, NEW g \in Goals, PlanContinuesGoal(w, g)
      PROVE  FewPrograms(t)'
  <2>0. PICK p \in Programs \cup {NoProgram} : p = program[g]
    BY DEF Typed, TypeOK
  <2>1. /\ UNCHANGED <<program, status, pc, readOpen, new>> /\ pc[w] # "idle"
        /\ g \in readGoals[w]
    BY <1>6 DEF PlanContinuesGoal, MayContinue, read, local
  <2>2. PICK targets \in SUBSET (Targets \ about[g]) :
           about' = [about EXCEPT ![g] = @ \cup Free(w, p, targets)]
    BY <1>6, <2>0 DEF PlanContinuesGoal
  <2>3. p \in Known(w) \cup {NoProgram} \/ status[p] = "closed"
    BY <2>0, <2>1 DEF Linked
  <2>4. /\ p \in Programs \cup {NoProgram} /\ Known(w) \subseteq Programs
        /\ NoProgram \notin Programs
    BY GoalsAssumption DEF Known, Typed, TypeOK
  <2>5. \A x \in Goals : about'[x] = IF x = g THEN about[g] \cup Free(w, p, targets)
                                     ELSE about[x]
    BY <2>2 DEF Typed, TypeOK
  <2>6. ASSUME NEW q \in Programs, NEW u
        PROVE  u \in TargetsOf(q)' <=>
                   u \in TargetsOf(q) \/ (q = p /\ u \in Free(w, p, targets))
    <3>1. u \in TargetsOf(q)' <=> \E x \in Goals : program[x] = q /\ u \in about'[x]
      BY <2>1 DEF TargetsOf
    <3>2. u \in TargetsOf(q) <=> \E x \in Goals : program[x] = q /\ u \in about[x]
      BY InTargetsOf
    <3> QED
      BY <2>0, <2>5, <3>1, <3>2
  <2>7. /\ \A q \in Programs : TargetsOf(q) \subseteq TargetsOf(q)'
        /\ \A q \in Programs \ {p} : TargetsOf(q)' = TargetsOf(q)
    BY <2>6
  <2>8. CASE p \in Programs
    <3>1. \A u \in Free(w, p, targets) : \A q \in Known(w) \ {p} : u \notin TargetsOf(q)
      BY <2>4, <2>8 DEF Free
    <3>2. t \in TargetsOf(p)' \ TargetsOf(p) =>
             \A q \in Known(w) \ {p} : t \notin TargetsOf(q)
      BY <2>6, <2>8, <3>1
    <3> QED
      BY <2>1, <2>3, <2>4, <2>7, <2>8, <3>2, TakesOneMore
  <2>9. CASE p = NoProgram
    <3>1. \A q \in Programs : TargetsOf(q)' = TargetsOf(q)
      BY <2>4, <2>7, <2>9
    <3>2. Taken(t)' = Taken(t)
      BY <2>1, <3>1 DEF Taken, Open
    <3>3. \A v \in Planners : Known(v)' = Known(v) /\ Known(v) \subseteq Programs
      BY <2>1 DEF Known, Typed, TypeOK
    <3>4. MayStillTake(t)' = MayStillTake(t)
      BY <2>1, <3>1, <3>3 DEF MayStillTake
    <3> QED
      BY <1>1, <3>2, <3>4
  <2> QED
    BY <2>4, <2>8, <2>9
<1>7. ASSUME NEW p \in Programs, NEW as \in {"active", "closed"}, Withdraw(p) \/ Resolve(p, as)
      PROVE  FewPrograms(t)'
  <2>1. UNCHANGED <<program, about, pc, readOpen, new>>
    BY <1>7 DEF Withdraw, Resolve, read, local
  <2>2. \A q : TargetsOf(q)' = TargetsOf(q)
    BY <1>0, <2>1
  <2>3. \A q \in Programs : status'[q] \in {"proposed", "active"} =>
                             status[q] \in {"proposed", "active"}
    BY <1>7 DEF Withdraw, Resolve, Typed, TypeOK
  <2>4. Open' \subseteq Open
    BY <2>1, <2>3 DEF Open
  <2> QED
    BY <1>1, <2>1, <2>2, <2>4 DEF Taken, MayStillTake, Known
<1>8. CASE UNCHANGED <<program, about, status, pc, readOpen, new>>
  <2>1. \A q : TargetsOf(q)' = TargetsOf(q)
    BY <1>0, <1>8
  <2> QED
    BY <1>1, <1>8, <2>1 DEF Taken, Open, MayStillTake, Known
<1> QED
  BY <1>2, <1>3, <1>4, <1>5, <1>6, <1>7, <1>8
     DEF Next, Plan, Decide, vars, rows, read, local

(* The inductive invariant holds. *)
THEOREM Invariance == Spec => []IInv
<1>1. Init => IInv
  BY TypedInitially, LinkedInitially, FewInitially, FewProgramsInitially DEF IInv
<1>2. IInv /\ [Next]_vars => IInv'
  BY TypedNext, LinkedNext, ProposalsNext, GoalsNext, ProgramsNext DEF IInv
<1> QED
  BY <1>1, <1>2, PTL DEF Spec

(* The state is well typed. *)
THEOREM Typing == Spec => []TypeOK
<1>1. IInv => TypeOK
  BY DEF IInv, Typed
<1> QED
  BY <1>1, Invariance, PTL

(* No more proposals wait for the owner than there are planners: with one  *)
(* planner, never a second one.                                            *)
THEOREM ProposedOnce == Spec => []OneProposal
<1>1. IInv => OneProposal
  <2> SUFFICES ASSUME IInv PROVE OneProposal
    OBVIOUS
  <2>1. Cardinality(Waiting) \in Nat /\ Cardinality(MayStillPropose) \in Nat
    BY AllFinite, FS_CardinalityType
  <2> QED
    BY <2>1, AllFinite DEF IInv, FewProposals, OneProposal
<1> QED
  BY <1>1, Invariance, PTL

(* No statement is pursued by more active goals than there are planners.   *)
THEOREM PursuedOnce == Spec => []OneGoalEach
<1>1. IInv => OneGoalEach
  <2> SUFFICES ASSUME IInv, NEW g \in Goals
               PROVE  Cardinality({x \in Active : Statement[x] = Statement[g]})
                        <= Cardinality(Planners)
    BY DEF OneGoalEach
  <2>1. /\ Cardinality(Pursued(Statement[g])) \in Nat
        /\ Cardinality(MayStillAdd(Statement[g])) \in Nat
    BY AllFinite, FS_CardinalityType
  <2>2. Cardinality(Pursued(Statement[g])) <= Cardinality(Planners)
    BY <2>1, AllFinite DEF IInv, FewGoals
  <2> QED
    BY <2>2 DEF Pursued
<1> QED
  BY <1>1, Invariance, PTL

(* No target is investigated by more open programs than there are          *)
(* planners: with one planner, by one program at most.                     *)
THEOREM InvestigatedOnce == Spec => []OneProgramEach
<1>1. IInv => OneProgramEach
  <2> SUFFICES ASSUME IInv, NEW t \in Targets
               PROVE  Cardinality({p \in Open : t \in TargetsOf(p)}) <= Cardinality(Planners)
    BY DEF OneProgramEach
  <2>1. Cardinality(Taken(t)) \in Nat /\ Cardinality(MayStillTake(t)) \in Nat
    BY AllFinite, FS_CardinalityType
  <2>2. Cardinality(Taken(t)) <= Cardinality(Planners)
    BY <2>1, AllFinite DEF IInv, FewPrograms
  <2> QED
    BY <2>2 DEF Taken
<1> QED
  BY <1>1, Invariance, PTL

(* A plan never changes a goal that is closed, unless another plan closed  *)
(* it since it read.                                                       *)
THEOREM ClosedForGood == Spec => GoalsStayClosed
<1>1. IInv /\ [Next]_vars =>
        [\A g \in Goals :
            goal[g] \in {"achieved", "abandoned"} =>
               \/ goal'[g] = goal[g] /\ about'[g] = about[g]
               \/ \E w \in Planners : g \in readGoals[w] \ closed[w]]_vars
  <2> SUFFICES ASSUME Typed, Next, NEW g \in Goals, goal[g] \in {"achieved", "abandoned"}
               PROVE  \/ goal'[g] = goal[g] /\ about'[g] = about[g]
                      \/ \E w \in Planners : g \in readGoals[w] \ closed[w]
    BY DEF IInv
  <2>1. ASSUME NEW w \in Planners, PlanCloses(w)
        PROVE  \/ goal'[g] = goal[g] /\ about'[g] = about[g]
               \/ g \in readGoals[w] \ closed[w]
    <3>1. about' = about /\ closed[w] = {}
      BY <2>1 DEF PlanCloses, SetGoalStatus, AddProgram, Typed, NoneClosedYet
    <3>2. goal'[g] = goal[g] \/ g \in readGoals[w]
      BY <2>1 DEF PlanCloses, SetGoalStatus, AddProgram, MayAbandon, Finished
    <3> QED
      BY <3>1, <3>2
  <2>2. ASSUME NEW w \in Planners, NEW x \in Goals, PlanAddsGoal(w, x)
        PROVE  goal'[g] = goal[g] /\ about'[g] = about[g]
    <3>1. x # g
      BY <2>2 DEF PlanAddsGoal, AddGoal, NewGoal, Absent
    <3> QED
      BY <2>2, <3>1 DEF PlanAddsGoal, AddGoal, Typed, TypeOK
  <2>3. ASSUME NEW w \in Planners, NEW x \in Goals, PlanContinuesGoal(w, x)
        PROVE  \/ goal'[g] = goal[g] /\ about'[g] = about[g]
               \/ g \in readGoals[w] \ closed[w]
    <3>1. goal' = goal /\ x \in readGoals[w] \ closed[w]
      BY <2>3 DEF PlanContinuesGoal, MayContinue
    <3>2. x # g => about'[g] = about[g]
      BY <2>3 DEF PlanContinuesGoal, Typed, TypeOK
    <3> QED
      BY <3>1, <3>2
  <2>4. CASE UNCHANGED <<goal, about>>
    BY <2>4
  <2> QED
    BY <2>1, <2>2, <2>3, <2>4
       DEF Next, Plan, PlanReads, PlanFails, PlanEnds, Withdraw, Resolve, Decide, rows
<1> QED
  BY <1>1, Invariance, PTL DEF Spec, GoalsStayClosed
=============================================================================
