-------------------------------- MODULE Goals --------------------------------
(***************************************************************************)
(* Goals and research programs (src/collegium/roles/strategist.py): what   *)
(* the plans of one domain do to them, with the owner, who opens, declines *)
(* and closes programs (owner.py), and the critique loop, which decides    *)
(* hypotheses, in between.                                                 *)
(*                                                                         *)
(* A plan reads goals and programs, asks the model, and persists, minutes  *)
(* later, from what it read: only the links of goals to what they          *)
(* investigate are read again. The scheduler keeps one plan of a domain    *)
(* waiting, but the owner can ask for more, and a plan that was given up   *)
(* on may still be running, so several planners are at work.               *)
(*                                                                         *)
(* Persisting is one transaction, taken in steps here so that a plan may   *)
(* hold any number of goals; nothing else happens in between. The plan is  *)
(* whatever the model says. A program and the decision that proposes it    *)
(* are one row. What the plan queues is not here.                          *)
(***************************************************************************)
EXTENDS Integers, FiniteSets

CONSTANTS
    Planners,   \* workers that run strategize jobs of the domain
    Goals,      \* rows of goals: a bound on how many there ever are
    Statement,  \* [Goals -> statements], memory.statement_key
    Programs,   \* rows of programs, of the same kind
    NoProgram,  \* a goal that serves none, or the plan's lack of a new one
    Hypotheses, \* what goals investigate: hypotheses ...
    Entities,   \* ... and entities
    MaxPlans    \* bound on the plans made

Targets == Hypotheses \cup Entities

ASSUME GoalsAssumption ==
    /\ IsFiniteSet(Planners) /\ Planners # {}
    /\ IsFiniteSet(Goals)
    /\ IsFiniteSet(Programs)
    /\ NoProgram \notin Programs
    /\ Hypotheses \cap Entities = {}
    /\ MaxPlans \in Nat

VARIABLES
    \* the database
    goal,        \* status of each goal
    program,     \* program_id of each goal
    about,       \* what each goal investigates
    status,      \* of each program; "paused" is never set
    decided,     \* hypotheses neither proposed nor under review
    plans,       \* plans made so far
    \* the planners
    pc,
    readGoals,   \* active goals, as read,
    readAbout,   \* with what they investigated
    readOpen,    \* programs not closed, as read,
    readWaiting, \* and whether one of them was proposed
    readClosed,  \* closed programs, as read
    closed,      \* persist: the goals this plan has closed
    new,         \* persist: the program that "new" stands for
    meant        \* persist: what the plan's goals for "new" are about

rows    == <<goal, program, about, status>>
read    == <<readGoals, readAbout, readOpen, readWaiting, readClosed>>
local   == <<closed, new, meant>>
vars    == <<rows, decided, plans, pc, read, local>>

Absent       == "absent"
GoalStates   == {Absent, "active", "achieved", "abandoned"}
ProgramStates == {Absent, "proposed", "active", "closed"}

(* Type invariant; a planner has read goals only while it plans, and closes *)
(* none but those.                                                         *)
TypeOK ==
    /\ goal    \in [Goals -> GoalStates]
    /\ program \in [Goals -> Programs \cup {NoProgram}]
    /\ about   \in [Goals -> SUBSET Targets]
    /\ status  \in [Programs -> ProgramStates]
    /\ decided \in SUBSET Hypotheses
    /\ plans   \in 0..MaxPlans
    /\ pc          \in [Planners -> {"idle", "planning", "persisting"}]
    /\ readGoals   \in [Planners -> SUBSET Goals]
    /\ readAbout   \in [Planners -> [Goals -> SUBSET Targets]]
    /\ readOpen    \in [Planners -> SUBSET Programs]
    /\ readWaiting \in [Planners -> BOOLEAN]
    /\ readClosed  \in [Planners -> SUBSET Programs]
    /\ closed      \in [Planners -> SUBSET Goals]
    /\ new         \in [Planners -> Programs \cup {NoProgram}]
    /\ meant       \in [Planners -> SUBSET Targets]
    /\ \A w \in Planners : pc[w] = "idle" => readGoals[w] = {}
    /\ \A w \in Planners : closed[w] \subseteq readGoals[w]

NoLinks == [g \in Goals |-> {}]

Init ==
    /\ goal    = [g \in Goals |-> Absent]
    /\ program = [g \in Goals |-> NoProgram]
    /\ about   = NoLinks
    /\ status  = [p \in Programs |-> Absent]
    /\ decided = {}
    /\ plans   = 0
    /\ pc          = [w \in Planners |-> "idle"]
    /\ readGoals   = [w \in Planners |-> {}]
    /\ readAbout   = [w \in Planners |-> NoLinks]
    /\ readOpen    = [w \in Planners |-> {}]
    /\ readWaiting = [w \in Planners |-> FALSE]
    /\ readClosed  = [w \in Planners |-> {}]
    /\ closed      = [w \in Planners |-> {}]
    /\ new         = [w \in Planners |-> NoProgram]
    /\ meant       = [w \in Planners |-> {}]
-----------------------------------------------------------------------------
Active == {g \in Goals : goal[g] = "active"}
Waiting == {p \in Programs : status[p] = "proposed"}
Open    == {p \in Programs : status[p] \in {"proposed", "active"}}
Closed  == {p \in Programs : status[p] = "closed"}

(* program_targets: over every goal ever linked to it, whatever its status. *)
TargetsOf(p) == UNION {about[g] : g \in {x \in Goals : program[x] = p}}

Quiet == \A w \in Planners : pc[w] # "persisting"

(* What memory does for a plan. A goal starts active; a closed one keeps    *)
(* why, which is left out; a program and its decision start proposed.      *)
AddGoal(g, p) ==
    /\ goal'    = [goal EXCEPT ![g] = "active"]
    /\ program' = [program EXCEPT ![g] = p]

SetGoalStatus(achieved, abandoned) ==
    goal' = [g \in Goals |-> IF g \in abandoned THEN "abandoned"
                             ELSE IF g \in achieved THEN "achieved" ELSE goal[g]]

AddProgram(p) == status' = [status EXCEPT ![p] = "proposed"]

(* The programs a plan's goals can be linked to: program_ids.              *)
Known(w) == readOpen[w] \cup ({new[w]} \ {NoProgram})
-----------------------------------------------------------------------------
(* A plan.                                                                 *)

(* prepare, up to the model call.                                          *)
PlanReads(w) ==
    /\ Quiet
    /\ pc[w] = "idle"
    /\ plans < MaxPlans
    /\ plans' = plans + 1
    /\ pc'          = [pc EXCEPT ![w] = "planning"]
    /\ readGoals'   = [readGoals EXCEPT ![w] = Active]
    /\ readAbout'   = [readAbout EXCEPT ![w] =
                          [g \in Goals |-> IF g \in Active THEN about[g] ELSE {}]]
    /\ readOpen'    = [readOpen EXCEPT ![w] = Open]
    /\ readWaiting' = [readWaiting EXCEPT ![w] = Waiting # {}]
    /\ readClosed'  = [readClosed EXCEPT ![w] = Closed]
    /\ UNCHANGED <<rows, decided, local>>

Forgets(w) ==
    /\ pc'          = [pc EXCEPT ![w] = "idle"]
    /\ readGoals'   = [readGoals EXCEPT ![w] = {}]
    /\ readAbout'   = [readAbout EXCEPT ![w] = NoLinks]
    /\ readOpen'    = [readOpen EXCEPT ![w] = {}]
    /\ readWaiting' = [readWaiting EXCEPT ![w] = FALSE]
    /\ readClosed'  = [readClosed EXCEPT ![w] = {}]
    /\ closed'      = [closed EXCEPT ![w] = {}]
    /\ new'         = [new EXCEPT ![w] = NoProgram]
    /\ meant'       = [meant EXCEPT ![w] = {}]

(* The model call fails, or the worker dies, or the transaction is lost.   *)
PlanFails(w) ==
    /\ pc[w] = "planning"
    /\ Quiet
    /\ Forgets(w)
    /\ UNCHANGED <<rows, decided, plans>>

(* _close_finished_goals: those all of whose hypotheses, of those read, are *)
(* decided by now.                                                         *)
Finished(w) ==
    {g \in readGoals[w] : LET hs == readAbout[w][g] \cap Hypotheses IN
                          hs # {} /\ hs \subseteq decided}

(* _abandon_goals: the goals the model may drop. One it also continues it  *)
(* does not drop.                                                          *)
MayAbandon(w) == readGoals[w] \ Finished(w)

\* Mutated form of MayPropose: a waiting proposal does not hold up the next.
MayPropose_AnyTime(w, targets) ==
    \A p \in readOpen[w] \cup readClosed[w] : targets \cap TargetsOf(p) = {}

(* _propose_program, with a name that is not that of a closed program:     *)
(* nothing while a proposal waits, nor a topic some program already has.   *)
MayPropose(w, targets) ==
    /\ ~readWaiting[w]
    /\ \A p \in readOpen[w] \cup readClosed[w] : targets \cap TargetsOf(p) = {}

(* persist, up to the goals, after which three of the readings are not used *)
(* again: closes what is finished, abandons what the                       *)
(* plan drops, and proposes its program, if it names one. One that has the *)
(* name of an open program stands for that program.                        *)
PlanCloses(w) ==
    /\ pc[w] = "planning"
    /\ Quiet
    /\ pc' = [pc EXCEPT ![w] = "persisting"]
    /\ \E dropped \in SUBSET MayAbandon(w) :
        /\ SetGoalStatus(Finished(w), dropped)
        /\ closed' = [closed EXCEPT ![w] = Finished(w) \cup dropped]
    /\ \/ /\ \E p \in readOpen[w] \cup {NoProgram} : new' = [new EXCEPT ![w] = p]
          /\ UNCHANGED <<status, meant>>
       \/ \E p \in Programs, targets \in SUBSET Targets :
              /\ status[p] = Absent
              /\ MayPropose(w, targets)
              /\ AddProgram(p)
              /\ new'    = [new EXCEPT ![w] = p]
              /\ meant'  = [meant EXCEPT ![w] = targets]
    /\ readAbout'   = [readAbout EXCEPT ![w] = NoLinks]
    /\ readWaiting' = [readWaiting EXCEPT ![w] = FALSE]
    /\ readClosed'  = [readClosed EXCEPT ![w] = {}]
    /\ UNCHANGED <<program, about, decided, plans, readGoals, readOpen>>

\* Mutated form of Free: a program's targets are checked when it is proposed only.
Free_Proposed(w, p, targets) == targets

(* The targets a goal of program p may take: those that no other program   *)
(* the plan knows investigates.                                            *)
Free(w, p, targets) ==
    IF p = NoProgram THEN targets
    ELSE {t \in targets : \A q \in Known(w) \ {p} : t \notin TargetsOf(q)}

\* Mutated form of NewGoal: a goal is looked up by its label only.
NewGoal_Unread(w, g) == goal[g] = Absent

(* A planned goal that is none of the active ones, by label or by statement; *)
(* what this plan has added counts (existing_goals), but nothing that was  *)
(* added since it read.                                                    *)
NewGoal(w, g) ==
    /\ goal[g] = Absent
    /\ \A x \in readGoals[w] : Statement[x] # Statement[g]

(* ... it is added, for the program the plan says.                         *)
PlanAddsGoal(w, g) ==
    /\ pc[w] = "persisting"
    /\ NewGoal(w, g)
    /\ \E p \in Known(w) \cup {NoProgram}, targets \in SUBSET Targets :
        /\ new[w] # NoProgram /\ new[w] \notin readOpen[w] /\ p = new[w]
               => targets \subseteq meant[w]
        /\ AddGoal(g, p)
        /\ about' = [about EXCEPT ![g] = Free(w, p, targets)]
    /\ readGoals' = [readGoals EXCEPT ![w] = @ \cup {g}]
    /\ UNCHANGED <<status, decided, plans, pc, readAbout, readOpen, readWaiting, readClosed, local>>

\* Mutated form of MayContinue: the goals the plan has just closed as well.
MayContinue_Closed(w) == readGoals[w]

(* Goals closed in this run are passed over.                               *)
MayContinue(w) == readGoals[w] \ closed[w]

(* A planned goal that continues one, by label or statement: more targets. *)
PlanContinuesGoal(w, g) ==
    /\ pc[w] = "persisting"
    /\ g \in MayContinue(w)
    /\ \E targets \in SUBSET (Targets \ about[g]) :
        about' = [about EXCEPT ![g] = @ \cup Free(w, program[g], targets)]
    /\ UNCHANGED <<goal, program, status, decided, plans, pc, read, local>>

(* Commit.                                                                 *)
PlanEnds(w) ==
    /\ pc[w] = "persisting"
    /\ Forgets(w)
    /\ UNCHANGED <<rows, decided, plans>>
-----------------------------------------------------------------------------
(* The owner, and the critique loop.                                       *)

(* resolve_decision: the program opens, or is closed for good.             *)
Resolve(p, as) ==
    /\ Quiet
    /\ status[p] = "proposed"
    /\ status' = [status EXCEPT ![p] = as]
    /\ UNCHANGED <<goal, program, about, decided, plans, pc, read, local>>

(* withdraw_program.                                                       *)
Withdraw(p) ==
    /\ Quiet
    /\ status[p] = "active"
    /\ status' = [status EXCEPT ![p] = "closed"]
    /\ UNCHANGED <<goal, program, about, decided, plans, pc, read, local>>

(* The Historian decides a hypothesis, and takes it back into review when  *)
(* one that was accepted no longer meets the rules.                        *)
Decide(h) ==
    /\ Quiet
    /\ decided' = IF h \in decided THEN decided \ {h} ELSE decided \cup {h}
    /\ UNCHANGED <<rows, plans, pc, read, local>>

Plan(w) ==
    \/ PlanReads(w) \/ PlanFails(w) \/ PlanCloses(w) \/ PlanEnds(w)
    \/ \E g \in Goals : PlanAddsGoal(w, g) \/ PlanContinuesGoal(w, g)

Next ==
    \/ \E w \in Planners : Plan(w)
    \/ \E p \in Programs : Withdraw(p) \/ \E as \in {"active", "closed"} : Resolve(p, as)
    \/ \E h \in Hypotheses : Decide(h)

Spec == Init /\ [][Next]_vars
-----------------------------------------------------------------------------
(* Properties. Where plans run side by side, each may do what the others   *)
(* have just done, but no more than that: the bounds are the number of     *)
(* planners, and with a single planner they are one.                       *)

(* The owner is not given the next proposal while one waits.               *)
OneProposal == Cardinality(Waiting) <= Cardinality(Planners)

(* What one program investigates no other program takes over, neither when *)
(* it is proposed nor by the goals it is given later.                      *)
OneProgramEach ==
    \A t \in Targets :
        Cardinality({p \in Open : t \in TargetsOf(p)}) <= Cardinality(Planners)

(* The same goal is not pursued twice.                                     *)
OneGoalEach ==
    \A s \in {Statement[g] : g \in Goals} :
        Cardinality({g \in Active : Statement[g] = s}) <= Cardinality(Planners)

(* A closed goal keeps its status and takes no more targets, whatever the  *)
(* same plan goes on to say of it; only a plan that had read it as active  *)
(* before another plan closed it still changes it.                         *)
GoalsStayClosed ==
    [][\A g \in Goals :
           goal[g] \in {"achieved", "abandoned"} =>
               \/ goal'[g] = goal[g] /\ about'[g] = about[g]
               \/ \E w \in Planners : g \in readGoals[w] \ closed[w]]_vars
=============================================================================
