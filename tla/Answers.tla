------------------------------- MODULE Answers -------------------------------
(***************************************************************************)
(* The owner's question, answered from memory (roles/answerer.py), with    *)
(* the conversation with the model that it takes (llm.py): rounds in which *)
(* the model calls the recall tool, then requests for the answer until one *)
(* is valid. Records are shown under labels (H1, O2), numbered on from one *)
(* recall to the next; the answer refers to them as [1], [2], ..., and the *)
(* question's "cites" relationships are to follow that order.              *)
(*                                                                         *)
(* The job may fail and be tried again. Meanwhile the critique loop goes   *)
(* on: what a record was when it was shown it need not be any more.        *)
(*                                                                         *)
(* What the model asks and says is arbitrary, and so is what a recall      *)
(* finds, and in which order; texts are left out, but for the labels.      *)
(***************************************************************************)
EXTENDS Integers, FiniteSets, Sequences, SequencesExt

CONSTANTS
    Hypotheses,   \* records recalled under H labels
    Observations, \* and under O labels; evidence and entities are like these
    MaxToolCalls, \* generate, max_tool_calls: rounds
    MaxReplies,   \* _max_attempts of the client
    MaxFound,     \* the LIMIT of the recall
    MaxPoints,    \* points of an answer
    MaxSources    \* bound on the labels of one point

Records == Hypotheses \cup Observations
Kinds   == {"H", "O"}
Of(k)   == IF k = "H" THEN Hypotheses ELSE Observations

ASSUME AnswersAssumption ==
    /\ Hypotheses \cap Observations = {}
    /\ {MaxToolCalls, MaxReplies, MaxFound, MaxPoints, MaxSources} \subseteq Nat

VARIABLES
    \* the database
    standing, \* of each hypothesis: "live", "accepted" or "dropped"
    question, \* "pending", "answered" or "unanswered"
    answer,   \* its points: [sources, firmness]
    cites,    \* records its "cites" relationships lead to, by number
    \* the run of the job
    pc,
    calls,    \* of the model: rounds of tool calls, then tries for the answer
    labels,   \* [Kinds -> sequence of what was labelled k1, k2, ...]
    order,    \* compose: labels in the order of their numbers
    points,   \* compose: points so far
    \* history
    shown,    \* <<label, record>>: under which labels the model saw what
    accepted  \* hypotheses that were accepted at some time of the run

memory == <<standing, question, answer, cites>>
composed == <<order, points>>
answersVars == <<memory, pc, calls, labels, composed, shown, accepted>>

Standings == {"live", "accepted", "dropped"}

(* A record as it was shown: with its standing, for a point's firmness.    *)
Rows(k) == [id : Of(k), standing : IF k = "H" THEN Standings ELSE {"none"}]

Firmness == {"concluded", "investigating", "judged false", "reported"}

(* Type invariant; tool calls and tries stay within their limits, and      *)
(* numbers within the labels there are.                                    *)
AnswersTypeOK ==
    /\ standing \in [Hypotheses -> Standings]
    /\ question \in {"pending", "answered", "unanswered"}
    /\ pc       \in {"idle", "tools", "replying", "composing", "done"}
    /\ calls \in 0..(IF pc = "tools" THEN MaxToolCalls ELSE MaxReplies)
    /\ \A k \in Kinds : Range(labels[k]) \subseteq Rows(k)
    /\ \A i \in DOMAIN order : order[i][2] \in DOMAIN labels[order[i][1]]
    /\ \A i \in DOMAIN points : /\ points[i].sources \subseteq DOMAIN order
                                /\ points[i].firmness \in Firmness

Afresh ==
    /\ calls' = 0
    /\ labels'  = [k \in Kinds |-> <<>>]
    /\ order'   = <<>>
    /\ points'  = <<>>
    /\ shown'   = {}
    /\ accepted' = {h \in Hypotheses : standing[h] = "accepted"}

AnswersInit ==
    /\ standing \in [Hypotheses -> Standings]
    /\ question = "pending"
    /\ answer   = <<>>
    /\ cites    = <<>>
    /\ pc       = "idle"
    /\ calls = 0
    /\ labels   = [k \in Kinds |-> <<>>]
    /\ order    = <<>>
    /\ points   = <<>>
    /\ shown    = {}
    /\ accepted = {}
-----------------------------------------------------------------------------
(* The conversation.                                                       *)

(* prepare, up to the conversation.                                        *)
Start ==
    /\ pc = "idle"
    /\ question = "pending"
    /\ Afresh
    /\ pc' = "tools"
    /\ UNCHANGED memory

\* Mutated form of First: each recall numbers its records from 1.
First_One(k) == 0

(* brief: numbering goes on where the last recall left off.                *)
First(k) == Len(labels[k])

\* The labels once rows have theirs; a label that is used again is replaced.
Labelled(k, rows) ==
    LET taken == First(k) + 1..First(k) + Len(rows) IN
    [n \in DOMAIN labels[k] \cup taken |->
        IF n \in taken THEN rows[n - First(k)] ELSE labels[k][n]]

Row(r) == [id |-> r, standing |-> IF r \in Hypotheses THEN standing[r] ELSE "none"]

(* What one recall finds of a kind: some records, in any order.            *)
Found(k) == {[i \in DOMAIN s |-> Row(s[i])] :
                s \in {t \in SeqOf(Of(k), MaxFound) : IsInjective(t)}}

\* Mutated form of MayCall: one round more.
MayCall_OneMore == calls <= MaxToolCalls
MayCall == calls < MaxToolCalls

(* _run_tools: the model calls recall. Two calls in one round are like two *)
(* rounds.                                                                 *)
Recall ==
    /\ pc = "tools"
    /\ MayCall
    /\ calls' = calls + 1
    /\ \E hs \in Found("H"), os \in Found("O") :
        LET found == [k \in Kinds |-> IF k = "H" THEN hs ELSE os] IN
        /\ labels' = [k \in Kinds |-> Labelled(k, found[k])]
        /\ shown'  = shown \cup UNION
               {{<<<<k, First(k) + i>>, found[k][i].id>> : i \in DOMAIN found[k]} : k \in Kinds}
    /\ UNCHANGED <<memory, pc, composed, accepted>>

(* A call of an unknown tool, or of recall with arguments it does not have. *)
RecallFails ==
    /\ pc = "tools"
    /\ MayCall
    /\ calls' = calls + 1
    /\ UNCHANGED <<memory, pc, labels, composed, shown, accepted>>

(* The model calls no more tools, or may not.                              *)
ToolsEnd ==
    /\ pc = "tools"
    /\ pc' = "replying"
    /\ calls' = 0
    /\ UNCHANGED <<memory, labels, composed, shown, accepted>>

(* A reply that is cut off, or not valid: the model is asked again.        *)
BadReply ==
    /\ pc = "replying"
    /\ calls < MaxReplies
    /\ calls' = calls + 1
    /\ UNCHANGED <<memory, pc, labels, composed, shown, accepted>>

(* A valid one. What it says follows point by point (AddPoint, DropPoint). *)
GoodReply ==
    /\ pc = "replying"
    /\ calls < MaxReplies
    /\ calls' = 0
    /\ pc' = "composing"
    /\ UNCHANGED <<memory, labels, composed, shown, accepted>>

(* LLMError after the last reply, or the worker fails at any time: the job *)
(* is tried again.                                                         *)
RunFails ==
    /\ pc \in {"tools", "replying", "composing"}
    /\ Afresh
    /\ pc' = "idle"
    /\ UNCHANGED memory
-----------------------------------------------------------------------------
(* compose.                                                                *)

Labels == UNION {{<<k, n>> : n \in DOMAIN labels[k]} : k \in Kinds}
Entry(l) == labels[l[1]][l[2]]

\* Mutated form of FirmnessOf: one hypothesis judged false makes the point so.
FirmnessOf_OneFalse(entries) ==
    LET standings == {e.standing : e \in entries} IN
    IF      "dropped"  \in standings THEN "judged false"
    ELSE IF "accepted" \in standings THEN "concluded"
    ELSE IF "live"     \in standings THEN "investigating"
    ELSE "reported"

(* firmness: the most that one of the hypotheses cited makes of the point. *)
FirmnessOf(entries) ==
    LET standings == {e.standing : e \in entries} IN
    IF      "accepted" \in standings THEN "concluded"
    ELSE IF "live"     \in standings THEN "investigating"
    ELSE IF "dropped"  \in standings THEN "judged false"
    ELSE "reported"

(* Labels get numbers in the order in which they are first used: those     *)
(* that no earlier point used, in any order.                               *)
Numbered(used, fresh) == IsInjective(fresh) /\ Range(fresh) = used \ Range(order)

(* A point with sources that were shown; labels that were not do not count. *)
AddPoint ==
    /\ pc = "composing"
    /\ Len(points) < MaxPoints
    /\ \E used \in SUBSET Labels, fresh \in SeqOf(Labels, MaxSources) :
        /\ used # {} /\ Cardinality(used) <= MaxSources
        /\ Numbered(used, fresh)
        /\ order'  = order \o fresh
        /\ points' = Append(points, [sources  |-> {n \in DOMAIN order' : order'[n] \in used},
                                     firmness |-> FirmnessOf({Entry(l) : l \in used}),
                                     meant    |-> used])
    /\ UNCHANGED <<memory, pc, calls, labels, shown, accepted>>

(* answer_question: one relationship for each record, in the order of the  *)
(* numbers (dict.fromkeys): where it is cited first.                       *)
FirstCited ==
    {n \in DOMAIN order : \A m \in 1..n - 1 : Entry(order[m]).id # Entry(order[n]).id}

Cited ==
    [i \in 1..Cardinality(FirstCited) |->
        LET n == CHOOSE m \in FirstCited : Cardinality({x \in FirstCited : x <= m}) = i
        IN  Entry(order[n]).id]

(* An answer is what cites something; else the question stays open.        *)
IsAnswer == order # <<>>

AnswerQuestion ==
    /\ question' = IF IsAnswer THEN "answered" ELSE "unanswered"
    /\ answer'   = points
    /\ cites'    = Cited

(* persist, in the transaction in which the job succeeds. Points without a *)
(* known source were dropped.                                              *)
PersistAnswer ==
    /\ pc = "composing"
    /\ AnswerQuestion
    /\ pc' = "done"
    /\ UNCHANGED <<standing, calls, labels, composed, shown, accepted>>

(* The Historian decides, supersedes or reviews a hypothesis again.        *)
MemoryMoves(h) ==
    /\ pc # "done"
    /\ \E s \in Standings :
        /\ standing[h] # s /\ standing[h] # "dropped"
        /\ standing' = [standing EXCEPT ![h] = s]
        /\ accepted' = IF s = "accepted" /\ pc # "idle" THEN accepted \cup {h} ELSE accepted
    /\ UNCHANGED <<question, answer, cites, pc, calls, labels, composed, shown>>

AnswersNext ==
    \/ Start \/ Recall \/ RecallFails \/ ToolsEnd \/ BadReply \/ GoodReply \/ RunFails
    \/ AddPoint \/ PersistAnswer
    \/ \E h \in Hypotheses : MemoryMoves(h)

AnswersSpec == AnswersInit /\ [][AnswersNext]_answersVars
-----------------------------------------------------------------------------
(* Properties.                                                             *)

(* Was a record cited under two labels, from two recalls? It has one       *)
(* relationship and two numbers, and the numbers after it do not fit.      *)
CitedTwice == Cardinality({Entry(l).id : l \in Range(order)}) < Len(order)

(* The numbers of a point lead the reader, through the relationships of    *)
(* the question, to the very records the model had seen under the labels   *)
(* it gave, however often it searched; unless a record is CitedTwice.      *)
NumbersLeadHome ==
    question = "answered" /\ ~CitedTwice =>
        \A i \in DOMAIN answer :
            {cites[n] : n \in answer[i].sources}
                = {s[2] : s \in {x \in shown : x[1] \in answer[i].meant}}

(* A point is put as a conclusion only if it rests on a hypothesis that    *)
(* was accepted during the run, and as judged false only if no hypothesis  *)
(* it rests on still stands.                                               *)
FirmAsMemory ==
    question = "answered" =>
        \A i \in DOMAIN answer :
            LET cited == {Entry(l).id : l \in answer[i].meant} \cap Hypotheses IN
            /\ answer[i].firmness = "concluded" => cited \cap accepted # {}
            /\ answer[i].firmness = "judged false" =>
                   \A h \in cited : standing[h] = "dropped"
=============================================================================
