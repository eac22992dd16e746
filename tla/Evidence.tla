------------------------------ MODULE Evidence ------------------------------
(***************************************************************************)
(* Hypotheses, the evidence for them and the entities they mention: how    *)
(* the runs of the Researcher (roles/researcher.py, corroborator.py,       *)
(* resolver.py, mapper.py) turn what the model says of the documents they  *)
(* read into memory (roles/base.py, memory.py, grounding.py).              *)
(*                                                                         *)
(* A run reads memory, then pages, then asks the model, for minutes; at    *)
(* the end it writes all it has in one transaction. That transaction looks *)
(* for what is there already, but is not serialized with another that does *)
(* the same, so it is two actions here.                                    *)
(*                                                                         *)
(* A document is a page and what it said when it was read, the set of the  *)
(* passages locate_excerpt would find in it. What the model answers is     *)
(* arbitrary: of its findings, one excerpt and one hypothesis are modelled *)
(* (they do not depend on one another). Critiques, which the Resolver's    *)
(* evidence also bears on, and the reliability of evidence are left out.   *)
(* All of it is of one domain.                                             *)
(***************************************************************************)
EXTENDS Integers, FiniteSets

CONSTANTS
    Workers,    \* workers that run research, corroborate, resolve and map jobs
    Pages,
    Passages,   \* what the model may quote
    Contents,   \* sets of passages: what a page may say
    Hypotheses, \* every hypothesis that may be proposed
    Statement,  \* [Hypotheses -> Statements], compared as statement_key does
    Statements,
    Names,      \* of entities, compared ignoring case
    New,        \* the label of a hypothesis the model proposes, "H1"
    Nothing,    \* no statement, no hypothesis, no document
    MaxRuns     \* bound on the runs

ASSUME EvidenceAssumption ==
    /\ Contents \subseteq SUBSET Passages
    /\ Statement \in [Hypotheses -> Statements]
    /\ Statements \cap Names = {}
    /\ Hypotheses \cap Names = {}
    /\ New \notin Hypotheses
    /\ Nothing \notin Statements \cup Hypotheses \cup (Pages \X Contents)
    /\ IsFiniteSet(Workers) /\ Workers # {}
    /\ IsFiniteSet(Hypotheses)
    /\ MaxRuns \in Nat

VARIABLES
    web,      \* what each page says now
    sources,  \* table sources: pages and the digest of their content
    evidence, \* table evidence, with its links
    status,   \* of each hypothesis
    entities, \* how many active entities have each name
    pc,       \* where each worker is
    docs,     \* the documents its run has read
    shown,    \* the hypotheses it was shown, which are labels
    adds,     \* what its transaction adds: hypotheses, names of entities,
    stores,   \* ... and evidence
    runs,     \* history: how many runs there were,
    mixed,    \* ... hypotheses that one excerpt took two stances on,
    raced     \* ... statements and names two transactions looked for side by side

memory == <<sources, evidence, status, entities>>
run    == <<pc, docs, shown, adds, stores>>
vars   == <<web, memory, run, runs, mixed, raced>>

Documents == Pages \X Contents
Stances   == {"supports", "other"}
Labels    == Hypotheses \cup {New}

(* An excerpt, the source it is stored with, and its stance on hypotheses: *)
(* to contradict one or to inform it are not told apart.                   *)
Rows == [excerpt: Passages, source: Documents, links: [Hypotheses -> Stances \cup {"none"}]]

(* Type invariant; only an open transaction has something to write.        *)
TypeOK ==
    /\ web      \in [Pages -> Contents]
    /\ sources  \subseteq Documents
    /\ evidence \subseteq Rows
    /\ status   \in [Hypotheses -> {"absent", "live", "dropped"}]
    /\ entities \in [Names -> Nat]
    /\ pc       \in [Workers -> {"idle", "researching", "supporting", "mapping", "writing"}]
    /\ docs     \in [Workers -> SUBSET Documents]
    /\ shown    \in [Workers -> SUBSET Hypotheses]
    /\ adds     \in [Workers -> SUBSET (Hypotheses \cup Names)]
    /\ stores   \in [Workers -> SUBSET Rows]
    /\ runs     \in 0..MaxRuns
    /\ mixed    \subseteq Hypotheses
    /\ raced    \subseteq Statements \cup Names
    /\ \A w \in Workers : pc[w] # "writing" => adds[w] = {} /\ stores[w] = {}

Init ==
    /\ web \in [Pages -> Contents]
    /\ sources = {} /\ evidence = {}
    /\ status   = [h \in Hypotheses |-> "absent"]
    /\ entities = [n \in Names |-> 0]
    /\ pc     = [w \in Workers |-> "idle"]
    /\ docs   = [w \in Workers |-> {}]
    /\ shown  = [w \in Workers |-> {}]
    /\ adds   = [w \in Workers |-> {}]
    /\ stores = [w \in Workers |-> {}]
    /\ runs = 0 /\ mixed = {} /\ raced = {}
-----------------------------------------------------------------------------
(* The surroundings.                                                       *)

PageChanges(p, content) ==
    /\ web[p] # content
    /\ web' = [web EXCEPT ![p] = content]
    /\ UNCHANGED <<memory, run, runs, mixed, raced>>

(* The Historian rejects, retires or supersedes a hypothesis.              *)
Drop(h) ==
    /\ status[h] = "live"
    /\ status' = [status EXCEPT ![h] = "dropped"]
    /\ UNCHANGED <<web, sources, evidence, entities, run, runs, mixed, raced>>
-----------------------------------------------------------------------------
(* A run reads.                                                            *)

Live == {h \in Hypotheses : status[h] = "live"}

(* The pages the evidence of a hypothesis was found on. *)
CitedBy(h) == {e.source[1] : e \in {x \in evidence : x.links[h] # "none"}}

Gathered(pages) == {<<p, web[p]>> : p \in pages}

Begin(w, as, hypotheses, pages) ==
    /\ pc[w] = "idle" /\ runs < MaxRuns
    /\ pc'    = [pc EXCEPT ![w] = as]
    /\ shown' = [shown EXCEPT ![w] = hypotheses]
    /\ docs'  = [docs EXCEPT ![w] = Gathered(pages)]
    /\ runs'  = runs + 1
    /\ UNCHANGED <<web, memory, adds, stores, mixed, raced>>

(* Researcher: it is shown the hypotheses of the domain, up to a limit.    *)
Research(w, hypotheses, pages) ==
    /\ hypotheses \subseteq Live
    /\ pages # {}
    /\ Begin(w, "researching", hypotheses, pages)

(* Corroborator: pages of sites not cited yet; Resolver: any.              *)
Corroborate(w, h, pages) ==
    /\ h \in Live
    /\ pages # {} /\ pages \cap CitedBy(h) = {}
    /\ Begin(w, "supporting", {h}, pages)

Resolve(w, h, pages) ==
    /\ h \in Live
    /\ pages # {}
    /\ Begin(w, "supporting", {h}, pages)

(* Mapper: it reads what is stored.                                        *)
Map(w) == Begin(w, "mapping", {}, {})

(* Nothing was found, the model fails, the worker dies, or the transaction *)
(* is rolled back.                                                         *)
GivesUp(w) ==
    /\ pc[w] # "idle"
    /\ pc'     = [pc EXCEPT ![w] = "idle"]
    /\ docs'   = [docs EXCEPT ![w] = {}]
    /\ shown'  = [shown EXCEPT ![w] = {}]
    /\ adds'   = [adds EXCEPT ![w] = {}]
    /\ stores' = [stores EXCEPT ![w] = {}]
    /\ UNCHANGED <<web, memory, runs, mixed, raced>>
-----------------------------------------------------------------------------
(* What it makes of the model's answer: an excerpt from the document cited, *)
(* if it is one of those read, with stances on labels.                      *)

Items(w) ==
    [cited: docs[w] \cup {Nothing}, excerpt: Passages,
     stances: {S \in SUBSET ((shown[w] \cup {New}) \X Stances) : Cardinality(S) \in 1..2}]

Says(doc, excerpt) == doc # Nothing /\ excerpt \in doc[2]

(* ground_evidence: the document cited if the excerpt is in it, else any   *)
(* other document it is in.                                                *)
Holders(w, item) ==
    IF Says(item.cited, item.excerpt) THEN {item.cited}
    ELSE {d \in docs[w] : Says(d, item.excerpt)}

(* The document it is attributed to; Nothing, and the excerpt is dropped.  *)
Found(w, item) == IF Holders(w, item) = {} THEN {Nothing} ELSE Holders(w, item)

\* Mutated form of Supported: by an excerpt that is in no document, too.
Supported_Ungrounded(w, item) ==
    {l \in Labels : <<l, "supports">> \in item.stances}

(* Grounding.supported: labels that a grounded excerpt supports.           *)
Supported(w, item) ==
    {l \in Labels : Holders(w, item) # {} /\ <<l, "supports">> \in item.stances}

\* Mutated form of Matching: only among the hypotheses it was shown.
Matching_Shown(w, s) == {h \in shown[w] : Statement[h] = s}

(* find_live_hypothesis, when it writes. *)
Matching(w, s) == {h \in Live : Statement[h] = s}

Fresh(s) ==
    {h \in Hypotheses : /\ status[h] = "absent" /\ Statement[h] = s
                        /\ \A v \in Workers : h \notin adds[v]}

(* What New stands for: a proposal without support is dropped, one that is *)
(* held already stands for that hypothesis, and any other is added.        *)
Meanings(w, item, s) ==
    IF s = Nothing \/ New \notin Supported(w, item) THEN {Nothing}
    ELSE IF Matching(w, s) # {} THEN Matching(w, s)
    ELSE Fresh(s)

Means(l, proposed) == IF l = New THEN proposed ELSE l

(* store_evidence: the stances on each hypothesis. Labels that stand for   *)
(* nothing are ignored.                                                    *)
StancesOn(h, item, proposed) ==
    {stance \in Stances :
        \E l \in Labels : Means(l, proposed) = h /\ <<l, stance>> \in item.stances}

(* One link for each hypothesis, though several labels may stand for it:   *)
(* the first stance, which is any since the model gives them in any order. *)
Links(item, proposed) ==
    {links \in [Hypotheses -> Stances \cup {"none"}] :
        \A h \in Hypotheses :
            LET S == StancesOn(h, item, proposed) IN
            links[h] \in (IF S = {} THEN {"none"} ELSE S)}

\* Mutated form of Recorded: a page has one source, whatever it says by now.
Recorded_ByPage(doc) ==
    IF \E s \in sources : s[1] = doc[1] THEN CHOOSE s \in sources : s[1] = doc[1] ELSE doc

(* record_source: the row with this uri and digest, or a new one.          *)
Recorded(doc) == doc

(* The evidence, stored if it is in a document and bears on something.     *)
Stored(doc, item, links) ==
    IF doc = Nothing \/ \A h \in Hypotheses : links[h] = "none" THEN {}
    ELSE {[excerpt |-> item.excerpt, source |-> Recorded(doc), links |-> links]}

Mixed(item, proposed) ==
    {h \in Hypotheses : Cardinality(StancesOn(h, item, proposed)) > 1}
-----------------------------------------------------------------------------
(* Its transaction.                                                        *)

(* Another transaction is about to add s, or what states s. *)
Races(w, s) ==
    \E v \in Workers \ {w} : \E x \in adds[v] :
        x = s \/ (x \in Hypotheses /\ Statement[x] = s)

(* Researcher, Corroborator, Resolver: persist.                            *)
Findings(w, item, s, proposed, doc, links) ==
    /\ stores' = [stores EXCEPT ![w] = Stored(doc, item, links)]
    /\ LET new == {proposed} \ (Live \cup {Nothing}) IN
        /\ adds'  = [adds EXCEPT ![w] = new]
        /\ raced' = IF new # {} /\ Races(w, s) THEN raced \cup {s} ELSE raced
    /\ mixed' = mixed \cup Mixed(item, proposed)
    /\ pc'    = [pc EXCEPT ![w] = "writing"]
    /\ UNCHANGED <<web, memory, docs, shown, runs>>

(* Mapper: find_entity.                                                    *)
Entity(w, n) ==
    /\ pc[w] = "mapping"
    /\ pc'    = [pc EXCEPT ![w] = "writing"]
    /\ \/ entities[n] > 0 /\ UNCHANGED <<adds, raced>>
       \/ /\ entities[n] = 0
          /\ adds'  = [adds EXCEPT ![w] = {n}]
          /\ raced' = IF Races(w, n) THEN raced \cup {n} ELSE raced
    /\ UNCHANGED <<web, memory, docs, shown, stores, runs, mixed>>

Commit(w) ==
    /\ pc[w] = "writing"
    /\ status'   = [h \in Hypotheses |-> IF h \in adds[w] THEN "live" ELSE status[h]]
    /\ entities' = [n \in Names |-> entities[n] + (IF n \in adds[w] THEN 1 ELSE 0)]
    /\ evidence' = evidence \cup stores[w]
    /\ sources'  = sources \cup {e.source : e \in stores[w]}
    /\ pc'     = [pc EXCEPT ![w] = "idle"]
    /\ docs'   = [docs EXCEPT ![w] = {}]
    /\ shown'  = [shown EXCEPT ![w] = {}]
    /\ adds'   = [adds EXCEPT ![w] = {}]
    /\ stores' = [stores EXCEPT ![w] = {}]
    /\ UNCHANGED <<web, runs, mixed, raced>>

Reads(w) ==
    \/ \E hypotheses \in SUBSET Live, pages \in SUBSET Pages : Research(w, hypotheses, pages)
    \/ \E h \in Hypotheses, pages \in SUBSET Pages :
          Corroborate(w, h, pages) \/ Resolve(w, h, pages)
    \/ Map(w)

Writes(w) ==
    \/ /\ pc[w] \in {"researching", "supporting"}
       /\ \E item \in Items(w), s \in (IF pc[w] = "researching" THEN Statements ELSE {})
                                      \cup {Nothing} :
          \E proposed \in Meanings(w, item, s), doc \in Found(w, item) :
          \E links \in Links(item, proposed) :
              Findings(w, item, s, proposed, doc, links)
    \/ \E n \in Names : Entity(w, n)
    \/ Commit(w)

Next ==
    \/ \E w \in Workers : Reads(w) \/ Writes(w) \/ GivesUp(w)
    \/ \E h \in Hypotheses : Drop(h)
    \/ \E p \in Pages, content \in Contents : PageChanges(p, content)

Spec == Init /\ [][Next]_vars
-----------------------------------------------------------------------------
(* Properties.                                                             *)

(* Evidence is in the words of its source: whichever document the model    *)
(* cited, the excerpt is in the page it is attributed to, as that page was *)
(* when it was read (grounding.py; record_source).                         *)
QuotesItsSource ==
    \A e \in evidence : e.source \in sources /\ e.excerpt \in e.source[2]

(* A hypothesis is only remembered with an excerpt that is in a source and *)
(* supports it (researcher.py), however it was labelled and whatever came  *)
(* to be known since the model was shown memory. An excerpt that takes two *)
(* stances on it may be linked with the other one.                         *)
NewIsSupported ==
    \A h \in Hypotheses : status[h] # "absent" =>
        \E e \in evidence :
            \/ e.links[h] = "supports"
            \/ h \in mixed /\ e.links[h] # "none"

(* The organization holds one hypothesis with a statement and one entity   *)
(* with a name, unless transactions overlapped, and then one for every     *)
(* worker: several runs about the same thing add to what is held.          *)
Limit(x) == IF x \in raced THEN Cardinality(Workers) ELSE 1

OneOfEach ==
    /\ \A s \in Statements : Cardinality({h \in Live : Statement[h] = s}) <= Limit(s)
    /\ \A n \in Names : entities[n] <= Limit(n)
=============================================================================
