--------------------------- MODULE EvidenceProofs ---------------------------
(***************************************************************************)
(* Proofs about Evidence, for any number of workers, pages, hypotheses and *)
(* names.                                                                  *)
(***************************************************************************)
EXTENDS Evidence, FiniteSetTheorems, TLAPS

(* What is about to be written quotes what it is attributed to, ...        *)
WritesQuotes == \A w \in Workers : \A e \in stores[w] : e.excerpt \in e.source[2]

(* ... and brings the support of the hypotheses written with it.           *)
Backs(e, h) ==
    \/ e.links[h] = "supports"
    \/ h \in mixed /\ e.links[h] # "none"

WritesSupported ==
    \A w \in Workers : \A h \in adds[w] \cap Hypotheses : \E e \in stores[w] : Backs(e, h)

(* The hypotheses with a statement, the workers about to add one with it,  *)
(* and those about to add an entity with a name.                           *)
Held(s)     == {h \in Live : Statement[h] = s}
Adding(s)   == {w \in Workers : \E h \in adds[w] \cap Hypotheses : Statement[h] = s}
AddingTo(n) == {w \in Workers : n \in adds[w]}

OneStatement(s) == Cardinality(Held(s)) + Cardinality(Adding(s)) <= Limit(s)
OneName(n)      == entities[n] + Cardinality(AddingTo(n)) <= Limit(n)

(* A transaction adds one thing.                                           *)
OneAdded == \A w \in Workers : \A x, y \in adds[w] : x = y

(* The inductive invariant. *)
IInv ==
    /\ TypeOK
    /\ QuotesItsSource /\ WritesQuotes
    /\ NewIsSupported /\ WritesSupported
    /\ OneAdded
    /\ \A s \in Statements : OneStatement(s)
    /\ \A n \in Names : OneName(n)
-----------------------------------------------------------------------------
(* What a run may find.                                                    *)

NewOf(proposed) == {proposed} \ (Live \cup {Nothing})

LEMMA StoredWell ==
    ASSUME TypeOK, NEW w \in Workers, NEW item \in Items(w), NEW doc \in Found(w, item),
           NEW proposed, NEW links \in Links(item, proposed),
           NEW e \in Stored(doc, item, links)
    PROVE  e \in Rows /\ e.excerpt \in e.source[2]
<1>1. /\ doc # Nothing
      /\ e = [excerpt |-> item.excerpt, source |-> doc, links |-> links]
  BY DEF Stored, Recorded
<1>2. item.excerpt \in Passages /\ item.cited \in docs[w] \cup {Nothing}
  BY DEF Items
<1>3. doc \in docs[w] /\ item.excerpt \in doc[2]
  BY <1>1, <1>2 DEF Found, Holders, Says
<1>4. docs[w] \subseteq Documents
  BY DEF TypeOK
<1>5. links \in [Hypotheses -> Stances \cup {"none"}]
  BY DEF Links
<1> QED
  BY <1>1, <1>2, <1>3, <1>4, <1>5 DEF Rows

LEMMA TwoOfThem == ASSUME NEW a, NEW b, a # b PROVE Cardinality({a} \cup {b}) = 2
<1>1. IsFiniteSet({a}) /\ Cardinality({a}) = 1
  BY FS_Singleton
<1>2. b \notin {a} /\ Cardinality({a} \cup {b}) = Cardinality({a}) + 1
  BY <1>1, FS_AddElement
<1> QED
  BY <1>1, <1>2

LEMMA ProposedWell ==
    ASSUME TypeOK, NEW w \in Workers, NEW item \in Items(w), NEW doc \in Found(w, item),
           NEW s, NEW proposed \in Meanings(w, item, s), NEW links \in Links(item, proposed),
           NEW h \in NewOf(proposed)
    PROVE  /\ h = proposed /\ h \in Hypotheses /\ Statement[h] = s /\ Held(s) = {}
           /\ \E e \in Stored(doc, item, links) :
                 \/ e.links[h] = "supports"
                 \/ h \in Mixed(item, proposed) /\ e.links[h] # "none"
<1>1. h = proposed /\ h # Nothing /\ h \notin Live
  BY DEF NewOf
<1>2. New \in Supported(w, item) /\ Matching(w, s) = {} /\ h \in Fresh(s)
  BY <1>1 DEF Meanings, Matching
<1>3. h \in Hypotheses /\ Statement[h] = s /\ Held(s) = {}
  BY <1>2 DEF Fresh, Matching, Held
<1>4. Holders(w, item) # {} /\ <<New, "supports">> \in item.stances
  BY <1>2 DEF Supported
<1>5. doc # Nothing
  BY <1>4 DEF Found, Holders, Says
<1>6. "supports" \in StancesOn(h, item, proposed)
  BY <1>1, <1>4 DEF StancesOn, Stances, Labels, Means
<1>7. links[h] \in StancesOn(h, item, proposed) /\ StancesOn(h, item, proposed) \subseteq Stances
  BY <1>3, <1>6 DEF Links, StancesOn
<1>8. links[h] # "none"
  BY <1>7 DEF Stances
<1>9. links[h] = "supports" \/ h \in Mixed(item, proposed)
  <2>1. CASE links[h] = "other"
    <3>1. StancesOn(h, item, proposed) = {"supports"} \cup {"other"}
      BY <1>6, <1>7, <2>1 DEF Stances
    <3>2. Cardinality({"supports"} \cup {"other"}) = 2
      BY TwoOfThem
    <3> QED
      BY <1>3, <3>1, <3>2 DEF Mixed
  <2> QED
    BY <1>7, <2>1 DEF Stances
<1>10. [excerpt |-> item.excerpt, source |-> doc, links |-> links] \in Stored(doc, item, links)
  BY <1>3, <1>5, <1>8 DEF Stored, Recorded
<1> QED
  BY <1>1, <1>3, <1>8, <1>9, <1>10

(* The kinds of steps. *)
Elsewhere == UNCHANGED <<memory, adds, stores, mixed, raced>>

Finding(w) ==
    \E item \in Items(w), s \in Statements \cup {Nothing} :
      \E proposed \in Meanings(w, item, s), doc \in Found(w, item) :
        \E links \in Links(item, proposed) : Findings(w, item, s, proposed, doc, links)

LEMMA WritesKinds ==
    ASSUME NEW w \in Workers, Writes(w)
    PROVE  Finding(w) \/ Commit(w) \/ \E n \in Names : Entity(w, n)
<1>1. ASSUME NEW item \in Items(w),
             NEW s \in (IF pc[w] = "researching" THEN Statements ELSE {}) \cup {Nothing},
             NEW proposed \in Meanings(w, item, s), NEW doc \in Found(w, item),
             NEW links \in Links(item, proposed), Findings(w, item, s, proposed, doc, links)
      PROVE  Finding(w)
  <2>1. s \in Statements \cup {Nothing}
    OBVIOUS
  <2> QED
    BY <1>1, <2>1 DEF Finding
<1> QED
  BY <1>1 DEF Writes

LEMMA Kinds ==
    ASSUME [Next]_vars
    PROVE  \/ Elsewhere
           \/ \E h \in Hypotheses : Drop(h)
           \/ \E w \in Workers : GivesUp(w) \/ Finding(w) \/ Commit(w)
           \/ \E w \in Workers, n \in Names : Entity(w, n)
<1>1. ASSUME NEW w \in Workers, Reads(w) PROVE Elsewhere
  BY <1>1 DEF Reads, Research, Corroborate, Resolve, Map, Begin, Elsewhere
<1>2. ASSUME NEW p, NEW content, PageChanges(p, content) PROVE Elsewhere
  BY <1>2 DEF PageChanges, run, Elsewhere
<1>3. CASE UNCHANGED vars
  BY <1>3 DEF vars, run, Elsewhere
<1> QED
  BY <1>1, <1>2, <1>3, WritesKinds DEF Next
-----------------------------------------------------------------------------
(* Typing.                                                                 *)

LEMMA TypeInitially == Init => TypeOK
<1> SUFFICES ASSUME Init PROVE TypeOK
  OBVIOUS
<1>1. 0 \in 0..MaxRuns
  BY EvidenceAssumption
<1> QED
  BY <1>1 DEF Init, TypeOK

LEMMA BeginTyped ==
    ASSUME TypeOK, NEW w \in Workers, NEW as \in {"researching", "supporting", "mapping"},
           NEW hypotheses \in SUBSET Hypotheses, NEW pages \in SUBSET Pages,
           Begin(w, as, hypotheses, pages)
    PROVE  TypeOK'
<1>1. Gathered(pages) \in SUBSET Documents
  BY DEF Gathered, Documents, TypeOK
<1>2. /\ pc' \in [Workers -> {"idle", "researching", "supporting", "mapping", "writing"}]
      /\ docs' \in [Workers -> SUBSET Documents]
      /\ shown' \in [Workers -> SUBSET Hypotheses]
  BY <1>1 DEF Begin, TypeOK
<1>3. runs' \in 0..MaxRuns
  <2>1. runs \in 0..MaxRuns /\ MaxRuns \in Nat
    BY EvidenceAssumption DEF TypeOK
  <2> QED
    BY <2>1 DEF Begin
<1>4. \A v \in Workers : pc'[v] # "writing" => adds'[v] = {} /\ stores'[v] = {}
  BY DEF Begin, TypeOK
<1>5. UNCHANGED <<web, memory, adds, stores, mixed, raced>>
  BY DEF Begin
<1> QED
  BY <1>2, <1>3, <1>4, <1>5 DEF memory, TypeOK

LEMMA TypeNext == ASSUME TypeOK, [Next]_vars PROVE TypeOK'
<1>1. ASSUME NEW w \in Workers, Reads(w) PROVE TypeOK'
  <2>1. Live \subseteq Hypotheses
    BY DEF Live
  <2>2. PICK as \in {"researching", "supporting", "mapping"},
             hypotheses \in SUBSET Hypotheses, pages \in SUBSET Pages :
               Begin(w, as, hypotheses, pages)
    <3>1. ASSUME NEW hypotheses \in SUBSET Live, NEW pages \in SUBSET Pages,
                 Research(w, hypotheses, pages)
          PROVE  Begin(w, "researching", hypotheses, pages)
      BY <3>1 DEF Research
    <3>2. ASSUME NEW h \in Hypotheses, NEW pages \in SUBSET Pages,
                 Corroborate(w, h, pages) \/ Resolve(w, h, pages)
          PROVE  Begin(w, "supporting", {h}, pages)
      BY <3>2 DEF Corroborate, Resolve
    <3>3. Map(w) => Begin(w, "mapping", {}, {})
      BY DEF Map
    <3> QED
      BY <1>1, <2>1, <3>1, <3>2, <3>3 DEF Reads
  <2> QED
    BY <2>2, BeginTyped
<1>2. ASSUME NEW w \in Workers, GivesUp(w) PROVE TypeOK'
  BY <1>2 DEF GivesUp, memory, TypeOK
<1>3. ASSUME NEW w \in Workers, Finding(w) PROVE TypeOK'
  <2>1. PICK item \in Items(w), s \in Statements \cup {Nothing} :
          \E proposed \in Meanings(w, item, s), doc \in Found(w, item) :
            \E links \in Links(item, proposed) : Findings(w, item, s, proposed, doc, links)
    BY <1>3 DEF Finding
  <2>a. PICK proposed \in Meanings(w, item, s), doc \in Found(w, item) :
          \E links \in Links(item, proposed) : Findings(w, item, s, proposed, doc, links)
    BY <2>1
  <2>2. PICK links \in Links(item, proposed) : Findings(w, item, s, proposed, doc, links)
    BY <2>a
  <2>3. Stored(doc, item, links) \in SUBSET Rows
    BY StoredWell
  <2>4. NewOf(proposed) \in SUBSET (Hypotheses \cup Names)
    BY ProposedWell
  <2>5. /\ stores' = [stores EXCEPT ![w] = Stored(doc, item, links)]
        /\ adds' = [adds EXCEPT ![w] = NewOf(proposed)]
        /\ pc' = [pc EXCEPT ![w] = "writing"]
        /\ mixed' = mixed \cup Mixed(item, proposed)
        /\ UNCHANGED <<web, memory, docs, shown, runs>>
    BY <2>2 DEF Findings, NewOf
  <2>6. raced' \subseteq Statements \cup Names
    <3>1. CASE raced' = raced
      BY <3>1 DEF TypeOK
    <3>2. CASE NewOf(proposed) # {} /\ raced' = raced \cup {s}
      <4>1. PICK h \in NewOf(proposed) : TRUE
        BY <3>2
      <4>2. s \in Statements
        BY <4>1, ProposedWell, EvidenceAssumption
      <4> QED
        BY <3>2, <4>2 DEF TypeOK
    <3> QED
      BY <2>2, <3>1, <3>2 DEF Findings, NewOf
  <2>7. stores' \in [Workers -> SUBSET Rows] /\ adds' \in [Workers -> SUBSET (Hypotheses \cup Names)]
    BY <2>3, <2>4, <2>5 DEF TypeOK
  <2>8. /\ pc' \in [Workers -> {"idle", "researching", "supporting", "mapping", "writing"}]
        /\ \A v \in Workers : pc'[v] # "writing" => adds'[v] = {} /\ stores'[v] = {}
        /\ mixed' \subseteq Hypotheses
    BY <2>5 DEF TypeOK, Mixed
  <2> QED
    BY <2>5, <2>6, <2>7, <2>8 DEF memory, TypeOK
<1>4. ASSUME NEW w \in Workers, NEW n \in Names, Entity(w, n) PROVE TypeOK'
  BY <1>4 DEF Entity, memory, TypeOK
<1>5. ASSUME NEW w \in Workers, Commit(w) PROVE TypeOK'
  <2>1. stores[w] \subseteq Rows
    BY DEF TypeOK
  <2>2. sources' \subseteq Documents /\ evidence' \subseteq Rows
    BY <1>5, <2>1 DEF Commit, TypeOK, Rows
  <2>3. status' \in [Hypotheses -> {"absent", "live", "dropped"}] /\ entities' \in [Names -> Nat]
    BY <1>5 DEF Commit, TypeOK
  <2>4. /\ pc' \in [Workers -> {"idle", "researching", "supporting", "mapping", "writing"}]
        /\ docs' \in [Workers -> SUBSET Documents]
        /\ shown' \in [Workers -> SUBSET Hypotheses]
        /\ adds' \in [Workers -> SUBSET (Hypotheses \cup Names)]
        /\ stores' \in [Workers -> SUBSET Rows]
        /\ \A v \in Workers : pc'[v] # "writing" => adds'[v] = {} /\ stores'[v] = {}
    BY <1>5 DEF Commit, TypeOK
  <2> QED
    BY <1>5, <2>2, <2>3, <2>4 DEF Commit, TypeOK
<1>6. ASSUME NEW h \in Hypotheses, Drop(h) PROVE TypeOK'
  BY <1>6 DEF Drop, run, TypeOK
<1>7. ASSUME NEW p \in Pages, NEW content \in Contents, PageChanges(p, content) PROVE TypeOK'
  BY <1>7 DEF PageChanges, memory, run, TypeOK
<1>8. CASE UNCHANGED vars
  BY <1>8 DEF vars, memory, run, TypeOK
<1> QED
  BY <1>1, <1>2, <1>3, <1>4, <1>5, <1>6, <1>7, <1>8, WritesKinds DEF Next
-----------------------------------------------------------------------------
(* What a transaction of the Researcher writes.                            *)
WritesAs(w, s, new, found, both) ==
    /\ stores' = [stores EXCEPT ![w] = found]
    /\ adds' = [adds EXCEPT ![w] = new]
    /\ mixed' = mixed \cup both
    /\ raced' = IF new # {} /\ Races(w, s) THEN raced \cup {s} ELSE raced
    /\ UNCHANGED memory
    /\ \A e \in found : e.excerpt \in e.source[2]
    /\ \A h \in new : /\ Statement[h] = s /\ Held(s) = {}
                      /\ \E e \in found : \/ e.links[h] = "supports"
                                          \/ h \in both /\ e.links[h] # "none"
    /\ \A x, y \in new : x = y

LEMMA FindingWrites ==
    ASSUME TypeOK, NEW w \in Workers, Finding(w)
    PROVE  \E s \in Statements \cup {Nothing}, new \in SUBSET Hypotheses,
              found \in SUBSET Rows, both \in SUBSET Hypotheses :
                  WritesAs(w, s, new, found, both)
<1>1. PICK item \in Items(w), s \in Statements \cup {Nothing} :
        \E proposed \in Meanings(w, item, s), doc \in Found(w, item) :
          \E links \in Links(item, proposed) : Findings(w, item, s, proposed, doc, links)
  BY DEF Finding
<1>2. PICK proposed \in Meanings(w, item, s), doc \in Found(w, item) :
        \E links \in Links(item, proposed) : Findings(w, item, s, proposed, doc, links)
  BY <1>1
<1>3. PICK links \in Links(item, proposed) : Findings(w, item, s, proposed, doc, links)
  BY <1>2
<1> DEFINE new   == NewOf(proposed)
           found == Stored(doc, item, links)
           both  == Mixed(item, proposed)
<1>4. /\ stores' = [stores EXCEPT ![w] = found] /\ adds' = [adds EXCEPT ![w] = new]
      /\ mixed' = mixed \cup both
      /\ raced' = IF new # {} /\ Races(w, s) THEN raced \cup {s} ELSE raced
      /\ UNCHANGED memory
  BY <1>3 DEF Findings, NewOf
<1>5. found \in SUBSET Rows /\ \A e \in found : e.excerpt \in e.source[2]
  BY StoredWell
<1>6. new \in SUBSET Hypotheses /\ both \in SUBSET Hypotheses
  BY ProposedWell DEF Mixed
<1>7. \A h \in new : /\ Statement[h] = s /\ Held(s) = {}
                     /\ \E e \in found : \/ e.links[h] = "supports"
                                         \/ h \in both /\ e.links[h] # "none"
  BY ProposedWell
<1>8. \A x, y \in new : x = y
  BY DEF NewOf
<1> HIDE DEF new, found, both
<1>9. WritesAs(w, s, new, found, both)
  BY <1>4, <1>5, <1>7, <1>8 DEF WritesAs
<1> QED
  BY <1>5, <1>6, <1>9

-----------------------------------------------------------------------------
(* What evidence says.                                                     *)

LEMMA QuotesNext ==
    ASSUME TypeOK, QuotesItsSource, WritesQuotes, [Next]_vars
    PROVE  QuotesItsSource' /\ WritesQuotes'
<1>1. CASE Elsewhere
  BY <1>1 DEF Elsewhere, memory, QuotesItsSource, WritesQuotes
<1>2. ASSUME NEW h \in Hypotheses, Drop(h) PROVE QuotesItsSource' /\ WritesQuotes'
  BY <1>2 DEF Drop, run, QuotesItsSource, WritesQuotes
<1>3. ASSUME NEW w \in Workers, GivesUp(w) PROVE QuotesItsSource' /\ WritesQuotes'
  BY <1>3 DEF GivesUp, memory, TypeOK, QuotesItsSource, WritesQuotes
<1>4. ASSUME NEW w \in Workers, Finding(w) PROVE QuotesItsSource' /\ WritesQuotes'
  <2>p. PICK s \in Statements \cup {Nothing}, new \in SUBSET Hypotheses,
             found \in SUBSET Rows, both \in SUBSET Hypotheses :
                 WritesAs(w, s, new, found, both)
    BY <1>4, FindingWrites
  <2>1. /\ stores' = [stores EXCEPT ![w] = found] /\ UNCHANGED memory
        /\ \A e \in found : e.excerpt \in e.source[2]
    BY <2>p DEF WritesAs
  <2> QED
    BY <2>1 DEF memory, TypeOK, QuotesItsSource, WritesQuotes
<1>5. ASSUME NEW w \in Workers, Commit(w) PROVE QuotesItsSource' /\ WritesQuotes'
  <2>1. WritesQuotes'
    BY <1>5 DEF Commit, TypeOK, WritesQuotes
  <2>2. /\ evidence' = evidence \cup stores[w]
        /\ sources' = sources \cup {e.source : e \in stores[w]}
    BY <1>5 DEF Commit
  <2> QED
    BY <2>1, <2>2 DEF QuotesItsSource, WritesQuotes
<1>6. ASSUME NEW w \in Workers, NEW n \in Names, Entity(w, n)
      PROVE  QuotesItsSource' /\ WritesQuotes'
  BY <1>6 DEF Entity, memory, QuotesItsSource, WritesQuotes
<1> QED
  BY <1>1, <1>2, <1>3, <1>4, <1>5, <1>6, Kinds

LEMMA SupportedNext ==
    ASSUME TypeOK, NewIsSupported, WritesSupported, [Next]_vars
    PROVE  NewIsSupported' /\ WritesSupported'
<1>0. NewIsSupported <=> \A h \in Hypotheses : status[h] # "absent" => \E e \in evidence : Backs(e, h)
  BY DEF NewIsSupported, Backs
<1>p. NewIsSupported' <=>
        \A h \in Hypotheses : status'[h] # "absent" => \E e \in evidence' : Backs(e, h)'
  BY DEF NewIsSupported, Backs
<1>m. mixed \subseteq mixed' => \A e, h : Backs(e, h) => Backs(e, h)'
  BY DEF Backs
<1>1. CASE Elsewhere
  BY <1>1 DEF Elsewhere, memory, NewIsSupported, WritesSupported, Backs
<1>2. ASSUME NEW h \in Hypotheses, Drop(h) PROVE NewIsSupported' /\ WritesSupported'
  BY <1>2 DEF Drop, run, TypeOK, NewIsSupported, WritesSupported, Backs
<1>3. ASSUME NEW w \in Workers, GivesUp(w) PROVE NewIsSupported' /\ WritesSupported'
  BY <1>3 DEF GivesUp, memory, TypeOK, NewIsSupported, WritesSupported, Backs
<1>4. ASSUME NEW w \in Workers, Finding(w) PROVE NewIsSupported' /\ WritesSupported'
  <2>p. PICK s \in Statements \cup {Nothing}, new \in SUBSET Hypotheses,
             found \in SUBSET Rows, both \in SUBSET Hypotheses :
                 WritesAs(w, s, new, found, both)
    BY <1>4, FindingWrites
  <2>1. /\ stores' = [stores EXCEPT ![w] = found] /\ adds' = [adds EXCEPT ![w] = new]
        /\ mixed' = mixed \cup both
        /\ UNCHANGED memory
        /\ \A h \in new : \E e \in found : \/ e.links[h] = "supports"
                                           \/ h \in both /\ e.links[h] # "none"
    BY <2>p DEF WritesAs
  <2>2. NewIsSupported'
    BY <1>0, <1>p, <1>m, <2>1 DEF memory
  <2>3. ASSUME NEW v \in Workers, NEW h \in adds'[v] \cap Hypotheses
        PROVE  \E e \in stores'[v] : Backs(e, h)'
    <3>1. CASE v = w
      BY <2>1, <2>3, <3>1 DEF Backs, TypeOK
    <3>2. CASE v # w
      BY <1>m, <2>1, <2>3, <3>2 DEF WritesSupported, TypeOK
    <3> QED
      BY <3>1, <3>2
  <2> QED
    BY <2>2, <2>3 DEF WritesSupported
<1>5. ASSUME NEW w \in Workers, Commit(w) PROVE NewIsSupported' /\ WritesSupported'
  <2>1. /\ mixed' = mixed /\ evidence' = evidence \cup stores[w]
        /\ status' = [h \in Hypotheses |-> IF h \in adds[w] THEN "live" ELSE status[h]]
        /\ adds' = [adds EXCEPT ![w] = {}] /\ stores' = [stores EXCEPT ![w] = {}]
    BY <1>5 DEF Commit
  <2>2. WritesSupported'
    BY <1>m, <2>1 DEF WritesSupported, TypeOK
  <2>3. NewIsSupported'
    BY <1>0, <1>p, <1>m, <2>1 DEF WritesSupported
  <2> QED
    BY <2>2, <2>3
<1>6. ASSUME NEW w \in Workers, NEW n \in Names, Entity(w, n)
      PROVE  NewIsSupported' /\ WritesSupported'
  <2>1. UNCHANGED <<memory, stores, mixed>> /\ adds' \in {adds, [adds EXCEPT ![w] = {n}]}
    BY <1>6 DEF Entity
  <2>2. n \notin Hypotheses
    BY EvidenceAssumption
  <2> QED
    BY <1>0, <1>p, <1>m, <2>1, <2>2 DEF memory, TypeOK, WritesSupported
<1> QED
  BY <1>1, <1>2, <1>3, <1>4, <1>5, <1>6, Kinds

LEMMA OneAddedNext == ASSUME TypeOK, OneAdded, [Next]_vars PROVE OneAdded'
<1>1. CASE Elsewhere
  BY <1>1 DEF Elsewhere, OneAdded
<1>2. ASSUME NEW h \in Hypotheses, Drop(h) PROVE OneAdded'
  BY <1>2 DEF Drop, run, OneAdded
<1>3. ASSUME NEW w \in Workers, GivesUp(w) \/ Commit(w) PROVE OneAdded'
  BY <1>3 DEF GivesUp, Commit, TypeOK, OneAdded
<1>4. ASSUME NEW w \in Workers, Finding(w) PROVE OneAdded'
  <2>p. PICK s \in Statements \cup {Nothing}, new \in SUBSET Hypotheses,
             found \in SUBSET Rows, both \in SUBSET Hypotheses :
                 WritesAs(w, s, new, found, both)
    BY <1>4, FindingWrites
  <2>1. adds' = [adds EXCEPT ![w] = new] /\ \A x, y \in new : x = y
    BY <2>p DEF WritesAs
  <2> QED
    BY <2>1 DEF TypeOK, OneAdded
<1>5. ASSUME NEW w \in Workers, NEW n \in Names, Entity(w, n) PROVE OneAdded'
  BY <1>5 DEF Entity, TypeOK, OneAdded
<1> QED
  BY <1>1, <1>2, <1>3, <1>4, <1>5, Kinds
-----------------------------------------------------------------------------
(* One of each.                                                            *)

LEMMA Numbers == Cardinality(Workers) \in Nat /\ Cardinality(Workers) >= 1
<1>1. IsFiniteSet(Workers) /\ Workers # {}
  BY EvidenceAssumption
<1>2. Cardinality(Workers) \in Nat /\ Cardinality(Workers) # 0
  BY <1>1, FS_CardinalityType, FS_EmptySet
<1> QED
  BY <1>2

LEMMA AllFinite ==
    \A x : IsFiniteSet(Held(x)) /\ IsFiniteSet(Adding(x)) /\ IsFiniteSet(AddingTo(x))
BY EvidenceAssumption, FS_Subset DEF Held, Live, Adding, AddingTo

LEMMA LimitsRise ==
    ASSUME raced \subseteq raced', NEW x
    PROVE  /\ Limit(x) \in Nat /\ Limit(x)' \in Nat /\ Limit(x) >= 1 /\ Limit(x)' >= 1
           /\ Limit(x) <= Limit(x)'
BY Numbers DEF Limit

(* Within a limit, for whatever set of workers may add and of the kind held. *)
LEMMA Fewer ==
    ASSUME NEW A, NEW B, NEW A2, NEW B2, NEW N \in Nat, NEW N2 \in Nat, N <= N2,
           IsFiniteSet(A), IsFiniteSet(B),
           A2 \subseteq A, B2 \subseteq B, Cardinality(A) + Cardinality(B) <= N
    PROVE  Cardinality(A2) + Cardinality(B2) <= N2
<1>1. /\ Cardinality(A2) \in Nat /\ Cardinality(A) \in Nat /\ Cardinality(A2) <= Cardinality(A)
      /\ Cardinality(B2) \in Nat /\ Cardinality(B) \in Nat /\ Cardinality(B2) <= Cardinality(B)
  BY FS_Subset, FS_CardinalityType
<1> QED
  BY <1>1

LEMMA OneMore ==
    ASSUME NEW A, NEW A2, NEW a, IsFiniteSet(A), A2 \subseteq A \cup {a}
    PROVE  /\ Cardinality(A) \in Nat /\ Cardinality(A2) \in Nat
           /\ Cardinality(A2) <= Cardinality(A) + 1
<1>1. /\ IsFiniteSet(A \cup {a}) /\ Cardinality(A) \in Nat
      /\ Cardinality(A \cup {a}) \in {Cardinality(A), Cardinality(A) + 1}
  BY FS_AddElement, FS_CardinalityType
<1>2. /\ Cardinality(A2) \in Nat /\ Cardinality(A2) <= Cardinality(A \cup {a})
  BY <1>1, FS_Subset, FS_CardinalityType
<1> QED
  BY <1>1, <1>2

LEMMA OneLess ==
    ASSUME NEW B, NEW B2, NEW b \in B, IsFiniteSet(B), B2 \subseteq B \ {b}
    PROVE  /\ Cardinality(B) \in Nat /\ Cardinality(B2) \in Nat
           /\ Cardinality(B2) <= Cardinality(B) - 1
<1>1. /\ IsFiniteSet(B \ {b}) /\ Cardinality(B) \in Nat
      /\ Cardinality(B \ {b}) = Cardinality(B) - 1
  BY FS_RemoveElement, FS_CardinalityType
<1>2. /\ Cardinality(B2) \in Nat /\ Cardinality(B2) <= Cardinality(B \ {b})
  BY <1>1, FS_Subset, FS_CardinalityType
<1> QED
  BY <1>1, <1>2

(* A transaction that finds nothing held adds the only one, or is raced.   *)
LEMMA FirstOrRaced ==
    ASSUME NEW x, NEW B2 \in SUBSET Workers, NEW w \in Workers, raced \subseteq raced',
           x \in raced' \/ B2 \subseteq {w}
    PROVE  Cardinality(B2) \in Nat /\ Cardinality(B2) <= Limit(x)'
<1>1. Cardinality(B2) \in Nat /\ Cardinality(B2) <= Cardinality(Workers)
  BY EvidenceAssumption, FS_Subset, FS_CardinalityType
<1>2. CASE x \in raced'
  BY <1>1, <1>2 DEF Limit
<1>3. CASE B2 \subseteq {w}
  <2>0. IsFiniteSet({w}) /\ Cardinality({w}) = 1
    BY FS_Singleton
  <2>1. Cardinality(B2) <= 1
    BY <1>3, <2>0, FS_Subset
  <2> QED
    BY <1>1, <2>1, LimitsRise, Numbers
<1> QED
  BY <1>2, <1>3

LEMMA StatementsNext ==
    ASSUME TypeOK, OneAdded, [Next]_vars, NEW t \in Statements, OneStatement(t)
    PROVE  OneStatement(t)'
<1>f. Cardinality(Held(t)) + Cardinality(Adding(t)) <= Limit(t)
  BY DEF OneStatement
<1>g. Cardinality(Held(t)') + Cardinality(Adding(t)') <= Limit(t)' => OneStatement(t)'
  BY DEF OneStatement
<1>0. CASE Held(t)' \subseteq Held(t) /\ Adding(t)' \subseteq Adding(t) /\ raced \subseteq raced'
  BY <1>0, <1>f, <1>g, LimitsRise, AllFinite, Fewer
<1>1. CASE Elsewhere
  BY <1>0, <1>1 DEF Elsewhere, memory, Held, Live, Adding
<1>2. ASSUME NEW h \in Hypotheses, Drop(h) PROVE OneStatement(t)'
  <2>1. Held(t)' \subseteq Held(t)
    BY <1>2 DEF Drop, TypeOK, Held, Live
  <2>2. Adding(t)' = Adding(t) /\ raced' = raced
    BY <1>2 DEF Drop, run, Adding
  <2> QED
    BY <1>0, <2>1, <2>2
<1>3. ASSUME NEW w \in Workers, GivesUp(w) PROVE OneStatement(t)'
  <2>1. Held(t)' = Held(t) /\ raced' = raced
    BY <1>3 DEF GivesUp, memory, Held, Live
  <2>2. Adding(t)' \subseteq Adding(t)
    BY <1>3 DEF GivesUp, TypeOK, Adding
  <2> QED
    BY <1>0, <2>1, <2>2
<1>4. ASSUME NEW w \in Workers, Finding(w) PROVE OneStatement(t)'
  <2>p. PICK s \in Statements \cup {Nothing}, new \in SUBSET Hypotheses,
             found \in SUBSET Rows, both \in SUBSET Hypotheses :
                 WritesAs(w, s, new, found, both)
    BY <1>4, FindingWrites
  <2>1. /\ adds' = [adds EXCEPT ![w] = new]
        /\ raced' = IF new # {} /\ Races(w, s) THEN raced \cup {s} ELSE raced
        /\ UNCHANGED memory
        /\ \A h \in new : Statement[h] = s /\ Held(s) = {}
    BY <2>p DEF WritesAs
  <2>2. Held(t)' = Held(t) /\ raced \subseteq raced'
    BY <2>1 DEF memory, Held, Live
  <2>3. CASE \A h \in new : Statement[h] # t
    <3>1. Adding(t)' \subseteq Adding(t)
      BY <2>1, <2>3 DEF TypeOK, Adding
    <3> QED
      BY <1>0, <2>2, <3>1
  <2>4. ASSUME NEW h \in new, Statement[h] = t PROVE OneStatement(t)'
    <3>1. s = t /\ Held(t)' = {}
      BY <2>1, <2>2, <2>4
    <3>2. Adding(t)' \in SUBSET Workers
      BY DEF Adding
    <3>3. CASE Races(w, t)
      <4>1. t \in raced'
        BY <2>1, <2>4, <3>1, <3>3
      <4>2. Cardinality(Adding(t)') \in Nat /\ Cardinality(Adding(t)') <= Limit(t)'
        BY <2>2, <3>2, <4>1, FirstOrRaced
      <4> QED
        BY <1>g, <3>1, <4>2, LimitsRise, <2>2, FS_EmptySet
    <3>4. CASE ~Races(w, t)
      <4>1. Adding(t)' \subseteq {w}
        BY <2>1, <3>4 DEF Races, TypeOK, Adding
      <4>2. Cardinality(Adding(t)') \in Nat /\ Cardinality(Adding(t)') <= Limit(t)'
        BY <2>2, <3>2, <4>1, FirstOrRaced
      <4> QED
        BY <1>g, <3>1, <4>2, LimitsRise, <2>2, FS_EmptySet
    <3> QED
      BY <3>3, <3>4
  <2> QED
    BY <2>3, <2>4
<1>5. ASSUME NEW w \in Workers, Commit(w) PROVE OneStatement(t)'
  <2>1. /\ raced' = raced /\ adds' = [adds EXCEPT ![w] = {}]
        /\ status' = [h \in Hypotheses |-> IF h \in adds[w] THEN "live" ELSE status[h]]
    BY <1>5 DEF Commit
  <2>2. Adding(t)' \subseteq Adding(t) \ {w}
    BY <2>1 DEF TypeOK, Adding
  <2>3. CASE \A h \in adds[w] \cap Hypotheses : Statement[h] # t
    <3>1. Held(t)' \subseteq Held(t)
      BY <2>1, <2>3 DEF Held, Live
    <3> QED
      BY <1>0, <2>1, <2>2, <3>1
  <2>4. ASSUME NEW h \in adds[w] \cap Hypotheses, Statement[h] = t PROVE OneStatement(t)'
    <3>1. Held(t)' \subseteq Held(t) \cup {h}
      BY <2>1 DEF Held, Live, OneAdded
    <3>2. w \in Adding(t)
      BY <2>4 DEF Adding
    <3>3. /\ IsFiniteSet(Held(t)) /\ IsFiniteSet(Adding(t))
          /\ Limit(t) \in Nat /\ Limit(t)' \in Nat /\ Limit(t) <= Limit(t)'
      BY <2>1, AllFinite, LimitsRise
    <3>4. /\ Cardinality(Held(t)) \in Nat /\ Cardinality(Held(t)') \in Nat
          /\ Cardinality(Held(t)') <= Cardinality(Held(t)) + 1
      BY <3>1, <3>3, OneMore
    <3>5. /\ Cardinality(Adding(t)) \in Nat /\ Cardinality(Adding(t)') \in Nat
          /\ Cardinality(Adding(t)') <= Cardinality(Adding(t)) - 1
      BY <2>2, <3>2, <3>3, OneLess
    <3>6. Cardinality(Held(t)') + Cardinality(Adding(t)') <= Limit(t)'
      BY <1>f, <3>3, <3>4, <3>5
    <3> QED
      BY <1>g, <3>6
  <2> QED
    BY <2>3, <2>4
<1>6. ASSUME NEW w \in Workers, NEW n \in Names, Entity(w, n) PROVE OneStatement(t)'
  <2>1. Held(t)' = Held(t) /\ raced \subseteq raced'
    BY <1>6 DEF Entity, memory, Held, Live
  <2>2. n \notin Hypotheses
    BY EvidenceAssumption
  <2>3. Adding(t)' \subseteq Adding(t)
    BY <1>6, <2>2 DEF Entity, TypeOK, Adding
  <2> QED
    BY <1>0, <2>1, <2>3
<1> QED
  BY <1>1, <1>2, <1>3, <1>4, <1>5, <1>6, Kinds

LEMMA NamesNext ==
    ASSUME TypeOK, [Next]_vars, NEW n \in Names, OneName(n)
    PROVE  OneName(n)'
<1>e. entities[n] \in Nat
  BY DEF TypeOK
<1>0. CASE entities'[n] = entities[n] /\ AddingTo(n)' \subseteq AddingTo(n) /\ raced \subseteq raced'
  <2>1. /\ Cardinality(AddingTo(n)) \in Nat /\ Cardinality(AddingTo(n)') \in Nat
        /\ Cardinality(AddingTo(n)') <= Cardinality(AddingTo(n))
    BY <1>0, AllFinite, FS_Subset, FS_CardinalityType
  <2>2. entities[n] + Cardinality(AddingTo(n)) <= Limit(n)
    BY DEF OneName
  <2>3. entities'[n] + Cardinality(AddingTo(n)') <= Limit(n)'
    BY <1>e, <1>0, <2>1, <2>2, LimitsRise
  <2> QED
    BY <2>3 DEF OneName
<1>1. CASE Elsewhere
  BY <1>0, <1>1 DEF Elsewhere, memory, AddingTo
<1>2. ASSUME NEW h \in Hypotheses, Drop(h) PROVE OneName(n)'
  BY <1>0, <1>2 DEF Drop, run, AddingTo
<1>3. ASSUME NEW w \in Workers, GivesUp(w) PROVE OneName(n)'
  BY <1>0, <1>3 DEF GivesUp, memory, TypeOK, AddingTo
<1>4. ASSUME NEW w \in Workers, Finding(w) PROVE OneName(n)'
  <2>p. PICK s \in Statements \cup {Nothing}, new \in SUBSET Hypotheses,
             found \in SUBSET Rows, both \in SUBSET Hypotheses :
                 WritesAs(w, s, new, found, both)
    BY <1>4, FindingWrites
  <2>1. /\ adds' = [adds EXCEPT ![w] = new]
        /\ raced' = IF new # {} /\ Races(w, s) THEN raced \cup {s} ELSE raced
        /\ UNCHANGED memory
    BY <2>p DEF WritesAs
  <2>2. n \notin new
    BY <2>1, EvidenceAssumption
  <2>3. AddingTo(n)' \subseteq AddingTo(n)
    BY <2>1, <2>2 DEF TypeOK, AddingTo
  <2> QED
    BY <1>0, <2>1, <2>3 DEF memory
<1>5. ASSUME NEW w \in Workers, Commit(w) PROVE OneName(n)'
  <2>1. /\ raced' = raced /\ adds' = [adds EXCEPT ![w] = {}]
        /\ entities'[n] = entities[n] + (IF n \in adds[w] THEN 1 ELSE 0)
    BY <1>5 DEF Commit
  <2>2. AddingTo(n)' = AddingTo(n) \ {w}
    BY <2>1 DEF TypeOK, AddingTo
  <2>3. CASE n \notin adds[w]
    BY <1>e, <1>0, <2>1, <2>2, <2>3
  <2>4. CASE n \in adds[w]
    <3>1. w \in AddingTo(n)
      BY <2>4 DEF AddingTo
    <3>2. /\ Cardinality(AddingTo(n)) \in Nat
          /\ Cardinality(AddingTo(n)') = Cardinality(AddingTo(n)) - 1
      BY <2>2, <3>1, AllFinite, FS_RemoveElement, FS_CardinalityType
    <3>3. Limit(n)' = Limit(n) /\ Limit(n) \in Nat
      BY <2>1, LimitsRise DEF Limit
    <3>4. entities[n] + Cardinality(AddingTo(n)) <= Limit(n)
      BY DEF OneName
    <3>5. entities'[n] + Cardinality(AddingTo(n)') <= Limit(n)'
      BY <1>e, <2>1, <2>4, <3>2, <3>3, <3>4
    <3> QED
      BY <3>5 DEF OneName
  <2> QED
    BY <2>3, <2>4
<1>6. ASSUME NEW w \in Workers, NEW m \in Names, Entity(w, m) PROVE OneName(n)'
  <2>1. entities' = entities /\ raced \subseteq raced'
    BY <1>6 DEF Entity, memory
  <2>2. CASE m # n \/ adds' = adds
    <3>1. AddingTo(n)' \subseteq AddingTo(n)
      BY <1>6, <2>2 DEF Entity, TypeOK, AddingTo
    <3> QED
      BY <1>0, <2>1, <3>1
  <2>3. CASE m = n /\ adds' # adds
    <3>1. /\ entities[n] = 0 /\ adds' = [adds EXCEPT ![w] = {n}]
          /\ raced' = IF Races(w, n) THEN raced \cup {n} ELSE raced
      BY <1>6, <2>3 DEF Entity
    <3>2. n \in raced' \/ AddingTo(n)' \subseteq {w}
      BY <3>1 DEF Races, TypeOK, AddingTo
    <3>3. AddingTo(n)' \in SUBSET Workers
      BY DEF AddingTo
    <3>4. Cardinality(AddingTo(n)') \in Nat /\ Cardinality(AddingTo(n)') <= Limit(n)'
      BY <2>1, <3>2, <3>3, FirstOrRaced
    <3>5. entities'[n] + Cardinality(AddingTo(n)') <= Limit(n)'
      BY <2>1, <3>1, <3>4
    <3> QED
      BY <3>5 DEF OneName
  <2> QED
    BY <2>2, <2>3
<1> QED
  BY <1>1, <1>2, <1>3, <1>4, <1>5, <1>6, Kinds
-----------------------------------------------------------------------------
(* The theorems.                                                           *)

LEMMA Initially == Init => IInv
<1> SUFFICES ASSUME Init PROVE IInv
  OBVIOUS
<1>1. TypeOK
  BY TypeInitially
<1>2. QuotesItsSource /\ WritesQuotes /\ NewIsSupported /\ WritesSupported /\ OneAdded
  BY DEF Init, QuotesItsSource, WritesQuotes, NewIsSupported, WritesSupported, OneAdded
<1>3. Cardinality({}) = 0 /\ \A x : Limit(x) \in Nat
  BY Numbers, FS_EmptySet DEF Limit
<1>4. \A s : Held(s) = {} /\ Adding(s) = {}
  BY DEF Init, Held, Live, Adding
<1>5. \A n \in Names : AddingTo(n) = {} /\ entities[n] = 0
  BY DEF Init, AddingTo
<1>6. \A s \in Statements : OneStatement(s)
  BY <1>3, <1>4 DEF OneStatement
<1>7. \A n \in Names : OneName(n)
  BY <1>3, <1>5 DEF OneName
<1> QED
  BY <1>1, <1>2, <1>6, <1>7 DEF IInv

(* The inductive invariant holds of every reachable state. *)
THEOREM Invariance == Spec => []IInv
<1>1. Init => IInv
  BY Initially
<1>2. IInv /\ [Next]_vars => IInv'
  <2> SUFFICES ASSUME IInv, [Next]_vars PROVE IInv'
    OBVIOUS
  <2>1. TypeOK' /\ OneAdded'
    BY TypeNext, OneAddedNext DEF IInv
  <2>2. QuotesItsSource' /\ WritesQuotes'
    BY QuotesNext DEF IInv
  <2>3. NewIsSupported' /\ WritesSupported'
    BY SupportedNext DEF IInv
  <2>4. \A s \in Statements : OneStatement(s)'
    BY StatementsNext DEF IInv
  <2>5. \A n \in Names : OneName(n)'
    BY NamesNext DEF IInv
  <2> QED
    BY <2>1, <2>2, <2>3, <2>4, <2>5 DEF IInv
<1> QED
  BY <1>1, <1>2, PTL DEF Spec

(* The state has its type. *)
THEOREM Typing == Spec => []TypeOK
<1>1. IInv => TypeOK
  BY DEF IInv
<1> QED
  BY <1>1, Invariance, PTL

(* Evidence is in the words of the source it is attributed to, as that was *)
(* when it was read, whatever the model cites (grounding.py).              *)
THEOREM Grounded == Spec => []QuotesItsSource
<1>1. IInv => QuotesItsSource
  BY DEF IInv
<1> QED
  BY <1>1, Invariance, PTL

(* No hypothesis is remembered without an excerpt that bears on it.        *)
THEOREM NeverBare == Spec => []NewIsSupported
<1>1. IInv => NewIsSupported
  BY DEF IInv
<1> QED
  BY <1>1, Invariance, PTL

(* One hypothesis is held with a statement and one entity with a name, but *)
(* for transactions that overlap.                                          *)
THEOREM NoDuplicates == Spec => []OneOfEach
<1>1. IInv => OneOfEach
  <2> SUFFICES ASSUME IInv PROVE OneOfEach
    OBVIOUS
  <2>1. ASSUME NEW s \in Statements PROVE Cardinality(Held(s)) <= Limit(s)
    <3>1. Cardinality(Held(s)) \in Nat /\ Cardinality(Adding(s)) \in Nat
      BY AllFinite, FS_CardinalityType
    <3>2. Cardinality(Held(s)) + Cardinality(Adding(s)) <= Limit(s) /\ Limit(s) \in Nat
      BY Numbers DEF IInv, OneStatement, Limit
    <3> QED
      BY <3>1, <3>2
  <2>2. ASSUME NEW n \in Names PROVE entities[n] <= Limit(n)
    <3>1. entities[n] \in Nat /\ Cardinality(AddingTo(n)) \in Nat
      BY AllFinite, FS_CardinalityType DEF IInv, TypeOK
    <3>2. entities[n] + Cardinality(AddingTo(n)) <= Limit(n) /\ Limit(n) \in Nat
      BY Numbers DEF IInv, OneName, Limit
    <3> QED
      BY <3>1, <3>2
  <2> QED
    BY <2>1, <2>2 DEF OneOfEach, Held
<1> QED
  BY <1>1, Invariance, PTL
=============================================================================
