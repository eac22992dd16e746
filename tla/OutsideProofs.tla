---------------------------- MODULE OutsideProofs ----------------------------
(***************************************************************************)
(* Proofs about the two components that take whatever comes from outside:  *)
(* Fetching from the web, Answers from the language model.                 *)
(*                                                                         *)
(* Fetching, for any web: whatever names resolve to, servers answer and    *)
(* deadlines interrupt, requests go to approved addresses only, robots.txt *)
(* is obeyed by each of the two fetchers, and a fetch makes a bounded      *)
(* number of requests.                                                     *)
(*                                                                         *)
(* Answers, for any memory and any model: whatever it recalls and cites,   *)
(* and whatever becomes of the hypotheses meanwhile, the numbers of the    *)
(* answer lead to the records it was shown, and no point is firmer than    *)
(* they were.                                                              *)
(***************************************************************************)
EXTENDS Fetching, Answers, FiniteSetTheorems, TLAPS

-----------------------------------------------------------------------------
(* Fetching.                                                               *)

(* Where a fetch is decides which of its addresses there are, and what is  *)
(* left of the search for a feed covers what is left of its fetch.         *)
Placed ==
    /\ place # "idle" => url \in Urls /\ job # "none"
    /\ place \in {"checking robots", "asking robots"} => rurl \in Urls
    /\ job = "none" => todo = {}
    /\ job = "site" => place # "idle"
    /\ job \in {"site", "candidates"} => left <= feedLeft
    /\ place = "idle" => left = 0

(* What is pinned is what a lookup of the same fetch returned, and public. *)
Pinned == \A h \in Hosts : pins[h] \subseteq looked[h] \cap Public

(* The part of TypeOK about what is known of the rules of sites. *)
RulesTyped == robots \in [Fetchers -> Caches] /\ said \in [Fetchers -> Caches]

(* What a fetcher remembers of a site is what the site last told it. *)
AsSaid == robots = said

(* The inductive invariant of the safety properties. *)
IInv == TypeOK /\ Placed /\ Pinned /\ NeverAstray /\ RobotsObeyed /\ AsSaid

LEMMA Limits ==
    /\ FeedDeadline \in Nat /\ MaxRedirects \in Nat /\ MaxRobotsRedirects \in Nat
    /\ 0 \in 0..FeedDeadline /\ 0 \in 0..MaxRedirects
    /\ 0 \in 0..MaxRobotsRedirects /\ 0 \in 0..Threads /\ Threads \in Nat
BY FetchingAssumption

LEMMA Initially == Init => IInv
<1> SUFFICES ASSUME Init PROVE IInv
  OBVIOUS
<1>1. TypeOK
  <2>1. /\ pins \in [Hosts -> SUBSET Addresses] /\ looked \in [Hosts -> SUBSET Addresses]
        /\ pool \in [Sites -> SUBSET Addresses]
    BY DEF Init
  <2>3. place \in Places
    BY DEF Init, Places
  <2>2. RulesTyped
    BY DEF Init, RulesTyped, Caches
  <2>4. /\ 0 \in 0..FeedDeadline /\ 0 \in 0..MaxRedirects
        /\ 0 \in 0..MaxRobotsRedirects /\ 0 \in 0..Threads
    BY Limits
  <2> QED
    BY <2>1, <2>2, <2>3, <2>4 DEF Init, TypeOK, RulesTyped
<1>2. Placed /\ Pinned /\ NeverAstray /\ RobotsObeyed /\ AsSaid
  BY FetchingAssumption DEF Init, Placed, Pinned, NeverAstray, RobotsObeyed, AsSaid
<1> QED
  BY <1>1, <1>2 DEF IInv

(* A connection to a pinned address does not stray, nor one kept open. *)
LEMMA Straight ==
    ASSUME IInv, NEW u \in Urls, NEW address, Connect(u, address)
    PROVE  astray' = FALSE /\ astray' = astray
<1>1. Host[u] \in Hosts
  BY FetchingAssumption
<1>2. ~Strays(u, address)
  BY <1>1 DEF IInv, Pinned, Connect, MayConnect, Strays
<1>3. astray = FALSE
  BY DEF IInv, TypeOK, NeverAstray
<1> QED
  BY <1>2, <1>3 DEF Connect

LEMMA Kept ==
    ASSUME IInv, NEW u \in Urls, NEW address \in Addresses, KeepOpen(u, address)
    PROVE  pool' \in [Sites -> SUBSET Addresses] /\ requests' \in Nat /\ requests' = requests + 1
BY FetchingAssumption DEF IInv, TypeOK, KeepOpen

LEMMA Counts ==
    ASSUME IInv
    PROVE  requests \in Nat /\ hops \in 0..MaxRedirects /\ rhops \in 0..MaxRobotsRedirects
BY DEF IInv, TypeOK

(* The end of a fetch keeps the invariant, if it leaves the job consistent *)
(* and what is remembered as it was said.                                  *)
LEMMA EndsWell ==
    ASSUME IInv, Over,
           RulesTyped', AsSaid',
           astray' = astray, hung' \in 0..Threads,
           job' \in {"none", "pages", "crawl", "candidates"},
           todo' \subseteq Urls, job' = "none" => todo' = {},
           feedLeft' \in 0..FeedDeadline
    PROVE  IInv'
<1>1. TypeOK'
  <2>1. /\ place' \in Places /\ url' \in Urls \cup {NoUrl} /\ rurl' \in Urls \cup {NoUrl}
        /\ pins' \in [Hosts -> SUBSET Addresses] /\ looked' \in [Hosts -> SUBSET Addresses]
        /\ pool' \in [Sites -> SUBSET Addresses]
    BY DEF Over, Places
  <2>2. /\ hops' \in 0..MaxRedirects /\ rhops' \in 0..MaxRobotsRedirects
        /\ left' \in 0..FeedDeadline /\ requests' \in Nat
    BY FetchingAssumption DEF Over
  <2>3. astray' \in BOOLEAN
    BY DEF IInv, TypeOK
  <2> QED
    BY <2>1, <2>2, <2>3 DEF TypeOK, RulesTyped
<1>2. Placed'
  BY FetchingAssumption DEF Over, Placed
<1>4. Pinned'
  BY DEF Over, Pinned
<1>3. NeverAstray' /\ RobotsObeyed' /\ AsSaid'
  BY DEF IInv, Over, NeverAstray, RobotsObeyed, AsSaid
<1> QED
  BY <1>1, <1>2, <1>3, <1>4 DEF IInv

LEMMA FailsWell ==
    ASSUME IInv, Fails, place # "idle",
           RulesTyped', AsSaid',
           astray' = astray, hung' \in 0..Threads
    PROVE  IInv'
<1>1. job' \in {"none", "pages", "crawl", "candidates"} /\ todo' = todo /\ feedLeft' = feedLeft
  BY DEF IInv, TypeOK, Fails
<1>2. job' = "none" => todo' = {}
  BY DEF IInv, TypeOK, Placed, Fails
<1> QED
  BY <1>1, <1>2, EndsWell DEF IInv, TypeOK, Fails

LEMMA RulesSame ==
    ASSUME IInv, UNCHANGED <<robots, said>>
    PROVE  RulesTyped' /\ AsSaid'
BY DEF IInv, TypeOK, RulesTyped, AsSaid

(* A fetch that goes on keeps the invariant, if the places it goes through *)
(* agree with the addresses it has.                                        *)
LEMMA GoesOnWell ==
    ASSUME IInv, RulesTyped', AsSaid',
           place' \in Places, url' \in Urls, job # "none", UNCHANGED <<jobVars, left, hung>>,
           rurl' \in Urls \cup {NoUrl},
           place' \in {"checking robots", "asking robots"} => rurl' \in Urls,
           place' # "idle",
           hops' \in 0..MaxRedirects, rhops' \in 0..MaxRobotsRedirects,
           requests' \in Nat, astray' = FALSE,
           pins' \in [Hosts -> SUBSET Addresses], looked' \in [Hosts -> SUBSET Addresses],
           pool' \in [Sites -> SUBSET Addresses],
           Pinned', RobotsObeyed'
    PROVE  IInv'
<1>1. TypeOK'
  BY DEF IInv, TypeOK, jobVars, RulesTyped
<1>2. Placed'
  BY DEF IInv, Placed, jobVars
<1>3. NeverAstray'
  BY DEF NeverAstray
<1> QED
  BY <1>1, <1>2, <1>3 DEF IInv

LEMMA ResolvesWell ==
    ASSUME IInv, NEW h \in Hosts, NEW found \in SUBSET Addresses,
           Resolves(h, found), Approved(found)
    PROVE  /\ pins' \in [Hosts -> SUBSET Addresses] /\ looked' \in [Hosts -> SUBSET Addresses]
           /\ pool' \in [Sites -> SUBSET Addresses]
           /\ Pinned'
BY DEF IInv, TypeOK, Pinned, Resolves, Approved

(* What a fetch needs of its addresses and of its type, step by step.      *)
LEMMA Here ==
    ASSUME IInv, place # "idle"
    PROVE  /\ url \in Urls /\ Site[url] \in Sites /\ Host[url] \in Hosts /\ job # "none"
           /\ Robots[Site[url]] \in Urls
           /\ place \in {"checking robots", "asking robots"} =>
                  rurl \in Urls /\ Host[rurl] \in Hosts
<1>1. /\ url \in Urls /\ job # "none"
      /\ place \in {"checking robots", "asking robots"} => rurl \in Urls
  BY DEF IInv, Placed
<1>2. Site \in [Urls -> Sites] /\ Host \in [Urls -> Hosts] /\ Robots \in [Sites -> Urls]
  BY FetchingAssumption
<1> QED
  BY <1>1, <1>2

(* The invariant is kept by every step of a fetch.                         *)
LEMMA PageSteps == ASSUME IInv, PageStep PROVE IInv'
<1>0. place # "idle"
  BY DEF PageStep, CheckPage, RefusePage, PageRedirected, PageRead, FeedFound,
         FeedsAnnounced, Answered, PageFails
<1>1. ASSUME NEW found \in SUBSET Addresses, CheckPage(found) PROVE IInv'
  <2>1. /\ Pinned' /\ pins' \in [Hosts -> SUBSET Addresses]
        /\ looked' \in [Hosts -> SUBSET Addresses] /\ pool' \in [Sites -> SUBSET Addresses]
    BY <1>1, <1>0, Here, ResolvesWell DEF CheckPage
  <2>2. RulesTyped' /\ AsSaid'
    BY <1>1, RulesSame DEF CheckPage
  <2>3. RobotsObeyed'
    BY <1>0, <1>1, Here
       DEF CheckPage, jobVars, Fetcher, RobotsObeyed, Permitted, IInv, AsSaid
  <2>4. /\ place' \in Places \ {"idle"} /\ rurl' \in Urls \cup {NoUrl}
        /\ place' \in {"checking robots", "asking robots"} => rurl' \in Urls
    BY <1>0, <1>1, Here DEF CheckPage, Places, IInv, TypeOK
  <2> QED
    BY <1>0, <1>1, <2>1, <2>2, <2>3, <2>4, Here, GoesOnWell
       DEF CheckPage, IInv, TypeOK, NeverAstray
<1>2. ASSUME NEW found \in SUBSET Addresses, RefusePage(found) PROVE IInv'
  BY <1>0, <1>2, FailsWell, RulesSame DEF RefusePage, IInv, TypeOK
<1>3. ASSUME NEW address \in Addresses, NEW to \in Urls, PageRedirected(address, to)
      PROVE  IInv'
  <2>1. astray' = FALSE
    BY <1>0, <1>3, Here, Straight DEF PageRedirected
  <2>6. requests' \in Nat /\ pool' \in [Sites -> SUBSET Addresses]
    BY <1>0, <1>3, Here, Kept DEF PageRedirected
  <2>2. RulesTyped' /\ AsSaid'
    BY <1>3, RulesSame DEF PageRedirected
  <2>3. Pinned' /\ RobotsObeyed'
    BY <1>3 DEF PageRedirected, KeepOpen, Pinned, RobotsObeyed, IInv
  <2>4. hops' \in 0..MaxRedirects
    BY <1>3, Limits, Counts DEF PageRedirected
  <2>5. place' = "checking" /\ place' \in Places
    BY <1>3 DEF PageRedirected, Places
  <2> QED
    BY <1>0, <1>3, <2>1, <2>2, <2>3, <2>4, <2>5, <2>6, Here, GoesOnWell
       DEF PageRedirected, KeepOpen, IInv, TypeOK
<1>4. ASSUME NEW address \in Addresses, Answered(address),
             job' \in {"none", "pages", "crawl", "candidates"},
             todo' \subseteq Urls, job' = "none" => todo' = {},
             feedLeft' \in 0..FeedDeadline
      PROVE  IInv'
  <2>1. astray' = astray
    BY <1>0, <1>4, Here, Straight DEF Answered
  <2> QED
    BY <1>4, <2>1, EndsWell, RulesSame DEF Answered, IInv, TypeOK
<1>5. ASSUME NEW address \in Addresses,
             \/ PageRead(address) \/ FeedFound(address)
             \/ \E announced \in SUBSET Urls : FeedsAnnounced(address, announced)
      PROVE  IInv'
  <2>1. CASE PageRead(address)
    BY <2>1, <1>4 DEF PageRead, jobVars, IInv, TypeOK
  <2>2. CASE FeedFound(address)
    BY <2>2, <1>4, Limits DEF FeedFound, IInv, TypeOK
  <2>3. ASSUME NEW announced \in SUBSET Urls, FeedsAnnounced(address, announced) PROVE IInv'
    BY <2>3, <1>4 DEF FeedsAnnounced, IInv, TypeOK
  <2> QED
    BY <1>5, <2>1, <2>2, <2>3
<1>6. CASE PageFails
  BY <1>0, <1>6, FailsWell, RulesSame DEF PageFails, IInv, TypeOK
<1> QED
  BY <1>1, <1>2, <1>3, <1>5, <1>6 DEF PageStep

LEMMA RobotsSteps == ASSUME IInv, RobotsStep PROVE IInv'
<1>0. place \in {"checking robots", "asking robots"}
  BY DEF RobotsStep, CheckRobots, RefuseRobots, RobotsRedirected, RobotsAllow,
         RobotsDisallow, Learn, RobotsFail
<1>1. ASSUME NEW found \in SUBSET Addresses, CheckRobots(found) PROVE IInv'
  <2>1. /\ Pinned' /\ pins' \in [Hosts -> SUBSET Addresses]
        /\ looked' \in [Hosts -> SUBSET Addresses] /\ pool' \in [Sites -> SUBSET Addresses]
    BY <1>1, <1>0, Here, ResolvesWell DEF CheckRobots
  <2>2. RulesTyped' /\ AsSaid'
    BY <1>1, RulesSame DEF CheckRobots
  <2>3. RobotsObeyed' /\ place' = "asking robots" /\ place' \in Places
    BY <1>1 DEF CheckRobots, RobotsObeyed, Places
  <2> QED
    BY <1>0, <1>1, <2>1, <2>2, <2>3, Here, GoesOnWell
       DEF CheckRobots, IInv, TypeOK, NeverAstray, Placed
<1>2. CASE RobotsUnreachable
  BY <1>0, <1>2, FailsWell, RulesSame DEF RobotsUnreachable, IInv, TypeOK
<1>3. ASSUME NEW address \in Addresses, NEW to \in Urls, RobotsRedirected(address, to)
      PROVE  IInv'
  <2>1. astray' = FALSE
    BY <1>0, <1>3, Here, Straight DEF RobotsRedirected
  <2>7. /\ requests \in Nat /\ rhops \in 0..MaxRobotsRedirects
        /\ requests' = requests + 1 /\ rhops' = rhops + 1 /\ rhops < MaxRobotsRedirects
    BY <1>3, Counts DEF RobotsRedirected, KeepOpen
  <2>6. requests' \in Nat /\ pool' \in [Sites -> SUBSET Addresses]
    BY <1>0, <1>3, Here, Kept DEF RobotsRedirected
  <2>2. RulesTyped' /\ AsSaid'
    BY <1>3, RulesSame DEF RobotsRedirected
  <2>3. Pinned' /\ RobotsObeyed'
    BY <1>3 DEF RobotsRedirected, KeepOpen, Pinned, RobotsObeyed, IInv
  <2>4. rhops' \in 0..MaxRobotsRedirects
    BY <2>7, Limits
  <2>5. place' = "checking robots" /\ place' \in Places
    BY <1>3 DEF RobotsRedirected, Places
  <2> QED
    BY <1>0, <1>3, <2>1, <2>2, <2>3, <2>4, <2>5, <2>6, Here, GoesOnWell
       DEF RobotsRedirected, KeepOpen, IInv, TypeOK
<1>4. ASSUME NEW address \in Addresses, NEW rules \in Rules[Site[url]], Learn(address, rules)
      PROVE  astray' = astray /\ astray' = FALSE /\ RulesTyped' /\ AsSaid'
  <2>1. astray' = FALSE /\ astray' = astray
    BY <1>0, <1>4, Here, Straight DEF Learn
  <2>2. RulesTyped'
    <3>1. /\ Site[url] \in Sites /\ Fetcher \in Fetchers
          /\ robots \in [Fetchers -> Caches] /\ said \in [Fetchers -> Caches]
      BY <1>0, Here DEF IInv, TypeOK, Fetcher, Fetchers
    <3>2. \A c \in Caches : [c EXCEPT ![Site[url]] = rules] \in Caches
      BY <3>1 DEF Caches
    <3> QED
      BY <1>4, <3>1, <3>2 DEF Learn, RulesTyped
  <2>3. AsSaid'
    BY <1>4 DEF Learn, AsSaid, IInv, TypeOK
  <2> QED
    BY <2>1, <2>2, <2>3
<1>5. ASSUME NEW address \in Addresses, NEW rules \in Rules[Site[url]],
             RobotsAllow(address, rules)
      PROVE  IInv'
  <2>1. RobotsObeyed'
    <3>1. Site[url] \in Sites
      BY <1>0, Here
    <3>2. rules # Unknown
      BY <3>1, FetchingAssumption
    <3>3. said'[Fetcher'][Site[url]'] = rules
      BY <1>5, <3>1 DEF RobotsAllow, Learn, jobVars, Fetcher, Fetchers, IInv, TypeOK, Caches
    <3> QED
      BY <1>5, <3>2, <3>3 DEF RobotsAllow, Permitted, RobotsObeyed
  <2>2. /\ requests' \in Nat /\ pool' \in [Sites -> SUBSET Addresses]
        /\ place' = "asking" /\ place' \in Places
    BY <1>0, <1>5, Here, Kept DEF RobotsAllow, Places
  <2>4. Pinned'
    BY <1>5 DEF RobotsAllow, KeepOpen, Pinned, IInv
  <2>3. rhops' \in 0..MaxRobotsRedirects /\ rurl' \in Urls \cup {NoUrl}
    BY <1>5, Limits DEF RobotsAllow
  <2> QED
    BY <1>0, <1>4, <1>5, <2>1, <2>2, <2>3, <2>4, Here, GoesOnWell
       DEF RobotsAllow, KeepOpen, Learn, IInv, TypeOK
<1>6. ASSUME NEW address \in Addresses, NEW rules \in Rules[Site[url]],
             RobotsDisallow(address, rules)
      PROVE  IInv'
  BY <1>0, <1>4, <1>6, FailsWell DEF RobotsDisallow, Learn, IInv, TypeOK
<1> QED
  BY <1>1, <1>2, <1>3, <1>5, <1>6 DEF RobotsStep, RefuseRobots, RobotsFail
-----------------------------------------------------------------------------
(* A fetch begins only when none is under way, with the deadline of its    *)
(* job.                                                                    *)
LEMMA BeginsWell ==
    ASSUME IInv, NEW u \in Urls, NEW deadline \in 0..FeedDeadline, Begin(u, deadline),
           UNCHANGED <<robots, hung, said, astray>>,
           job' \in {"pages", "crawl", "site", "candidates"}, todo' \subseteq Urls,
           feedLeft' \in 0..FeedDeadline,
           job' \in {"site", "candidates"} => deadline <= feedLeft'
    PROVE  IInv'
<1>1. RulesTyped' /\ AsSaid'
  BY RulesSame
<1>2. /\ place' \in Places /\ hops' \in 0..MaxRedirects /\ rhops' \in 0..MaxRobotsRedirects
  BY Limits DEF Begin, Places
<1>3. TypeOK'
  BY <1>1, <1>2 DEF Begin, netVars, TypeOK, IInv, RulesTyped
<1>4. Placed'
  BY DEF Begin, Placed
<1>5. Pinned' /\ NeverAstray' /\ RobotsObeyed'
  BY DEF Begin, netVars, Pinned, NeverAstray, RobotsObeyed, IInv
<1> QED
  BY <1>1, <1>3, <1>4, <1>5 DEF IInv

LEMMA OtherSteps ==
    ASSUME IInv,
           \/ Asked \/ (\E u \in Urls : TakeNext(u)) \/ TimeOut \/ Tick \/ LookupReturns
           \/ Finish \/ UNCHANGED vars
    PROVE  IInv'
<1>1. ASSUME NEW urls \in SUBSET Urls, Extract(urls) \/ Crawl(urls) PROVE IInv'
  <2>1. place = "idle"
    BY <1>1 DEF IInv, Placed, Extract, Crawl
  <2>2. TypeOK' /\ Placed'
    BY <1>1, <2>1 DEF Extract, Crawl, fetchVars, netVars, IInv, TypeOK, Placed
  <2>3. Pinned' /\ NeverAstray' /\ RobotsObeyed' /\ AsSaid'
    BY <1>1, <2>1 DEF Extract, Crawl, fetchVars, netVars, IInv, Pinned, NeverAstray, RobotsObeyed, AsSaid
  <2> QED
    BY <2>2, <2>3 DEF IInv
<1>2. ASSUME NEW u \in Urls, FindFeed(u) PROVE IInv'
  <2>1. PageDeadline \in 0..FeedDeadline /\ FeedDeadline \in 0..FeedDeadline
    BY FetchingAssumption
  <2>2. FeedPaths[u] \subseteq Urls
    BY FetchingAssumption
  <2> QED
    BY <1>2, <2>1, <2>2, BeginsWell DEF FindFeed
<1>3. ASSUME NEW u \in Urls, TakeNext(u) PROVE IInv'
  <2>1. job \in {"pages", "crawl", "candidates"}
    BY <1>3 DEF TakeNext, IInv, TypeOK, Placed
  <2>2. PageDeadline \in 0..FeedDeadline /\ FeedDeadline \in 0..FeedDeadline
    BY FetchingAssumption
  <2>3. /\ DeadlineOf \in 0..FeedDeadline
        /\ job = "candidates" => DeadlineOf <= feedLeft
    BY <2>1, <2>2 DEF DeadlineOf, IInv, TypeOK
  <2> QED
    BY <1>3, <2>1, <2>3, BeginsWell DEF TakeNext, IInv, TypeOK
<1>4. CASE TimeOut
  <2>2. hung \in 0..Threads
    BY DEF IInv, TypeOK
  <2>3. hung' = hung \/ (hung < Threads /\ hung' = hung + 1)
    BY <1>4 DEF TimeOut
  <2>1. hung' \in 0..Threads
    BY <2>2, <2>3, Limits
  <2> QED
    BY <1>4, <2>1, FailsWell, RulesSame DEF TimeOut
<1>5. CASE Tick
  <2>1. left' \in 0..FeedDeadline /\ feedLeft' \in 0..FeedDeadline
        /\ (job' \in {"site", "candidates"} => left' <= feedLeft')
    <3>1. /\ left \in 0..FeedDeadline /\ feedLeft \in 0..FeedDeadline
          /\ job \in {"site", "candidates"} => left <= feedLeft
      BY DEF IInv, TypeOK, Placed
    <3>2. /\ left > 0 /\ left' = left - 1 /\ job' = job
          /\ feedLeft' = IF job \in {"site", "candidates"} THEN feedLeft - 1 ELSE feedLeft
      BY <1>5 DEF Tick
    <3>3. CASE job \in {"site", "candidates"}
      BY <3>1, <3>2, <3>3, Limits
    <3>4. CASE job \notin {"site", "candidates"}
      BY <3>1, <3>2, <3>4, Limits
    <3> QED
      BY <3>3, <3>4
  <2>2. TypeOK'
    BY <1>5, <2>1 DEF Tick, netVars, IInv, TypeOK
  <2>3. Placed'
    BY <1>5, <2>1 DEF Tick, netVars, IInv, Placed
  <2>4. Pinned' /\ NeverAstray' /\ RobotsObeyed' /\ AsSaid'
    BY <1>5 DEF Tick, netVars, IInv, Pinned, NeverAstray, RobotsObeyed, AsSaid, Fetcher
  <2> QED
    BY <2>2, <2>3, <2>4 DEF IInv
<1>6. CASE LookupReturns \/ UNCHANGED vars
  <2>1. hung' \in 0..Threads
    BY <1>6, FetchingAssumption DEF LookupReturns, vars, IInv, TypeOK
  <2>2. UNCHANGED <<jobVars, fetchVars, robots, said, astray>>
    BY <1>6 DEF LookupReturns, vars
  <2>3. TypeOK' /\ Placed'
    BY <2>1, <2>2 DEF IInv, TypeOK, Placed, jobVars, fetchVars, netVars
  <2>4. Pinned' /\ NeverAstray' /\ RobotsObeyed' /\ AsSaid'
    BY <2>2 DEF jobVars, fetchVars, netVars, IInv, Pinned, NeverAstray, RobotsObeyed, AsSaid, Fetcher
  <2> QED
    BY <2>3, <2>4 DEF IInv
<1>7. CASE Finish
  <2>1. TypeOK' /\ Placed'
    BY <1>7, Limits DEF Finish, IInv, TypeOK, Placed, fetchVars, netVars
  <2>2. Pinned' /\ NeverAstray' /\ RobotsObeyed' /\ AsSaid'
    BY <1>7 DEF Finish, fetchVars, netVars, IInv, Pinned, NeverAstray, RobotsObeyed, AsSaid
  <2> QED
    BY <2>1, <2>2 DEF IInv
<1> QED
  BY <1>1, <1>2, <1>3, <1>4, <1>5, <1>6, <1>7 DEF Asked

(* The inductive invariant holds whatever the web answers. *)
THEOREM Invariance == Spec => []IInv
<1>1. IInv /\ [Next]_vars => IInv'
  BY PageSteps, RobotsSteps, OtherSteps DEF Next
<1> QED
  BY Initially, <1>1, PTL DEF Spec

(* The state is well typed: among others no chain of redirects is longer   *)
(* than its limit and no fetch outruns its deadline.                       *)
THEOREM Typing == Spec => []TypeOK
<1>1. IInv => TypeOK
  BY DEF IInv
<1> QED
  BY <1>1, Invariance, PTL

(* Requests only ever go to public addresses that the name of their host   *)
(* was seen to resolve to in the same fetch.                               *)
THEOREM Approvedness == Spec => []NeverAstray
<1>1. IInv => NeverAstray
  BY DEF IInv
<1> QED
  BY <1>1, Invariance, PTL

(* Neither fetcher asks for a page against the rules that the site last    *)
(* gave it, nor before the site gave it any: of what one fetcher was told  *)
(* the other knows nothing.                                                *)
THEOREM Obedience == Spec => []RobotsObeyed
<1>1. IInv => RobotsObeyed
  BY DEF IInv
<1> QED
  BY <1>1, Invariance, PTL
-----------------------------------------------------------------------------
(* How many requests a fetch may have made: those of the hops behind it,   *)
(* one for the page and one for each hop of its robots.txt, and those of   *)
(* the hop it is at.                                                       *)
PerHop == MaxRobotsRedirects + 2

AtThisHop ==
    IF place \in {"checking robots", "asking robots"} THEN rhops
    ELSE IF place = "asking" THEN MaxRobotsRedirects + 1 ELSE 0

Counted == requests <= hops * PerHop + AtThisHop

LEMMA HopByHop ==
    /\ PerHop \in Nat
    /\ \A n \in Nat : n * PerHop \in Nat /\ (n + 1) * PerHop = n * PerHop + PerHop
    /\ \A n \in 0..MaxRedirects : n * PerHop <= MaxRedirects * PerHop
<1>1. PerHop \in Nat
  BY Limits DEF PerHop
<1>2. \A n \in Nat : n * PerHop \in Nat /\ (n + 1) * PerHop = n * PerHop + PerHop
  BY <1>1
<1>3. \A n \in 0..MaxRedirects : n * PerHop <= MaxRedirects * PerHop
  <2>1. ASSUME NEW n \in 0..MaxRedirects PROVE n * PerHop <= MaxRedirects * PerHop
    <3>1. n \in Nat /\ MaxRedirects - n \in Nat /\ MaxRedirects \in Nat
      BY Limits
    <3>2. \A k \in Nat : k * PerHop >= 0
      BY <1>1
    <3>3. MaxRedirects * PerHop = n * PerHop + (MaxRedirects - n) * PerHop
      BY <3>1, <1>1
    <3> QED
      BY <3>1, <3>2, <3>3, <1>1
  <2> QED
    BY <2>1
<1> QED
  BY <1>1, <1>2, <1>3

LEMMA CountedInitially == Init => Counted
BY HopByHop DEF Init, Counted, AtThisHop

LEMMA CountedNext == ASSUME IInv, Counted, [Next]_vars PROVE Counted'
<1> DEFINE behind == hops * PerHop
<1>1. /\ requests \in Nat /\ hops \in 0..MaxRedirects /\ rhops \in 0..MaxRobotsRedirects
      /\ behind \in Nat /\ MaxRobotsRedirects \in Nat
  BY Counts, HopByHop, Limits
<1>2. CASE Over
  <2>1. hops' = 0 /\ requests' = 0 /\ AtThisHop' = 0
    BY <1>2 DEF Over, AtThisHop
  <2> QED
    BY <2>1, HopByHop DEF Counted
<1>3. ASSUME NEW u \in Urls, NEW deadline, Begin(u, deadline) PROVE Counted'
  <2>1. hops' = 0 /\ requests' = 0 /\ AtThisHop' = 0
    BY <1>3 DEF Begin, AtThisHop
  <2> QED
    BY <2>1, HopByHop DEF Counted
<1>4. CASE UNCHANGED <<requests, hops, rhops, place>>
  BY <1>4 DEF Counted, AtThisHop
<1>5. ASSUME NEW found \in SUBSET Addresses, CheckPage(found) \/ CheckRobots(found)
      PROVE  Counted'
  <2>1. UNCHANGED <<requests, hops, rhops>>
    BY <1>5 DEF CheckPage, CheckRobots
  <2>2. AtThisHop = 0 \/ (AtThisHop = rhops /\ AtThisHop' = rhops)
    BY <1>5, <2>1 DEF CheckPage, CheckRobots, AtThisHop
  <2>3. AtThisHop \in Nat /\ AtThisHop' \in Nat
    <3>1. AtThisHop \in {rhops, MaxRobotsRedirects + 1, 0}
      BY DEF AtThisHop
    <3>2. AtThisHop' \in {rhops, MaxRobotsRedirects + 1, 0}
      BY <2>1 DEF AtThisHop
    <3> QED
      BY <1>1, <3>1, <3>2
  <2>4. AtThisHop <= AtThisHop'
    BY <1>1, <2>2, <2>3
  <2> HIDE DEF behind
  <2>5. requests <= behind + AtThisHop /\ (requests <= behind + AtThisHop' => Counted')
    BY <2>1 DEF behind, Counted
  <2>6. \A a, b \in Nat : a <= b /\ requests <= behind + a => requests <= behind + b
    BY <1>1
  <2> QED
    BY <2>3, <2>4, <2>5, <2>6
<1>6. ASSUME NEW address \in Addresses, NEW to \in Urls, RobotsRedirected(address, to)
      PROVE  Counted'
  <2>1. hops' = hops /\ rhops' = rhops + 1 /\ requests' = requests + 1
    BY <1>6 DEF RobotsRedirected, KeepOpen
  <2>2. AtThisHop = rhops /\ AtThisHop' = rhops + 1
    BY <1>6, <2>1 DEF RobotsRedirected, AtThisHop
  <2> HIDE DEF behind
  <2>3. requests <= behind + rhops /\ (requests' <= behind + rhops + 1 => Counted')
    BY <2>1, <2>2, <1>1 DEF behind, Counted
  <2> QED
    BY <2>1, <2>3, <1>1
<1>7. ASSUME NEW address \in Addresses, NEW rules \in Rules[Site[url]],
             RobotsAllow(address, rules)
      PROVE  Counted'
  <2>1. hops' = hops /\ requests' = requests + 1
    BY <1>7 DEF RobotsAllow, KeepOpen
  <2>2. AtThisHop = rhops /\ AtThisHop' = MaxRobotsRedirects + 1
    BY <1>7 DEF RobotsAllow, Learn, AtThisHop
  <2> HIDE DEF behind
  <2>3. /\ requests <= behind + rhops
        /\ requests' <= behind + (MaxRobotsRedirects + 1) => Counted'
    BY <2>1, <2>2, <1>1 DEF behind, Counted
  <2> QED
    BY <2>1, <2>3, <1>1
<1>8. ASSUME NEW address \in Addresses, NEW to \in Urls, PageRedirected(address, to)
      PROVE  Counted'
  <2>1. hops' = hops + 1 /\ requests' = requests + 1
    BY <1>8 DEF PageRedirected, KeepOpen
  <2>2. AtThisHop = MaxRobotsRedirects + 1 /\ AtThisHop' = 0
    BY <1>8 DEF PageRedirected, AtThisHop
  <2>3. hops' * PerHop = behind + (MaxRobotsRedirects + 2)
    BY <2>1, <1>1, HopByHop DEF PerHop
  <2> HIDE DEF behind
  <2>4. /\ requests <= behind + (MaxRobotsRedirects + 1)
        /\ requests' <= behind + (MaxRobotsRedirects + 2) => Counted'
    BY <2>1, <2>2, <2>3, <1>1 DEF behind, Counted
  <2> QED
    BY <2>1, <2>4, <1>1
<1>9. CASE \/ \E u \in Urls, deadline \in {PageDeadline, DeadlineOf} : Begin(u, deadline)
           \/ Asked \/ (\E u \in Urls : TakeNext(u)) \/ Tick \/ LookupReturns \/ Finish
           \/ UNCHANGED vars
  BY <1>3, <1>4, <1>9 DEF Asked, Extract, Crawl, FindFeed, TakeNext, Tick, LookupReturns, Finish,
     vars, fetchVars
<1>10. CASE PageStep
  BY <1>2, <1>5, <1>8, <1>10 DEF PageStep, RefusePage, PageFails, Fails, PageRead, FeedFound,
     FeedsAnnounced, Answered
<1>11. CASE RobotsStep
  BY <1>2, <1>5, <1>6, <1>7, <1>11 DEF RobotsStep, RefuseRobots, RobotsDisallow, RobotsFail,
     RobotsUnreachable, Fails
<1>12. CASE TimeOut
  BY <1>2, <1>12 DEF TimeOut, Fails
<1> QED
  BY <1>9, <1>10, <1>11, <1>12 DEF Next

(* Whatever the servers answer, a fetch makes at most                      *)
(* (MaxRedirects + 1) * (MaxRobotsRedirects + 2) requests.                 *)
THEOREM Boundedness == Spec => []BoundedRequests
<1>1. IInv /\ Counted => BoundedRequests
  <2> SUFFICES ASSUME IInv, Counted PROVE BoundedRequests
    OBVIOUS
  <2> DEFINE most == MaxRedirects * PerHop
  <2>1. /\ requests \in Nat /\ hops * PerHop <= most /\ hops * PerHop \in Nat /\ most \in Nat
        /\ (MaxRedirects + 1) * PerHop = most + PerHop
    BY Counts, HopByHop, Limits
  <2>2. AtThisHop \in Nat /\ AtThisHop <= MaxRobotsRedirects + 1
    <3>1. AtThisHop \in {rhops, MaxRobotsRedirects + 1, 0}
      BY DEF AtThisHop
    <3> QED
      BY <3>1, Counts, Limits
  <2> HIDE DEF most
  <2>3. requests <= most + (MaxRobotsRedirects + 2)
    BY <2>1, <2>2, Limits DEF Counted
  <2> QED
    BY <2>1, <2>3 DEF BoundedRequests, PerHop
<1> QED
  BY <1>1, Invariance, CountedInitially, CountedNext, PTL DEF Spec
-----------------------------------------------------------------------------
(* Answers.                                                                *)

(* Types, with what compose has made of the labels.                        *)
AnswersTyped ==
    /\ standing \in [Hypotheses -> Standings]
    /\ question \in {"pending", "answered", "unanswered"}
    /\ pc       \in {"idle", "tools", "replying", "composing", "done"}
    /\ calls    \in Nat
    /\ calls    <= IF pc = "tools" THEN MaxToolCalls ELSE MaxReplies
    /\ DOMAIN labels = Kinds
    /\ \A k \in Kinds : labels[k] \in Seq(Rows(k))
    /\ order    \in Seq(Labels)
    /\ points   \in Seq([sources : SUBSET Nat, firmness : Firmness, meant : SUBSET Labels])

(* The model was shown each label once, for the record it still stands for.*)
LabelsStay == shown = {<<l, Entry(l).id>> : l \in Labels}

(* A record shown as accepted was accepted during the run; one shown as    *)
(* dropped is dropped for good.                                            *)
Remembered ==
    /\ pc # "idle" => \A h \in Hypotheses : standing[h] = "accepted" => h \in accepted
    /\ \A l \in Labels :
          /\ Entry(l).id \in Records
          /\ Entry(l).id \in Hypotheses => Entry(l).standing \in Standings
          /\ Entry(l).standing = "accepted" => Entry(l).id \in Hypotheses \cap accepted
          /\ Entry(l).standing = "dropped" =>
                 Entry(l).id \in Hypotheses /\ standing[Entry(l).id] = "dropped"

(* Nothing is composed before the reply, each label has one number, and    *)
(* each point has the numbers and the firmness of the labels meant.        *)
Composed ==
    /\ pc \in {"idle", "tools", "replying"} => order = <<>> /\ points = <<>>
    /\ IsInjective(order)
    /\ \A i \in DOMAIN points :
          /\ points[i].meant \subseteq Range(order)
          /\ points[i].sources = {n \in DOMAIN order : order[n] \in points[i].meant}
          /\ points[i].firmness = FirmnessOf({Entry(l) : l \in points[i].meant})

(* What is stored is what was composed.                                    *)
Stored ==
    /\ pc = "done" <=> question # "pending"
    /\ pc = "done" =>
          /\ answer = points
          /\ cites = Cited
          /\ question = "answered" <=> order # <<>>

AnswersIInv == AnswersTyped /\ LabelsStay /\ Remembered /\ Composed /\ Stored
-----------------------------------------------------------------------------
LEMMA LabelsAre ==
    ASSUME NEW k, NEW n
    PROVE  <<k, n>> \in Labels <=> k \in Kinds /\ n \in DOMAIN labels[k]
BY DEF Labels

LEMMA EntriesTyped ==
    ASSUME AnswersTyped, NEW l \in Labels
    PROVE  /\ l[1] \in Kinds /\ l[2] \in DOMAIN labels[l[1]] /\ l = <<l[1], l[2]>>
           /\ Entry(l) \in Rows(l[1])
<1>0. PICK k \in Kinds : \E n \in DOMAIN labels[k] : l = <<k, n>>
  BY DEF Labels
<1>1. PICK n \in DOMAIN labels[k] : l = <<k, n>>
  BY <1>0
<1>2. labels[k] \in Seq(Rows(k))
  BY DEF AnswersTyped
<1>3. labels[k][n] \in Rows(k)
  BY <1>2
<1> QED
  BY <1>1, <1>3 DEF Entry

LEMMA AnswersInitially == AnswersInit => AnswersIInv
<1> SUFFICES ASSUME AnswersInit PROVE AnswersIInv
  OBVIOUS
<1>1. DOMAIN labels = Kinds /\ \A k \in Kinds : labels[k] = <<>>
  BY DEF AnswersInit
<1>2. Labels = {}
  BY <1>1 DEF Labels
<1>3. AnswersTyped
  BY <1>1, AnswersAssumption DEF AnswersInit, AnswersTyped
<1>4. LabelsStay /\ Remembered
  BY <1>2 DEF AnswersInit, LabelsStay, Remembered
<1>5. Composed /\ Stored
  BY DEF AnswersInit, Composed, Stored, IsInjective
<1> QED
  BY <1>3, <1>4, <1>5 DEF AnswersIInv
-----------------------------------------------------------------------------
LEMMA AfreshWell ==
    ASSUME AnswersIInv, Afresh, question = "pending", UNCHANGED memory,
           pc' \in {"idle", "tools"}
    PROVE  AnswersIInv'
<1>1. (DOMAIN labels = Kinds)' /\ \A k \in Kinds : labels'[k] = <<>>
  BY DEF Afresh
<1>2. Labels' = {}
  BY <1>1 DEF Labels
<1>3. AnswersTyped'
  BY <1>1, AnswersAssumption DEF Afresh, AnswersIInv, AnswersTyped, memory
<1>4. LabelsStay' /\ Remembered'
  BY <1>2 DEF Afresh, LabelsStay, Remembered, memory
<1>5. Composed' /\ Stored'
  BY DEF Afresh, Composed, Stored, IsInjective, memory
<1> QED
  BY <1>3, <1>4, <1>5 DEF AnswersIInv

(* What a recall finds are records as they are now.                        *)
LEMMA FoundRows ==
    ASSUME AnswersTyped, NEW k \in Kinds, NEW rows \in Found(k)
    PROVE  /\ rows \in Seq(Rows(k))
           /\ \A i \in DOMAIN rows : rows[i].id \in Of(k) /\ rows[i] = Row(rows[i].id)
<1>1. PICK s \in SeqOf(Of(k), MaxFound) : rows = [i \in DOMAIN s |-> Row(s[i])]
  BY DEF Found
<1>2. PICK m \in Nat : s \in [1..m -> Of(k)]
  BY <1>1, AnswersAssumption DEF SeqOf
<1>3. \A r \in Of(k) : Row(r) \in Rows(k) /\ Row(r).id = r
  BY AnswersAssumption DEF Row, Rows, Of, AnswersTyped, Kinds
<1>4. rows \in [1..m -> Rows(k)]
  BY <1>1, <1>2, <1>3
<1>5. \A i \in 1..m : rows[i] = Row(s[i]) /\ s[i] \in Of(k)
  BY <1>1, <1>2
<1>6. rows \in Seq(Rows(k)) /\ DOMAIN rows = 1..m
  BY <1>2, <1>4
<1> QED
  BY <1>3, <1>5, <1>6

(* The labels there were keep their records, the new ones follow.          *)
LEMMA LabelsGoOn ==
    ASSUME AnswersTyped, NEW k \in Kinds, NEW rows \in Seq(Rows(k))
    PROVE  LET all == Labelled(k, rows) IN
           /\ all \in Seq(Rows(k))
           /\ DOMAIN all = 1..Len(labels[k]) + Len(rows)
           /\ \A n \in DOMAIN labels[k] : n \in DOMAIN all /\ all[n] = labels[k][n]
           /\ \A i \in DOMAIN rows : /\ First(k) + i \in DOMAIN all
                                     /\ all[First(k) + i] = rows[i]
           /\ \A n \in DOMAIN all : \/ n \in DOMAIN labels[k]
                                    \/ \E i \in DOMAIN rows : n = First(k) + i
<1> DEFINE L == Len(labels[k])
           R == Len(rows)
           all == Labelled(k, rows)
<1>1. /\ L \in Nat /\ R \in Nat /\ DOMAIN labels[k] = 1..L /\ DOMAIN rows = 1..R
      /\ \A n \in 1..L : labels[k][n] \in Rows(k)
      /\ \A n \in 1..R : rows[n] \in Rows(k)
  BY DEF AnswersTyped
<1>2. all = [n \in 1..L \cup L + 1..L + R |->
               IF n \in L + 1..L + R THEN rows[n - L] ELSE labels[k][n]]
  BY <1>1 DEF Labelled, First
<1> HIDE DEF all, L, R
<1>3. 1..L \cup L + 1..L + R = 1..L + R
  BY <1>1
<1>4. \A n \in 1..L + R : all[n] = IF n \in L + 1..L + R THEN rows[n - L] ELSE labels[k][n]
  BY <1>2, <1>3
<1>5. \A n \in 1..L + R : all[n] \in Rows(k)
  BY <1>1, <1>4
<1>6. all \in [1..L + R -> Rows(k)]
  BY <1>2, <1>3, <1>5
<1>7. all \in Seq(Rows(k)) /\ DOMAIN all = 1..L + R
  BY <1>1, <1>6
<1>8. \A n \in 1..L : n \in 1..L + R /\ all[n] = labels[k][n]
  BY <1>1, <1>4
<1>9. \A i \in 1..R : L + i \in 1..L + R /\ all[L + i] = rows[i]
  BY <1>1, <1>4
<1>10. \A n \in 1..L + R : n \in 1..L \/ \E i \in 1..R : n = L + i
  <2> SUFFICES ASSUME NEW n \in 1..L + R, n \notin 1..L
               PROVE  \E i \in 1..R : n = L + i
    OBVIOUS
  <2>1. n - L \in 1..R /\ n = L + (n - L)
    BY <1>1
  <2> QED
    BY <2>1
<1> QED
  BY <1>1, <1>7, <1>8, <1>9, <1>10 DEF all, L, R, First

(* After a recall the old labels stand for what they did, the new ones for *)
(* records as they are.                                                    *)
LEMMA RecallShows ==
    ASSUME AnswersTyped, Recall
    PROVE  /\ DOMAIN labels' = Kinds
           /\ \A k \in Kinds : labels'[k] \in Seq(Rows(k))
           /\ \A l \in Labels : l \in Labels' /\ Entry(l)' = Entry(l)
           /\ \A l \in Labels' : \/ l \in Labels
                                 \/ \E r \in Of(l[1]) : Entry(l)' = Row(r) /\ Entry(l)'.id = r
           /\ \A x : x \in shown' <=>
                 x \in shown \/ \E l \in Labels' : l \notin Labels /\ x = <<l, Entry(l)'.id>>
<1>1. PICK hs \in Found("H"), os \in Found("O") :
         LET found == [k \in Kinds |-> IF k = "H" THEN hs ELSE os] IN
         /\ labels' = [k \in Kinds |-> Labelled(k, found[k])]
         /\ shown'  = shown \cup UNION
               {{<<<<k, First(k) + i>>, found[k][i].id>> : i \in DOMAIN found[k]} : k \in Kinds}
  BY DEF Recall
<1> DEFINE found == [k \in Kinds |-> IF k = "H" THEN hs ELSE os]
<1>2. \A k \in Kinds : found[k] \in Found(k)
  BY DEF Kinds
<1>3. \A k \in Kinds : labels'[k] = Labelled(k, found[k])
  BY <1>1
<1>4. \A x : x \in shown' <=> x \in shown \/ \E k \in Kinds : \E i \in DOMAIN found[k] :
                                 x = <<<<k, First(k) + i>>, found[k][i].id>>
  BY <1>1
<1>5. DOMAIN labels' = Kinds
  BY <1>1
<1> HIDE DEF found
<1>6. ASSUME NEW k \in Kinds
      PROVE  /\ labels'[k] \in Seq(Rows(k))
             /\ \A n \in DOMAIN labels[k] :
                   n \in DOMAIN labels'[k] /\ labels'[k][n] = labels[k][n]
             /\ \A i \in DOMAIN found[k] :
                   /\ First(k) + i \in DOMAIN labels'[k] \ DOMAIN labels[k]
                   /\ labels'[k][First(k) + i] = found[k][i]
                   /\ found[k][i].id \in Of(k) /\ found[k][i] = Row(found[k][i].id)
             /\ \A n \in DOMAIN labels'[k] :
                   n \in DOMAIN labels[k] \/ \E i \in DOMAIN found[k] : n = First(k) + i
  <2>1. /\ found[k] \in Seq(Rows(k))
        /\ \A i \in DOMAIN found[k] : /\ found[k][i].id \in Of(k)
                                      /\ found[k][i] = Row(found[k][i].id)
    BY <1>2, FoundRows
  <2>2. labels'[k] = Labelled(k, found[k])
    BY <1>3
  <2>3. \A i \in DOMAIN found[k] : First(k) + i \notin DOMAIN labels[k]
    <3>1. labels[k] \in Seq(Rows(k))
      BY DEF AnswersTyped
    <3>2. Len(labels[k]) \in Nat /\ DOMAIN labels[k] = 1..Len(labels[k])
      BY <3>1
    <3>3. Len(found[k]) \in Nat /\ DOMAIN found[k] = 1..Len(found[k])
      BY <2>1
    <3> QED
      BY <3>2, <3>3 DEF First
  <2> QED
    BY <2>1, <2>2, <2>3, LabelsGoOn
<1>7. ASSUME NEW k \in Kinds, NEW n
      PROVE  /\ <<k, n>> \in Labels  <=> n \in DOMAIN labels[k]
             /\ <<k, n>> \in Labels' <=> n \in DOMAIN labels'[k]
             /\ Entry(<<k, n>>) = labels[k][n] /\ Entry(<<k, n>>)' = labels'[k][n]
  BY DEF Labels, Entry
<1>8. \A l \in Labels \cup Labels' : \E k \in Kinds : \E n : l = <<k, n>>
  BY DEF Labels
<1>9. \A l \in Labels : l \in Labels' /\ Entry(l)' = Entry(l)
  BY <1>6, <1>7, <1>8
<1>10. ASSUME NEW l \in Labels', l \notin Labels
       PROVE  \E k \in Kinds : \E i \in DOMAIN found[k] :
                 /\ l = <<k, First(k) + i>> /\ k = l[1]
                 /\ Entry(l)' = found[k][i]
  <2>1. PICK k \in Kinds : \E n : l = <<k, n>>
    BY <1>8
  <2>2. PICK n : l = <<k, n>>
    BY <2>1
  <2>3. n \in DOMAIN labels'[k] /\ n \notin DOMAIN labels[k]
    BY <1>7, <1>10, <2>2
  <2>4. PICK i \in DOMAIN found[k] : n = First(k) + i
    BY <1>6, <2>3
  <2> QED
    BY <1>6, <1>7, <2>2, <2>4
<1>11. ASSUME NEW k \in Kinds, NEW i \in DOMAIN found[k], NEW l, l = <<k, First(k) + i>>
       PROVE  l \in Labels' /\ l \notin Labels /\ Entry(l)' = found[k][i]
  <2>1. PICK n : n = First(k) + i
    OBVIOUS
  <2>2. l = <<k, n>> /\ n \in DOMAIN labels'[k] \ DOMAIN labels[k] /\ labels'[k][n] = found[k][i]
    BY <1>6, <1>11, <2>1
  <2> QED
    BY <1>7, <2>2
<1>12. ASSUME NEW l \in Labels', l \notin Labels
       PROVE  \E r \in Of(l[1]) : Entry(l)' = Row(r) /\ Entry(l)'.id = r
  <2>1. PICK k \in Kinds : \E i \in DOMAIN found[k] :
           k = l[1] /\ Entry(l)' = found[k][i]
    BY <1>10, <1>12
  <2>2. PICK i \in DOMAIN found[k] : Entry(l)' = found[k][i]
    BY <2>1
  <2>3. found[k][i].id \in Of(k) /\ found[k][i] = Row(found[k][i].id)
    BY <1>6
  <2> QED
    BY <2>1, <2>2, <2>3
<1>13. ASSUME NEW x
       PROVE  (\E k \in Kinds : \E i \in DOMAIN found[k] :
                  x = <<<<k, First(k) + i>>, found[k][i].id>>)
              <=> \E l \in Labels' : l \notin Labels /\ x = <<l, Entry(l)'.id>>
  <2>1. ASSUME NEW k \in Kinds, NEW i \in DOMAIN found[k],
               x = <<<<k, First(k) + i>>, found[k][i].id>>
        PROVE  \E l \in Labels' : l \notin Labels /\ x = <<l, Entry(l)'.id>>
    <3>1. PICK l : l = <<k, First(k) + i>>
      OBVIOUS
    <3>2. l \in Labels' /\ l \notin Labels /\ Entry(l)' = found[k][i]
      BY <1>11, <3>1
    <3> QED
      BY <2>1, <3>1, <3>2
  <2>2. ASSUME NEW l \in Labels', l \notin Labels, x = <<l, Entry(l)'.id>>
        PROVE  \E k \in Kinds : \E i \in DOMAIN found[k] :
                  x = <<<<k, First(k) + i>>, found[k][i].id>>
    <3>1. PICK k \in Kinds : \E i \in DOMAIN found[k] :
             l = <<k, First(k) + i>> /\ Entry(l)' = found[k][i]
      BY <1>10, <2>2
    <3> QED
      BY <2>2, <3>1
  <2> QED
    BY <2>1, <2>2
<1> QED
  BY <1>4, <1>5, <1>6, <1>9, <1>12, <1>13

LEMMA RecallWell == ASSUME AnswersIInv, Recall PROVE AnswersIInv'
<1> USE DEF AnswersIInv
<1>1. /\ pc = "tools" /\ calls' = calls + 1 /\ calls < MaxToolCalls
      /\ UNCHANGED <<memory, pc, composed, accepted>>
  BY DEF Recall, MayCall
<1>2. order' = <<>> /\ points' = <<>>
  BY <1>1 DEF Composed, composed
<1>3. AnswersTyped'
  <2>1. \A S : <<>> \in Seq(S)
    OBVIOUS
  <2>2. /\ (order \in Seq(Labels))'
        /\ (points \in Seq([sources : SUBSET Nat, firmness : Firmness, meant : SUBSET Labels]))'
    BY <1>2, <2>1
  <2>3. calls' \in Nat /\ calls' <= MaxToolCalls
    BY <1>1, AnswersAssumption DEF AnswersTyped
  <2> QED
    BY <1>1, <2>2, <2>3, RecallShows DEF AnswersTyped, memory
<1>4. LabelsStay'
  <2>1. \A x : x \in shown <=> \E l \in Labels : x = <<l, Entry(l).id>>
    BY DEF LabelsStay
  <2>2. \A x : x \in shown' <=> \E l \in Labels' : x = <<l, Entry(l)'.id>>
    BY <2>1, RecallShows
  <2> QED
    BY <2>2 DEF LabelsStay
<1>5. Remembered'
  <2>1. standing' = standing /\ accepted' = accepted /\ pc' = pc
    BY <1>1 DEF memory
  <2>2. \A h \in Hypotheses : standing[h] = "accepted" => h \in accepted
    BY <1>1 DEF Remembered
  <2>3. \A r \in Records :
           /\ Row(r).id = r /\ Row(r).standing = IF r \in Hypotheses THEN standing[r] ELSE "none"
           /\ r \in Hypotheses => standing[r] \in Standings
    BY DEF Row, AnswersTyped
  <2>4. ASSUME NEW l \in Labels'
        PROVE  /\ Entry(l)'.id \in Records
               /\ Entry(l)'.id \in Hypotheses => Entry(l)'.standing \in Standings
               /\ Entry(l)'.standing = "accepted" => Entry(l)'.id \in Hypotheses \cap accepted
               /\ Entry(l)'.standing = "dropped" =>
                     Entry(l)'.id \in Hypotheses /\ standing[Entry(l)'.id] = "dropped"
    <3>1. CASE l \in Labels
      BY <3>1, RecallShows DEF Remembered
    <3>2. CASE l \notin Labels
      <4>1. PICK r \in Records : Entry(l)' = Row(r) /\ Entry(l)'.id = r
        BY <3>2, RecallShows DEF Of, Records
      <4> QED
        BY <2>2, <2>3, <4>1
    <3> QED
      BY <3>1, <3>2
  <2> QED
    BY <2>1, <2>2, <2>4 DEF Remembered
<1>6. Composed'
  BY <1>2 DEF Composed, IsInjective
<1>7. Stored'
  BY <1>1 DEF Stored, memory
<1> QED
  BY <1>3, <1>4, <1>5, <1>6, <1>7
-----------------------------------------------------------------------------
LEMMA LabelsRest ==
    ASSUME UNCHANGED labels
    PROVE  Labels' = Labels /\ \A l : Entry(l)' = Entry(l)
BY DEF Labels, Entry

(* The conversation leaves what was shown and composed alone.              *)
LEMMA TalkWell ==
    ASSUME AnswersIInv, RecallFails \/ ToolsEnd \/ BadReply \/ GoodReply
    PROVE  AnswersIInv'
<1> USE DEF AnswersIInv
<1>1. /\ pc \in {"tools", "replying"} /\ pc' \in {"tools", "replying", "composing"}
      /\ UNCHANGED <<memory, labels, composed, shown, accepted>>
  BY DEF RecallFails, ToolsEnd, BadReply, GoodReply
<1>2. calls' \in Nat /\ calls' <= IF pc' = "tools" THEN MaxToolCalls ELSE MaxReplies
  BY AnswersAssumption DEF RecallFails, ToolsEnd, BadReply, GoodReply, MayCall, AnswersTyped
<1>3. Labels' = Labels /\ \A l : Entry(l)' = Entry(l)
  BY <1>1, LabelsRest
<1>4. AnswersTyped'
  BY <1>1, <1>2, <1>3 DEF AnswersTyped, memory, composed
<1>5. LabelsStay' /\ Remembered'
  BY <1>1, <1>3 DEF LabelsStay, Remembered, memory
<1>6. Composed'
  BY <1>1, <1>3 DEF Composed, composed, IsInjective
<1>7. Stored'
  BY <1>1 DEF Stored, memory
<1> QED
  BY <1>4, <1>5, <1>6, <1>7

(* Numbers that were given stay; the fresh labels have the next ones.      *)
LEMMA NumbersGoOn ==
    ASSUME NEW S, NEW s \in Seq(S), NEW t \in Seq(S),
           IsInjective(s), IsInjective(t), Range(s) \cap Range(t) = {}
    PROVE  /\ s \o t \in Seq(S)
           /\ IsInjective(s \o t)
           /\ Range(s \o t) = Range(s) \cup Range(t)
           /\ \A n \in DOMAIN s : n \in DOMAIN (s \o t) /\ (s \o t)[n] = s[n]
           /\ \A n \in DOMAIN (s \o t) : (s \o t)[n] \in Range(s) => n \in DOMAIN s
<1> DEFINE u == s \o t
<1>1. u \in Seq(S) /\ Len(s) \in Nat /\ Len(t) \in Nat
  OBVIOUS
<1>2. /\ DOMAIN s = 1..Len(s) /\ DOMAIN t = 1..Len(t) /\ DOMAIN u = 1..Len(s) + Len(t)
      /\ \A n \in 1..Len(s) : u[n] = s[n]
      /\ \A n \in Len(s) + 1..Len(s) + Len(t) : n - Len(s) \in 1..Len(t) /\ u[n] = t[n - Len(s)]
  OBVIOUS
<1> HIDE DEF u
<1>3. /\ \A n \in 1..Len(s) : u[n] \in Range(s)
      /\ \A n \in Len(s) + 1..Len(s) + Len(t) : u[n] \in Range(t)
  BY <1>2 DEF Range
<1>4. \A n \in DOMAIN u : u[n] \in Range(s) => n \in DOMAIN s
  BY <1>1, <1>2, <1>3
<1>5. IsInjective(u)
  <2> SUFFICES ASSUME NEW m \in DOMAIN u, NEW n \in DOMAIN u, u[m] = u[n] PROVE m = n
    BY DEF IsInjective
  <2>1. CASE m \in 1..Len(s)
    <3>1. n \in 1..Len(s)
      BY <1>2, <1>3, <1>4, <2>1
    <3> QED
      BY <1>2, <2>1, <3>1 DEF IsInjective
  <2>2. CASE m \notin 1..Len(s)
    <3>1. m \in Len(s) + 1..Len(s) + Len(t) /\ n \in Len(s) + 1..Len(s) + Len(t)
      BY <1>1, <1>2, <1>3, <2>2
    <3>2. /\ m - Len(s) \in DOMAIN t /\ n - Len(s) \in DOMAIN t
          /\ t[m - Len(s)] = t[n - Len(s)]
      BY <1>2, <3>1
    <3>3. m - Len(s) = n - Len(s)
      BY <3>2 DEF IsInjective
    <3> QED
      BY <1>1, <3>1, <3>3
  <2> QED
    BY <2>1, <2>2
<1>6. ASSUME NEW x \in Range(s) \cup Range(t) PROVE x \in Range(u)
  <2>1. CASE x \in Range(s)
    <3>1. PICK n \in 1..Len(s) : x = s[n]
      BY <1>2, <2>1 DEF Range
    <3>2. n \in DOMAIN u /\ u[n] = x
      BY <1>1, <1>2, <3>1
    <3> QED
      BY <3>2 DEF Range
  <2>2. CASE x \in Range(t)
    <3>1. PICK n \in 1..Len(t) : x = t[n]
      BY <1>2, <2>2 DEF Range
    <3>2. /\ Len(s) + n \in Len(s) + 1..Len(s) + Len(t)
          /\ Len(s) + n \in 1..Len(s) + Len(t) /\ Len(s) + n - Len(s) = n
      BY <1>1, <3>1
    <3>3. u[Len(s) + n] = t[Len(s) + n - Len(s)]
      BY <1>2, <3>2
    <3> QED
      BY <1>2, <3>1, <3>2, <3>3 DEF Range
  <2> QED
    BY <2>1, <2>2
<1>7. \A n \in DOMAIN u : u[n] \in Range(s) \cup Range(t)
  BY <1>1, <1>2, <1>3
<1>8. Range(u) = Range(s) \cup Range(t)
  BY <1>6, <1>7 DEF Range
<1>9. \A n \in DOMAIN s : n \in DOMAIN u /\ u[n] = s[n]
  BY <1>1, <1>2
<1> QED
  BY <1>1, <1>4, <1>5, <1>8, <1>9 DEF u

LEMMA FirmnessAre ==
    ASSUME NEW entries
    PROVE  /\ FirmnessOf(entries) \in Firmness
           /\ FirmnessOf(entries) = "concluded" => \E e \in entries : e.standing = "accepted"
           /\ FirmnessOf(entries) = "judged false" =>
                 \A e \in entries : e.standing \notin {"accepted", "live"}
<1> DEFINE standings == {e.standing : e \in entries}
<1>1. FirmnessOf(entries) = IF      "accepted" \in standings THEN "concluded"
                            ELSE IF "live"     \in standings THEN "investigating"
                            ELSE IF "dropped"  \in standings THEN "judged false"
                            ELSE "reported"
  BY DEF FirmnessOf
<1>2. \A x : x \in standings <=> \E e \in entries : e.standing = x
  OBVIOUS
<1> HIDE DEF standings
<1>3. FirmnessOf(entries) \in Firmness
  BY <1>1 DEF Firmness
<1>4. FirmnessOf(entries) = "concluded" => "accepted" \in standings
  BY <1>1
<1>5. FirmnessOf(entries) = "judged false" =>
         "accepted" \notin standings /\ "live" \notin standings
  BY <1>1
<1>6. FirmnessOf(entries) = "concluded" => \E e \in entries : e.standing = "accepted"
  BY <1>2, <1>4
<1>7. FirmnessOf(entries) = "judged false" =>
         \A e \in entries : e.standing \notin {"accepted", "live"}
  BY <1>2, <1>5
<1> QED
  BY <1>3, <1>6, <1>7

LEMMA PointsTyped ==
    ASSUME AnswersTyped, NEW i \in DOMAIN points
    PROVE  /\ points[i].sources \subseteq Nat /\ points[i].firmness \in Firmness
           /\ points[i].meant \subseteq Labels
<1> DEFINE Points == [sources : SUBSET Nat, firmness : Firmness, meant : SUBSET Labels]
<1>1. points \in Seq(Points)
  BY DEF AnswersTyped
<1>2. points[i] \in Points
  <2> HIDE DEF Points
  <2> QED
    BY <1>1
<1> QED
  BY <1>2

LEMMA AddPointWell == ASSUME AnswersIInv, AddPoint PROVE AnswersIInv'
<1> USE DEF AnswersIInv
<1>1. PICK used \in SUBSET Labels, fresh \in SeqOf(Labels, MaxSources) :
         /\ Numbered(used, fresh)
         /\ order'  = order \o fresh
         /\ points' = Append(points, [sources  |-> {n \in DOMAIN order' : order'[n] \in used},
                                      firmness |-> FirmnessOf({Entry(l) : l \in used}),
                                      meant    |-> used])
  BY DEF AddPoint
<1>2. pc = "composing" /\ UNCHANGED <<memory, pc, calls, labels, shown, accepted>>
  BY DEF AddPoint
<1>3. Labels' = Labels /\ \A l : Entry(l)' = Entry(l)
  BY <1>2, LabelsRest
<1> DEFINE point == [sources  |-> {n \in DOMAIN order' : order'[n] \in used},
                     firmness |-> FirmnessOf({Entry(l) : l \in used}),
                     meant    |-> used]
<1>4. fresh \in Seq(Labels) /\ order \in Seq(Labels)
  <2>1. PICK m \in Nat : fresh \in [1..m -> Labels]
    BY AnswersAssumption DEF SeqOf
  <2>2. fresh \in Seq(Labels)
    BY <2>1
  <2> QED
    BY <2>2 DEF AnswersTyped
<1>5. IsInjective(order) /\ IsInjective(fresh) /\ Range(fresh) = used \ Range(order)
  BY <1>1 DEF Numbered, Composed
<1>6. /\ order' \in Seq(Labels) /\ IsInjective(order')
      /\ Range(order') = Range(order) \cup used
      /\ \A n \in DOMAIN order : n \in DOMAIN order' /\ order'[n] = order[n]
      /\ \A n \in DOMAIN order' : order'[n] \in Range(order) => n \in DOMAIN order
  <2>1. Range(order) \cap Range(fresh) = {}
    BY <1>5
  <2>2. Range(order) \cup Range(fresh) = Range(order) \cup used
    BY <1>5
  <2> QED
    BY <1>1, <1>4, <1>5, <2>1, <2>2, NumbersGoOn
<1>7. point \in [sources : SUBSET Nat, firmness : Firmness, meant : SUBSET Labels]
  <2>1. \A n \in DOMAIN order' : n \in Nat
    BY <1>6
  <2>2. FirmnessOf({Entry(l) : l \in used}) \in Firmness
    BY FirmnessAre
  <2> QED
    BY <2>1, <2>2
<1>8. /\ points' \in Seq([sources : SUBSET Nat, firmness : Firmness, meant : SUBSET Labels])
      /\ \A i \in DOMAIN points' : \/ i \in DOMAIN points /\ points'[i] = points[i]
                                   \/ points'[i] = point
  <2>1. points \in Seq([sources : SUBSET Nat, firmness : Firmness, meant : SUBSET Labels])
    BY DEF AnswersTyped
  <2>2. points' = Append(points, point)
    BY <1>1
  <2> HIDE DEF point
  <2> QED
    BY <1>7, <2>1, <2>2
<1>9. AnswersTyped'
  BY <1>2, <1>3, <1>6, <1>8 DEF AnswersTyped, memory
<1>10. LabelsStay' /\ Remembered'
  BY <1>2, <1>3 DEF LabelsStay, Remembered, memory
<1>11. ASSUME NEW i \in DOMAIN points'
       PROVE  /\ points'[i].meant \subseteq Range(order')
              /\ points'[i].sources = {n \in DOMAIN order' : order'[n] \in points'[i].meant}
              /\ points'[i].firmness = FirmnessOf({Entry(l)' : l \in points'[i].meant})
  <2>0. \A S : {Entry(l)' : l \in S} = {Entry(l) : l \in S}
    BY <1>3
  <2>1. CASE i \in DOMAIN points /\ points'[i] = points[i]
    <3>1. /\ points[i].meant \subseteq Range(order)
          /\ points[i].sources = {n \in DOMAIN order : order[n] \in points[i].meant}
          /\ points[i].firmness = FirmnessOf({Entry(l) : l \in points[i].meant})
      BY <2>1 DEF Composed
    <3>2. {n \in DOMAIN order : order[n] \in points[i].meant}
             = {n \in DOMAIN order' : order'[n] \in points[i].meant}
      BY <1>6, <3>1
    <3> QED
      BY <1>6, <2>0, <2>1, <3>1, <3>2
  <2>2. CASE points'[i] = point
    <3>1. /\ points'[i].meant = used
          /\ points'[i].sources = {n \in DOMAIN order' : order'[n] \in used}
          /\ points'[i].firmness = FirmnessOf({Entry(l) : l \in used})
      BY <2>2
    <3>2. {Entry(l)' : l \in used} = {Entry(l) : l \in used}
      BY <2>0
    <3> QED
      BY <1>6, <3>1, <3>2
  <2> QED
    BY <1>8, <2>1, <2>2
<1>12. Composed'
  BY <1>2, <1>3, <1>6, <1>11 DEF Composed
<1>13. Stored'
  BY <1>2 DEF Stored, memory
<1> QED
  BY <1>9, <1>10, <1>12, <1>13

LEMMA PersistAnswerWell == ASSUME AnswersIInv, PersistAnswer PROVE AnswersIInv'
<1> USE DEF AnswersIInv
<1>1. /\ pc = "composing" /\ pc' = "done" /\ AnswerQuestion
      /\ UNCHANGED <<standing, calls, labels, composed, shown, accepted>>
  BY DEF PersistAnswer
<1>2. Labels' = Labels /\ \A l : Entry(l)' = Entry(l)
  BY <1>1, LabelsRest
<1>3. AnswersTyped'
  BY <1>1, <1>2 DEF AnswersTyped, AnswerQuestion, composed
<1>4. LabelsStay' /\ Remembered'
  BY <1>1, <1>2 DEF LabelsStay, Remembered
<1>5. Composed'
  BY <1>1, <1>2 DEF Composed, composed, IsInjective
<1>6. Stored'
  <2>1. Cited' = Cited
    BY <1>1 DEF Cited, FirstCited, Entry, composed
  <2> QED
    BY <1>1, <2>1 DEF Stored, AnswerQuestion, IsAnswer, composed
<1> QED
  BY <1>3, <1>4, <1>5, <1>6

(* A hypothesis that is dropped stays so; what was accepted is remembered. *)
LEMMA MemoryMovesWell ==
    ASSUME AnswersIInv, NEW h \in Hypotheses, MemoryMoves(h)
    PROVE  AnswersIInv'
<1> USE DEF AnswersIInv
<1>1. PICK s \in Standings :
         /\ standing[h] # "dropped"
         /\ standing' = [standing EXCEPT ![h] = s]
         /\ accepted' = IF s = "accepted" /\ pc # "idle" THEN accepted \cup {h} ELSE accepted
  BY DEF MemoryMoves
<1>2. /\ pc # "done"
      /\ UNCHANGED <<question, answer, cites, pc, calls, labels, composed, shown>>
  BY DEF MemoryMoves
<1>3. Labels' = Labels /\ \A l : Entry(l)' = Entry(l)
  BY <1>2, LabelsRest
<1>4. AnswersTyped'
  BY <1>1, <1>2, <1>3 DEF AnswersTyped, composed
<1>5. LabelsStay'
  BY <1>2, <1>3 DEF LabelsStay
<1>6. Remembered'
  <2>1. /\ standing \in [Hypotheses -> Standings]
        /\ accepted \subseteq accepted'
        /\ \A g \in Hypotheses : standing[g] = "dropped" => standing'[g] = "dropped"
    BY <1>1 DEF AnswersTyped
  <2>2. pc # "idle" => \A g \in Hypotheses : standing'[g] = "accepted" => g \in accepted'
    BY <1>1, <2>1 DEF Remembered
  <2> QED
    BY <1>2, <1>3, <2>1, <2>2 DEF Remembered
<1>7. Composed'
  BY <1>2 DEF Composed, composed, IsInjective, Entry
<1>8. Stored'
  BY <1>2 DEF Stored
<1> QED
  BY <1>4, <1>5, <1>6, <1>7, <1>8

(* The inductive invariant: what was shown stays shown, under one label    *)
(* each, until the answer has been stored.                                 *)
THEOREM AnswersInvariance == AnswersSpec => []AnswersIInv
<1>1. AnswersIInv /\ [AnswersNext]_answersVars => AnswersIInv'
  <2> SUFFICES ASSUME AnswersIInv, [AnswersNext]_answersVars PROVE AnswersIInv'
    OBVIOUS
  <2>1. CASE Start
    <3>1. Afresh /\ question = "pending" /\ UNCHANGED memory /\ pc' \in {"idle", "tools"}
      BY <2>1 DEF Start
    <3> QED
      BY <3>1, AfreshWell
  <2>2. CASE Recall
    BY <2>2, RecallWell
  <2>3. CASE RecallFails \/ ToolsEnd \/ BadReply \/ GoodReply
    BY <2>3, TalkWell
  <2>4. CASE RunFails
    <3>1. /\ Afresh /\ UNCHANGED memory /\ pc' \in {"idle", "tools"}
          /\ pc \in {"tools", "replying", "composing"}
      BY <2>4 DEF RunFails
    <3>2. question = "pending"
      BY <3>1 DEF AnswersIInv, Stored
    <3> QED
      BY <3>1, <3>2, AfreshWell
  <2>5. CASE AddPoint
    BY <2>5, AddPointWell
  <2>6. CASE PersistAnswer
    BY <2>6, PersistAnswerWell
  <2>7. CASE \E h \in Hypotheses : MemoryMoves(h)
    BY <2>7, MemoryMovesWell
  <2>8. CASE UNCHANGED answersVars
    <3>1. UNCHANGED <<memory, pc, calls, labels, composed, shown, accepted>>
      BY <2>8 DEF answersVars
    <3>2. Labels' = Labels /\ \A l : Entry(l)' = Entry(l)
      BY <3>1, LabelsRest
    <3>3. AnswersTyped'
      BY <3>1, <3>2 DEF AnswersIInv, AnswersTyped, memory, composed
    <3>4. LabelsStay' /\ Remembered'
      BY <3>1, <3>2 DEF AnswersIInv, LabelsStay, Remembered, memory
    <3>5. Composed'
      <4>1. Composed /\ UNCHANGED <<pc, labels, order, points>>
        BY <3>1 DEF AnswersIInv, composed
      <4>2. \A i : {Entry(l) : l \in points[i].meant}' = {Entry(l) : l \in points[i].meant}
        BY <4>1, <3>2
      <4> QED
        BY <4>1, <4>2 DEF Composed, IsInjective
    <3>6. Cited' = Cited
      BY <3>1 DEF Cited, FirstCited, Entry, composed
    <3>7. Stored'
      BY <3>1, <3>6 DEF AnswersIInv, Stored, memory, composed
    <3> QED
      BY <3>3, <3>4, <3>5, <3>7 DEF AnswersIInv
  <2> QED
    BY <2>1, <2>2, <2>3, <2>4, <2>5, <2>6, <2>7, <2>8 DEF AnswersNext
<1> QED
  BY <1>1, AnswersInitially, PTL DEF AnswersSpec
-----------------------------------------------------------------------------
(* Tool calls and tries stay within their limits, a label number within    *)
(* the labels there are, a point's sources within the numbers.             *)
THEOREM AnswersTypesHold == AnswersSpec => []AnswersTypeOK
<1>1. AnswersIInv => AnswersTypeOK
  <2> SUFFICES ASSUME AnswersIInv PROVE AnswersTypeOK
    OBVIOUS
  <2> USE DEF AnswersIInv
  <2>1. ASSUME NEW k \in Kinds PROVE Range(labels[k]) \subseteq Rows(k)
    <3>1. labels[k] \in Seq(Rows(k))
      BY DEF AnswersTyped
    <3> QED
      BY <3>1 DEF Range
  <2>2. ASSUME NEW i \in DOMAIN order PROVE order[i][2] \in DOMAIN labels[order[i][1]]
    <3>1. order[i] \in Labels
      BY DEF AnswersTyped
    <3> QED
      BY <3>1, EntriesTyped
  <2>3. ASSUME NEW i \in DOMAIN points
        PROVE  points[i].sources \subseteq DOMAIN order /\ points[i].firmness \in Firmness
    <3>1. points[i].sources = {n \in DOMAIN order : order[n] \in points[i].meant}
      BY DEF Composed
    <3> QED
      BY <3>1, PointsTyped
  <2>4. calls \in 0..(IF pc = "tools" THEN MaxToolCalls ELSE MaxReplies)
    BY AnswersAssumption DEF AnswersTyped
  <2> QED
    BY <2>1, <2>2, <2>3, <2>4 DEF AnswersTyped, AnswersTypeOK
<1> QED
  BY <1>1, AnswersInvariance, PTL

LEMMA FirstCitedWithin ==
    ASSUME AnswersIInv
    PROVE  /\ Len(order) \in Nat /\ DOMAIN order = 1..Len(order)
           /\ FirstCited \subseteq 1..Len(order)
           /\ IsFiniteSet(FirstCited) /\ Cardinality(FirstCited) \in Nat
           /\ order # <<>> => 1 \in FirstCited
<1>1. order \in Seq(Labels)
  BY DEF AnswersIInv, AnswersTyped
<1>2. Len(order) \in Nat /\ DOMAIN order = 1..Len(order)
  BY <1>1
<1>3. FirstCited \subseteq 1..Len(order)
  BY <1>2 DEF FirstCited
<1>4. IsFiniteSet(FirstCited)
  <2>1. IsFiniteSet(1..Len(order))
    BY <1>2, FS_Interval
  <2> QED
    BY <1>3, <2>1, FS_Subset
<1>5. order # <<>> => 1 \in FirstCited
  <2> SUFFICES ASSUME order # <<>> PROVE 1 \in FirstCited
    OBVIOUS
  <2>1. 1 \in DOMAIN order
    BY <1>1, <1>2
  <2>2. 1..1 - 1 = {}
    OBVIOUS
  <2> QED
    BY <2>1, <2>2 DEF FirstCited
<1> QED
  BY <1>2, <1>3, <1>4, <1>5, FS_CardinalityType

(* A point put as a conclusion rests on a hypothesis that was accepted     *)
(* during the run; one put as judged false, only on dropped ones.          *)
THEOREM FirmOnlyAsMemory == AnswersSpec => []FirmAsMemory
<1>1. AnswersIInv => FirmAsMemory
  <2> SUFFICES ASSUME AnswersIInv, question = "answered", NEW i \in DOMAIN answer
               PROVE  LET cited == {Entry(l).id : l \in answer[i].meant} \cap Hypotheses IN
                      /\ answer[i].firmness = "concluded" => cited \cap accepted # {}
                      /\ answer[i].firmness = "judged false" =>
                             \A h \in cited : standing[h] = "dropped"
    BY DEF FirmAsMemory
  <2> USE DEF AnswersIInv
  <2>1. answer = points
    BY DEF Stored
  <2>2. /\ points[i].firmness = FirmnessOf({Entry(l) : l \in points[i].meant})
        /\ points[i].meant \subseteq Labels
    BY <2>1, PointsTyped DEF Composed
  <2>3. ASSUME points[i].firmness = "concluded"
        PROVE  \E l \in points[i].meant : Entry(l).id \in Hypotheses \cap accepted
    <3>1. PICK l \in points[i].meant : Entry(l).standing = "accepted"
      BY <2>2, <2>3, FirmnessAre
    <3> QED
      BY <2>2, <3>1 DEF Remembered
  <2>4. ASSUME points[i].firmness = "judged false",
               NEW l \in points[i].meant, Entry(l).id \in Hypotheses
        PROVE  standing[Entry(l).id] = "dropped"
    <3>1. Entry(l).standing \notin {"accepted", "live"}
      BY <2>2, <2>4, FirmnessAre
    <3>2. Entry(l).standing = "dropped"
      BY <2>2, <2>4, <3>1 DEF Remembered, Standings
    <3> QED
      BY <2>2, <3>2 DEF Remembered
  <2> QED
    BY <2>1, <2>3, <2>4
<1> QED
  BY <1>1, AnswersInvariance, PTL

(* With one number for each record, all numbers are first citations, and   *)
(* the relationships follow them.                                          *)
LEMMA CitedInOrder ==
    ASSUME AnswersIInv, ~CitedTwice
    PROVE  \A n \in DOMAIN order : Cited[n] = Entry(order[n]).id
<1> DEFINE D == 1..Len(order)
           f == [n \in D |-> Entry(order[n]).id]
           T == {Entry(l).id : l \in Range(order)}
<1>1. /\ Len(order) \in Nat /\ DOMAIN order = D
      /\ IsFiniteSet(D) /\ Cardinality(D) = Len(order)
  <2>1. Len(order) \in Nat /\ DOMAIN order = D
    BY FirstCitedWithin
  <2>2. IsFiniteSet(D) /\ Cardinality(D) = IF 1 > Len(order) THEN 0 ELSE Len(order) - 1 + 1
    BY <2>1, FS_Interval
  <2> QED
    BY <2>1, <2>2
<1>2. f \in Surjection(D, T)
  <2>1. \A x \in T : \E n \in D : f[n] = x
    BY <1>1 DEF Range
  <2>2. \A n \in D : f[n] \in T
    BY <1>1 DEF Range
  <2> QED
    BY <2>1, <2>2 DEF Surjection
<1>3. IsFiniteSet(T) /\ Cardinality(T) <= Len(order)
  BY <1>1, <1>2, FS_Surjection
<1>4. Cardinality(T) = Len(order)
  BY <1>1, <1>3, FS_CardinalityType DEF CitedTwice
<1>5. f \in Injection(D, T)
  BY <1>1, <1>2, <1>3, <1>4, FS_SurjSameCardinalityImpliesInj
<1>6. \A m, n \in D : Entry(order[m]).id = Entry(order[n]).id => m = n
  BY <1>5 DEF Injection, IsInjective
<1>7. FirstCited = D
  BY <1>1, <1>6 DEF FirstCited
<1>8. \A m \in D : Cardinality({x \in D : x <= m}) = m
  <2> SUFFICES ASSUME NEW m \in D PROVE Cardinality({x \in D : x <= m}) = m
    OBVIOUS
  <2>1. {x \in D : x <= m} = 1..m
    BY <1>1
  <2>2. m \in Nat
    BY <1>1
  <2>3. Cardinality(1..m) = m
    BY <2>2, FS_Interval
  <2> QED
    BY <2>1, <2>3
<1>9. ASSUME NEW i \in D PROVE Cited[i] = Entry(order[i]).id
  <2>1. (CHOOSE m \in D : Cardinality({x \in D : x <= m}) = i) = i
    BY <1>8
  <2> QED
    BY <1>1, <1>4, <1>7, <2>1 DEF Cited
<1> QED
  BY <1>1, <1>9

(* The numbers of a point lead, through the relationships of the question, *)
(* to the records the model had seen under the labels it gave.             *)
THEOREM NumbersDoLeadHome == AnswersSpec => []NumbersLeadHome
<1>1. AnswersIInv => NumbersLeadHome
  <2> SUFFICES ASSUME AnswersIInv, question = "answered", ~CitedTwice, NEW i \in DOMAIN answer
               PROVE  {cites[n] : n \in answer[i].sources}
                         = {s[2] : s \in {x \in shown : x[1] \in answer[i].meant}}
    BY DEF NumbersLeadHome
  <2> USE DEF AnswersIInv
  <2>1. answer = points /\ cites = Cited
    BY DEF Stored
  <2>2. /\ points[i].sources = {n \in DOMAIN order : order[n] \in points[i].meant}
        /\ points[i].meant \subseteq Range(order) /\ points[i].meant \subseteq Labels
    BY <2>1, PointsTyped DEF Composed
  <2> DEFINE ids == {Entry(l).id : l \in points[i].meant}
  <2>3. {cites[n] : n \in points[i].sources} = ids
    <3>1. \A n \in points[i].sources : order[n] \in points[i].meant /\ cites[n] = Entry(order[n]).id
      BY <2>1, <2>2, CitedInOrder
    <3>2. \A l \in points[i].meant : \E n \in points[i].sources : order[n] = l
      BY <2>2 DEF Range
    <3> QED
      BY <3>1, <3>2
  <2>4. {s[2] : s \in {x \in shown : x[1] \in points[i].meant}} = ids
    <3>1. \A l \in points[i].meant : <<l, Entry(l).id>> \in shown
      BY <2>2 DEF LabelsStay
    <3>2. \A x \in shown : x[2] = Entry(x[1]).id
      BY DEF LabelsStay
    <3> QED
      BY <3>1, <3>2
  <2> QED
    BY <2>1, <2>3, <2>4
<1> QED
  BY <1>1, AnswersInvariance, PTL
=============================================================================
