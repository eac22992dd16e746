------------------------------ MODULE Fetching ------------------------------
(***************************************************************************)
(* Fetching pages and feeds (src/collegium/acquisition/fetching.py), as    *)
(* the free extractor (web.py) and the feed reader (feeds.py) use it.      *)
(*                                                                         *)
(* A process fetches one address at a time. A fetch is a chain of name     *)
(* lookups and requests, with the robots.txt of every site it comes to;    *)
(* each await is a place where the answer may be any, may never come, and  *)
(* where the deadline may strike. What outlives a fetch are the caches of  *)
(* rules and the lookups nobody waits for any more.                        *)
(*                                                                         *)
(* There are two SafeFetchers, the extractor's and the feed reader's, and  *)
(* both live as long as the process (acquisition_from_settings). Each has  *)
(* a cache of its own, which it fills when it comes to a site for the      *)
(* first time and never empties: what one was told the other may have been *)
(* told otherwise.                                                         *)
(*                                                                         *)
(* An address is a member of Urls; robots.txt files are addresses too. The *)
(* rules of a site are the addresses they disallow. Time is counted in     *)
(* units that divide the deadlines.                                        *)
(***************************************************************************)
EXTENDS Integers, FiniteSets

CONSTANTS
    Urls,               \* addresses
    NoUrl,              \* no address
    NotWeb,             \* those that are not http(s) on the usual ports
    Sites,              \* scheme and host, as the cache of rules has them
    Site,               \* [Urls -> Sites]
    Robots,             \* [Sites -> Urls], the address of its robots.txt
    Hosts,              \* names that are looked up
    Host,               \* [Urls -> Hosts]
    Addresses,          \* what names resolve to
    Public,             \* the public ones
    Rules,              \* [Sites -> sets of addresses], rules a site may serve
    Unknown,            \* no rules are known
    FeedPaths,          \* [Urls -> sets of addresses], FEED_PATHS at its site
    MaxRedirects,       \* MAX_REDIRECTS
    MaxRobotsRedirects, \* MAX_ROBOTS_REDIRECTS
    MaxAnnounced,       \* MAX_ANNOUNCED_FEEDS
    PageDeadline,       \* DEADLINE_SECONDS
    FeedDeadline,       \* FEED_DEADLINE_SECONDS
    Threads             \* the threads of _LOOKUPS

ASSUME FetchingAssumption ==
    /\ NoUrl \notin Urls
    /\ NotWeb \subseteq Urls
    /\ Site \in [Urls -> Sites]
    /\ Robots \in [Sites -> Urls]
    /\ Host \in [Urls -> Hosts]
    /\ Public \subseteq Addresses
    /\ Rules \in [Sites -> SUBSET SUBSET Urls]
    /\ \A s \in Sites : Unknown \notin Rules[s]
    /\ FeedPaths \in [Urls -> SUBSET Urls]
    /\ MaxRedirects \in Nat
    /\ MaxRobotsRedirects \in Nat
    /\ MaxAnnounced \in Nat
    /\ PageDeadline \in Nat \ {0}
    /\ FeedDeadline \in Nat /\ FeedDeadline >= PageDeadline
    /\ Threads \in Nat \ {0}

VARIABLES
    \* what the fetches are for
    job,      \* "none", "pages" (extract), "crawl", or find_feed: "site", "candidates"
    todo,     \* addresses still to be fetched for it
    feedLeft, \* find_feed: time left until give_up_at
    \* the fetch under way
    place,    \* where it is
    url,      \* _fetch: the address it has come to
    hops,     \* redirects followed to get there
    rurl,     \* _load_robots: the address it has come to
    rhops,    \* redirects followed to get there
    left,     \* time left until its deadline
    pins,     \* the addresses its connections may go to, by host
    pool,     \* the connections its client keeps open, by site: where they lead
    \* what outlives it
    robots,   \* _robots, of each fetcher
    hung,     \* threads of _LOOKUPS held by lookups that were given up
    \* history
    said,     \* the rules each site last answered each fetcher with
    looked,   \* what each host last resolved to in this fetch
    requests, \* requests made in this fetch
    astray    \* did one ever go to an address not approved for its host?

jobVars   == <<job, todo, feedLeft>>
netVars   == <<pins, pool, looked>>
fetchVars == <<place, url, hops, rurl, rhops, left, netVars, requests>>
vars      == <<jobVars, fetchVars, robots, hung, said, astray>>

(* Whose fetch it is: find_feed is the extractor's as well. *)
Fetchers == {"extractor", "feeds"}
Fetcher  == IF job = "crawl" THEN "feeds" ELSE "extractor"

(* "checking", "checking robots": a name is being looked up; "asking        *)
(* robots", "asking": a request is out.                                     *)
Places == {"idle", "checking", "checking robots", "asking robots", "asking"}

(* What may be known of each site. *)
Caches == {c \in [Sites -> {Unknown} \cup UNION {Rules[s] : s \in Sites}] :
              \A s \in Sites : c[s] \in {Unknown} \cup Rules[s]}

(* Type invariant: no chain of redirects is longer than its limit, no      *)
(* fetch outruns its deadline, and the search for a feed never takes       *)
(* longer than the one its fetches share.                                  *)
TypeOK ==
    /\ job      \in {"none", "pages", "crawl", "site", "candidates"}
    /\ todo     \subseteq Urls
    /\ feedLeft \in 0..FeedDeadline
    /\ place    \in Places
    /\ url      \in Urls \cup {NoUrl}
    /\ hops     \in 0..MaxRedirects
    /\ rurl     \in Urls \cup {NoUrl}
    /\ rhops    \in 0..MaxRobotsRedirects
    /\ left     \in 0..FeedDeadline
    /\ pins     \in [Hosts -> SUBSET Addresses]
    /\ pool     \in [Sites -> SUBSET Addresses]
    /\ robots   \in [Fetchers -> Caches] /\ said \in [Fetchers -> Caches]
    /\ hung     \in 0..Threads
    /\ looked   \in [Hosts -> SUBSET Addresses]
    /\ requests \in Nat
    /\ astray   \in BOOLEAN

Init ==
    /\ job = "none" /\ todo = {} /\ feedLeft = 0
    /\ place = "idle" /\ url = NoUrl /\ hops = 0
    /\ rurl = NoUrl /\ rhops = 0 /\ left = 0
    /\ pins     = [h \in Hosts |-> {}]
    /\ pool     = [s \in Sites |-> {}]
    /\ looked   = [h \in Hosts |-> {}]
    /\ requests = 0
    /\ robots = [f \in Fetchers |-> [s \in Sites |-> Unknown]]
    /\ said   = [f \in Fetchers |-> [s \in Sites |-> Unknown]]
    /\ hung = 0
    /\ astray = FALSE
-----------------------------------------------------------------------------
(* A fetch begins and ends.                                                *)

(* _within: a client and pins of its own, and one deadline for all of it.  *)
Begin(u, deadline) ==
    /\ place' = "checking"
    /\ url' = u /\ hops' = 0 /\ rurl' = NoUrl /\ rhops' = 0
    /\ left' = deadline
    /\ requests' = 0
    /\ UNCHANGED netVars

(* Its client, with the connections it kept, and its pins are gone. *)
Over ==
    /\ place' = "idle"
    /\ url' = NoUrl /\ hops' = 0 /\ rurl' = NoUrl /\ rhops' = 0
    /\ left' = 0
    /\ pins'     = [h \in Hosts |-> {}]
    /\ pool'     = [s \in Sites |-> {}]
    /\ looked'   = [h \in Hosts |-> {}]
    /\ requests' = 0

\* Mutated form of Fails: one page that cannot be read stops the others.
Fails_Stops ==
    /\ Over
    /\ job'  = IF job = "site" THEN "candidates" ELSE job
    /\ todo' = IF job \in {"pages", "crawl"} THEN {} ELSE todo
    /\ UNCHANGED feedLeft

(* Refused or another exception, which the loops of extract, find_feed and *)
(* the Scout catch: they go on to the next address.                        *)
Fails ==
    /\ Over
    /\ job' = IF job = "site" THEN "candidates" ELSE job
    /\ UNCHANGED <<todo, feedLeft>>
-----------------------------------------------------------------------------
(* What the fetches are for.                                               *)

(* WebExtractor.extract. *)
Extract(pages) ==
    /\ job = "none"
    /\ pages # {}
    /\ job' = "pages" /\ todo' = pages
    /\ UNCHANGED <<feedLeft, fetchVars, robots, hung, said, astray>>

(* The Scout's _crawl: each of the feeds of a domain, skipping what fails. *)
Crawl(feeds) ==
    /\ job = "none"
    /\ feeds # {}
    /\ job' = "crawl" /\ todo' = feeds
    /\ UNCHANGED <<feedLeft, fetchVars, robots, hung, said, astray>>

(* find_feed: first the page of the site, with the deadline of a page.     *)
FindFeed(u) ==
    /\ job = "none"
    /\ job' = "site" /\ todo' = FeedPaths[u]
    /\ feedLeft' = FeedDeadline
    /\ Begin(u, PageDeadline)
    /\ UNCHANGED <<robots, hung, said, astray>>

(* The deadline of the next fetch: candidates share what is left of one.   *)
DeadlineOf ==
    CASE job = "pages"      -> PageDeadline
      [] job = "crawl"      -> FeedDeadline
      [] job = "candidates" -> feedLeft

TakeNext(u) ==
    /\ place = "idle" /\ u \in todo
    /\ job = "candidates" => feedLeft > 0
    /\ todo' = todo \ {u}
    /\ Begin(u, DeadlineOf)
    /\ UNCHANGED <<job, feedLeft, robots, hung, said, astray>>

(* No address is left, or no time for the candidates that are. *)
Finish ==
    /\ place = "idle" /\ job # "none"
    /\ todo = {} \/ (job = "candidates" /\ feedLeft <= 0)
    /\ job' = "none" /\ todo' = {} /\ feedLeft' = 0
    /\ UNCHANGED <<fetchVars, robots, hung, said, astray>>
-----------------------------------------------------------------------------
(* The steps of a fetch.                                                   *)

(* _check: the name resolves, and to nothing but public addresses.         *)
Approved(found) == found # {} /\ found \subseteq Public

(* The lookup of a host has an answer: a thread of _LOOKUPS was free.      *)
Resolves(h, found) ==
    /\ hung < Threads
    /\ looked' = [looked EXCEPT ![h] = found]
    /\ pins'   = [pins EXCEPT ![h] = IF Approved(found) THEN found ELSE @]
    /\ UNCHANGED pool

\* Mutated form of Permitted: only the address the fetch began with is held
\* against the rules.
Permitted_FirstOnly(rules) == hops = 0 => url \notin rules
Permitted(rules)           == url \notin rules

(* _fetch, before its request: _check, then _allowed. With known rules the *)
(* page is asked for or refused at once, else they are loaded first.       *)
CheckPage(found) ==
    LET rules == robots[Fetcher][Site[url]] IN
    /\ place = "checking" /\ url \notin NotWeb
    /\ Resolves(Host[url], found)
    /\ Approved(found)
    /\ \/ rules = Unknown
          /\ place' = "checking robots"
          /\ rurl' = Robots[Site[url]]
       \/ rules # Unknown /\ Permitted(rules)
          /\ place' = "asking"
          /\ UNCHANGED rurl
    /\ UNCHANGED <<jobVars, url, hops, rhops, left, requests, robots, hung, said, astray>>

(* _check refuses the address, or known rules disallow it.                 *)
RefusePage(found) ==
    LET rules == robots[Fetcher][Site[url]] IN
    /\ place = "checking"
    /\ \/ url \in NotWeb
       \/ hung < Threads /\ ~Approved(found)
       \/ hung < Threads /\ rules # Unknown /\ ~Permitted(rules)
    /\ Fails
    /\ UNCHANGED <<robots, hung, said, astray>>

(* UNREACHABLE: nothing is remembered and the page is refused.             *)
RobotsUnreachable ==
    /\ Fails
    /\ UNCHANGED <<robots, hung, said, astray>>

(* _load_robots checks each hop like any other address.                    *)
CheckRobots(found) ==
    /\ place = "checking robots" /\ rurl \notin NotWeb
    /\ Resolves(Host[rurl], found)
    /\ Approved(found)
    /\ place' = "asking robots"
    /\ UNCHANGED <<jobVars, url, hops, rurl, rhops, left, requests, robots, hung,
                   said, astray>>

RefuseRobots(found) ==
    /\ place = "checking robots"
    /\ \/ rurl \in NotWeb
       \/ hung < Threads /\ ~Approved(found)
    /\ RobotsUnreachable

\* Mutated form of MayConnect: the name is looked up once more.
MayConnect_Again(h) == Addresses
MayConnect(h)       == pins[h]

(* A request to u goes over a connection that is still open to its site,   *)
(* or over a new one (PinnedBackend.connect_tcp): to an address pinned for  *)
(* the host, the first that answers.                                       *)
Strays(u, address) == address \notin pool[Site[u]] \cup (looked[Host[u]] \cap Public)

Connect(u, address) ==
    /\ address \in pool[Site[u]] \cup MayConnect(Host[u])
    /\ astray' = (astray \/ Strays(u, address))

(* The connection may be used again by the requests that follow. *)
KeepOpen(u, address) ==
    /\ pool' = [pool EXCEPT ![Site[u]] = @ \cup {address}]
    /\ requests' = requests + 1
    /\ UNCHANGED <<pins, looked>>

(* robots.txt is redirected. *)
RobotsRedirected(address, to) ==
    /\ place = "asking robots"
    /\ Connect(rurl, address) /\ KeepOpen(rurl, address)
    /\ rhops < MaxRobotsRedirects
    /\ place' = "checking robots"
    /\ rurl' = to /\ rhops' = rhops + 1
    /\ UNCHANGED <<jobVars, url, hops, left, robots, hung, said>>

(* Once too often, a server error, an error of the connection (which may   *)
(* come before any request was answered).                                  *)
RobotsFail ==
    /\ place = "asking robots"
    /\ RobotsUnreachable

(* The rules, none for a 4xx: remembered, whatever address they came from, *)
(* as those of the site that was asked first, by the fetcher that asked.   *)
Learn(address, rules) ==
    /\ place = "asking robots"
    /\ Connect(rurl, address)
    /\ robots' = [robots EXCEPT ![Fetcher][Site[url]] = rules]
    /\ said'   = [said EXCEPT ![Fetcher][Site[url]] = rules]
    /\ UNCHANGED hung

RobotsAllow(address, rules) ==
    /\ Learn(address, rules)
    /\ Permitted(rules)
    /\ KeepOpen(rurl, address)
    /\ place' = "asking" /\ rurl' = NoUrl /\ rhops' = 0
    /\ UNCHANGED <<jobVars, url, hops, left>>

RobotsDisallow(address, rules) ==
    /\ Learn(address, rules)
    /\ ~Permitted(rules)
    /\ Fails

(* The page is redirected: the next address is checked from the start.     *)
PageRedirected(address, to) ==
    /\ place = "asking"
    /\ Connect(url, address) /\ KeepOpen(url, address)
    /\ hops < MaxRedirects
    /\ place' = "checking"
    /\ url' = to /\ hops' = hops + 1
    /\ UNCHANGED <<jobVars, rurl, rhops, left, robots, hung, said>>

(* Once too often, an error, another content type, a body too large or     *)
(* that nothing can be read from (_read, parse_feed).                      *)
PageFails ==
    /\ place = "asking"
    /\ Fails
    /\ UNCHANGED <<robots, hung, said, astray>>

(* The body is there: the fetch is over.                                   *)
Answered(address) ==
    /\ place = "asking"
    /\ Connect(url, address)
    /\ Over
    /\ UNCHANGED <<robots, hung, said>>

(* _read, a page; FeedReader.crawl, a feed: on to the next.                *)
PageRead(address) ==
    /\ job \in {"pages", "crawl"}
    /\ Answered(address)
    /\ UNCHANGED jobVars

(* find_feed: the feeds that the site's page announces become candidates.  *)
FeedsAnnounced(address, announced) ==
    /\ job = "site"
    /\ Cardinality(announced) <= MaxAnnounced
    /\ Answered(address)
    /\ job' = "candidates" /\ todo' = todo \cup announced
    /\ UNCHANGED feedLeft

(* A candidate parses, with enough items: it is the feed.                  *)
FeedFound(address) ==
    /\ job = "candidates"
    /\ Answered(address)
    /\ job' = "none" /\ todo' = {} /\ feedLeft' = 0

(* asyncio.timeout cancels wherever the fetch waits. A lookup it waited    *)
(* for keeps its thread, and a queued one is withdrawn.                    *)
TimeOut ==
    /\ place # "idle" /\ left = 0
    /\ Fails
    /\ hung' = IF place \in {"checking", "checking robots"} /\ hung < Threads
               THEN hung + 1 ELSE hung
    /\ UNCHANGED <<robots, said, astray>>

(* A lookup nobody waits for any more returns.                             *)
LookupReturns ==
    /\ hung > 0
    /\ hung' = hung - 1
    /\ UNCHANGED <<jobVars, fetchVars, robots, said, astray>>

(* Time passes while a fetch waits; the rest takes none. *)
Tick ==
    /\ place # "idle" /\ left > 0
    /\ left' = left - 1
    /\ feedLeft' = IF job \in {"site", "candidates"} THEN feedLeft - 1 ELSE feedLeft
    /\ UNCHANGED <<job, todo, place, url, hops, rurl, rhops, netVars, requests,
                   robots, hung, said, astray>>

Asked ==
    \/ \E urls \in SUBSET Urls : Extract(urls) \/ Crawl(urls)
    \/ \E u \in Urls : FindFeed(u)

RobotsStep ==
    \/ \E found \in SUBSET Addresses : CheckRobots(found) \/ RefuseRobots(found)
    \/ \E address \in Addresses, to \in Urls : RobotsRedirected(address, to)
    \/ \E address \in Addresses, rules \in Rules[Site[url]] :
          RobotsAllow(address, rules) \/ RobotsDisallow(address, rules)
    \/ RobotsFail

PageStep ==
    \/ \E found \in SUBSET Addresses : CheckPage(found) \/ RefusePage(found)
    \/ \E address \in Addresses, to \in Urls : PageRedirected(address, to)
    \/ \E address \in Addresses :
          \/ PageRead(address) \/ FeedFound(address)
          \/ \E announced \in SUBSET Urls : FeedsAnnounced(address, announced)
    \/ PageFails

Next ==
    \/ Asked
    \/ \E u \in Urls : TakeNext(u)
    \/ place # "idle" /\ (RobotsStep \/ PageStep)
    \/ TimeOut \/ Tick \/ LookupReturns
    \/ Finish

Spec == Init /\ [][Next]_vars

(* Time passes and asyncio's timeout fires; the loops of extract and       *)
(* find_feed go on. No answer from outside is ever sure to come.           *)
Fairness ==
    /\ WF_vars(Tick) /\ WF_vars(TimeOut)
    /\ WF_vars(\E u \in Urls : TakeNext(u)) /\ WF_vars(Finish)

FairSpec == Spec /\ Fairness
-----------------------------------------------------------------------------
(* Properties.                                                             *)

(* Every connection, for any hop of a page or of a robots.txt, was opened  *)
(* to an address that the host resolved to when it was last looked up in   *)
(* the same fetch, and to a public one (PinnedBackend); none outlives it.  *)
NeverAstray == ~astray

(* Wherever redirects lead, a fetcher asks for a page only if the site it  *)
(* is on has answered that fetcher's request for its robots.txt, and if    *)
(* what it last answered it with allows the page: no failure, refusal or   *)
(* deadline, of this fetch or of an earlier one, passes for an answer      *)
(* (fetching.py, module docstring). Of what the site has told the other    *)
(* fetcher since it knows nothing.                                         *)
RobotsObeyed ==
    LET rules == said[Fetcher][Site[url]] IN
    place = "asking" => rules # Unknown /\ url \notin rules

(* Redirects of pages and of robots.txt are both counted: a fetch makes    *)
(* a bounded number of requests whatever the servers answer.               *)
BoundedRequests ==
    requests <= (MaxRedirects + 1) * (MaxRobotsRedirects + 2)

(* One unreadable page or broken feed never stops the others: each that    *)
(* extract or the Scout was given is tried, though servers and lookups may *)
(* never answer.                                                           *)
Trying(u) == place = "checking" /\ hops = 0 /\ url = u

EachPageTried ==
    \A u \in Urls : (job \in {"pages", "crawl"} /\ u \in todo) ~> Trying(u)
=============================================================================
