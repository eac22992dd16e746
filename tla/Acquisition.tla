----------------------------- MODULE Acquisition -----------------------------
(***************************************************************************)
(* The acquisition layer (src/collegium/acquisition/__init__.py) as the    *)
(* jobs of several workers use it: free search and reading first, the paid *)
(* provider (Tavily) where these find nothing, the daily budget for paid   *)
(* calls, and what the call log says was paid for before (worker.py and    *)
(* memory.py).                                                             *)
(*                                                                         *)
(* A worker runs one job at a time, with an Acquisition of its own         *)
(* (for_run). A paid call is two actions: it is sent after reading the     *)
(* budget, and recorded, in a transaction of its own, once it is answered. *)
(* Between the two other workers read the budget and the log, and the      *)
(* process may die.                                                        *)
(*                                                                         *)
(* A lead is the page it points to. Free calls are in the log too, but no  *)
(* query reads them; they are left out. Time is the age of a logged call,  *)
(* as far as the windows of the queries tell ages apart.                   *)
(***************************************************************************)
EXTENDS Integers, FiniteSets

CONSTANTS
    Workers,       \* worker processes
    Calls,         \* slots for paid calls: a bound on those of the last 30 days
    NoCall,        \* what a worker has when no call of its is out
    Pages,         \* pages that leads point to
    Site,          \* [Pages -> sites], reliability.site
    Blocked,       \* pages never read (is_blocked)
    WorthPaying,   \* pages worth a paid read (worth_paying)
    Budget,        \* settings.daily_call_budget
    MinToStart,    \* MIN_BUDGET_TO_START
    MaxPaidPerRun, \* MAX_PAID_PER_RUN
    ClosedAfter    \* CLOSED_AFTER

ASSUME AcquisitionAssumption ==
    /\ IsFiniteSet(Workers) /\ Workers # {}
    /\ IsFiniteSet(Calls)
    /\ NoCall \notin Calls
    /\ IsFiniteSet(Pages)
    /\ Blocked \subseteq Pages
    /\ WorthPaying \subseteq Pages \ Blocked
    /\ Budget \in Nat
    /\ MinToStart \in Nat
    /\ MaxPaidPerRun \in Nat
    /\ ClosedAfter \in Nat \ {0}

VARIABLES
    paidFirst, \* is the default search the paid one? (COLLEGIUM_SEARCH_PROVIDER)
    \* the acquisitions table: paid calls only
    state,     \* "free": no call of the last 30 days; else what became of it
    asked,     \* the pages it was to read, {} for a search
    age,       \* "day", "week" or "month": the smallest window it is in
    \* the workers
    pc,        \* where each is
    named,     \* with the free search as default: does the job's domain name
               \* the paid one as its only source?
    paidCalls, \* _paid_calls, which is only read with free routes first
    pages,     \* the keys of _pages: read, or found unreadable
    todo,      \* extract: the pages not in _pages
    rest,      \* extract: those among them left to pay for
    enriching, \* is it _enrich that reads?
    current    \* the paid call that is out

log     == <<state, asked, age>>
run     == <<named, paidCalls, pages, todo, rest, enriching, current>>
vars    == <<paidFirst, log, pc, run>>

(* "unread": free reading is over and rest not yet paid for; "stopped": the *)
(* budget ended the job's run, which is still to be put back.              *)
Places == {"idle", "working", "searching", "unread", "paying", "stopped"}

(* "out": sent. A call that failed is recorded with its error, which no     *)
(* query counts, and one answered but not recorded is not in the log: in    *)
(* both cases the slot is free again.                                       *)
Outcomes == {"found", "nothing"}
States   == {"free", "out"} \cup Outcomes
Ages     == {"day", "week", "month"}

(* Type invariant; a run never makes more paid calls than its limit.       *)
TypeOK ==
    /\ paidFirst \in BOOLEAN
    /\ state     \in [Calls -> States]
    /\ asked     \in [Calls -> SUBSET Pages]
    /\ age       \in [Calls -> Ages]
    /\ pc        \in [Workers -> Places]
    /\ named     \in [Workers -> BOOLEAN]
    /\ paidCalls \in [Workers -> 0..MaxPaidPerRun]
    /\ pages     \in [Workers -> SUBSET Pages]
    /\ todo      \in [Workers -> SUBSET Pages]
    /\ rest      \in [Workers -> SUBSET WorthPaying]
    /\ enriching \in [Workers -> BOOLEAN]
    /\ current   \in [Workers -> Calls \cup {NoCall}]

Init ==
    /\ paidFirst \in BOOLEAN
    /\ state     = [c \in Calls |-> "free"]
    /\ asked     = [c \in Calls |-> {}]
    /\ age       = [c \in Calls |-> "day"]
    /\ pc        = [w \in Workers |-> "idle"]
    /\ named     = [w \in Workers |-> FALSE]
    /\ paidCalls = [w \in Workers |-> 0]
    /\ pages     = [w \in Workers |-> {}]
    /\ todo      = [w \in Workers |-> {}]
    /\ rest      = [w \in Workers |-> {}]
    /\ enriching = [w \in Workers |-> FALSE]
    /\ current   = [w \in Workers |-> NoCall]
-----------------------------------------------------------------------------
(* What the log says.                                                      *)

\* Mutated form of Used: only calls that found something are counted.
Used_Found == {c \in Calls : state[c] = "found" /\ age[c] = "day"}

(* paid_calls_in_window: recorded in the last 24 hours, without an error.  *)
Used == {c \in Calls : state[c] \in Outcomes /\ age[c] = "day"}

\* Mutated form of PaidBefore: the window of the budget.
PaidBefore_Today == UNION {asked[c] : c \in Used}

(* paid_reads: pages sent to the paid reader in the last 7 days, ...       *)
PaidBefore ==
    UNION {asked[c] : c \in {d \in Calls : state[d] \in Outcomes /\ age[d] # "month"}}

(* ... and every miss of the last 30: a page of a call that found nothing. *)
Misses(s) ==
    {m \in Calls \X Pages :
        state[m[1]] = "nothing" /\ m[2] \in asked[m[1]] /\ Site[m[2]] = s}

\* Mutated form of ClosedSites: one miss more.
ClosedSites_Late == {s \in {Site[p] : p \in Pages} : Cardinality(Misses(s)) > ClosedAfter}

(* _paid_history: the sites where paying found nothing often enough.       *)
ClosedSites == {s \in {Site[p] : p \in Pages} : Cardinality(Misses(s)) >= ClosedAfter}

(* _call's two limits: the day's, and with free routes first the run's.    *)
MayPay(w) ==
    /\ Cardinality(Used) < Budget
    /\ paidFirst \/ paidCalls[w] < MaxPaidPerRun
-----------------------------------------------------------------------------
(* A paid call.                                                            *)

(* _call, up to sending: counted for the run before it is made.            *)
Send(w, what, place) ==
    \E c \in Calls :
        /\ state[c] = "free"
        /\ state'     = [state EXCEPT ![c] = "out"]
        /\ asked'     = [asked EXCEPT ![c] = what]
        /\ age'       = [age EXCEPT ![c] = "day"]
        /\ current'   = [current EXCEPT ![w] = c]
        /\ paidCalls' = [paidCalls EXCEPT ![w] = IF paidFirst THEN @ ELSE @ + 1]
        /\ pc'        = [pc EXCEPT ![w] = place]

(* The call is over; if it failed, nothing of it stays.                    *)
Settle(w, as) ==
    /\ state'   = [state EXCEPT ![current[w]] = as]
    /\ asked'   = [asked EXCEPT ![current[w]] = IF as = "free" THEN {} ELSE @]
    /\ current' = [current EXCEPT ![w] = NoCall]
    /\ UNCHANGED age

(* BudgetExhausted ends the run only where nothing free can stand in.      *)
Stops == paidFirst
-----------------------------------------------------------------------------
(* A job's run.                                                            *)

(* _run_claimed_job: with the paid route first, a job that searches is put *)
(* back unless enough of the budget is left.                               *)
StartRun(w, onlyPaid) ==
    /\ pc[w] = "idle"
    /\ paidFirst => /\ Budget - Cardinality(Used) >= MinToStart
                    /\ ~onlyPaid
    /\ pc'    = [pc EXCEPT ![w] = "working"]
    /\ named' = [named EXCEPT ![w] = onlyPaid]
    /\ UNCHANGED <<paidFirst, log, paidCalls, pages, todo, rest, enriching, current>>

(* The run is over, with what it kept: for_run starts the next one afresh. *)
Leave(w) ==
    /\ pc'        = [pc EXCEPT ![w] = "idle"]
    /\ named'     = [named EXCEPT ![w] = FALSE]
    /\ paidCalls' = [paidCalls EXCEPT ![w] = 0]
    /\ pages'     = [pages EXCEPT ![w] = {}]
    /\ todo'      = [todo EXCEPT ![w] = {}]
    /\ rest'      = [rest EXCEPT ![w] = {}]
    /\ enriching' = [enriching EXCEPT ![w] = FALSE]

(* It persisted what it found, or an exception failed it, or the free      *)
(* search is unavailable, or the budget stopped it, or the process dies.   *)
EndRun(w) ==
    /\ pc[w] \in {"working", "unread", "stopped"}
    /\ Leave(w)
    /\ UNCHANGED <<paidFirst, log, current>>

(* An error of the call, the failure to record it, or the end of the       *)
(* process while it is out.                                                *)
EndRunCalling(w) ==
    /\ pc[w] \in {"searching", "paying"}
    /\ Settle(w, "free")
    /\ Leave(w)
    /\ UNCHANGED paidFirst

(* discover, where it comes to the paid search: as the default, as the one *)
(* source named, or because the free default failed or found nothing.      *)
PaidSearch(w) ==
    /\ pc[w] = "working"
    /\ MayPay(w)
    /\ Send(w, {}, "searching")
    /\ UNCHANGED <<paidFirst, named, pages, todo, rest, enriching>>

(* The same with the budget spent: the second opinion is left out, unless  *)
(* there is no first one.                                                  *)
PaidSearchRefused(w) ==
    /\ pc[w] = "working"
    /\ ~MayPay(w)
    /\ Stops \/ named[w]
    /\ pc' = [pc EXCEPT ![w] = "stopped"]
    /\ UNCHANGED <<paidFirst, log, run>>

(* What a paid search finds is not told apart: it counts all the same.     *)
SearchAnswered(w) ==
    /\ pc[w] = "searching"
    /\ Settle(w, "found")
    /\ pc' = [pc EXCEPT ![w] = "working"]
    /\ UNCHANGED <<paidFirst, named, paidCalls, pages, todo, rest, enriching>>

(* The end of extract: every page tried is in _pages, read or not.         *)
EndExtract(w, tried) ==
    /\ pages'     = [pages EXCEPT ![w] = @ \cup tried]
    /\ todo'      = [todo EXCEPT ![w] = {}]
    /\ rest'      = [rest EXCEPT ![w] = {}]
    /\ enriching' = [enriching EXCEPT ![w] = FALSE]
    /\ pc'        = [pc EXCEPT ![w] = "working"]

(* extract, for gather or for _enrich: the pages not in _pages go to the   *)
(* free extractor, which reads some. Of the others those are left to pay   *)
(* for that are worth it and that the log does not speak against.          *)
Extract(w, wanted, forLeads) ==
    LET new == (wanted \ Blocked) \ pages[w] IN
    \E read \in SUBSET new :
        LET left == {p \in (new \ read) \cap WorthPaying :
                        p \notin PaidBefore /\ Site[p] \notin ClosedSites} IN
        /\ pc[w] = "working"
        /\ new # {}
        /\ \/ left = {} /\ EndExtract(w, new)
           \/ /\ left # {}
              /\ pc'        = [pc EXCEPT ![w] = "unread"]
              /\ todo'      = [todo EXCEPT ![w] = new]
              /\ rest'      = [rest EXCEPT ![w] = left]
              /\ enriching' = [enriching EXCEPT ![w] = forLeads]
              /\ UNCHANGED pages
        /\ UNCHANGED <<paidFirst, log, named, paidCalls, current>>

(* The rest goes to the paid reader, in one call ...                       *)
PaidRead(w) ==
    /\ pc[w] = "unread"
    /\ MayPay(w)
    /\ Send(w, rest[w], "paying")
    /\ UNCHANGED <<paidFirst, named, pages, todo, rest, enriching>>

(* extract raised: nothing of it is kept, and the run goes on.             *)
GoOn(w) ==
    /\ todo'      = [todo EXCEPT ![w] = {}]
    /\ rest'      = [rest EXCEPT ![w] = {}]
    /\ enriching' = [enriching EXCEPT ![w] = FALSE]
    /\ pc'        = [pc EXCEPT ![w] = "working"]
    /\ UNCHANGED pages

(* ... or stays unread, the budget being spent. Where that is an exception *)
(* it ends the run, unless it was for the leads of one of several sources  *)
(* (discover) or of a feed (the Scout's _crawl), which are then left out.  *)
PaidReadRefused(w) ==
    /\ pc[w] = "unread"
    /\ ~MayPay(w)
    /\ \/ /\ Stops
          /\ pc' = [pc EXCEPT ![w] = "stopped"]
          /\ UNCHANGED run
       \/ /\ Stops /\ enriching[w]
          /\ GoOn(w)
          /\ UNCHANGED <<named, paidCalls, current>>
       \/ /\ ~Stops
          /\ EndExtract(w, todo[w])
          /\ UNCHANGED <<named, paidCalls, current>>
    /\ UNCHANGED <<paidFirst, log>>

ReadAnswered(w, as) ==
    /\ pc[w] = "paying"
    /\ Settle(w, as)
    /\ EndExtract(w, todo[w])
    /\ UNCHANGED <<paidFirst, named, paidCalls>>

(* A call fails, or cannot be recorded, and the run goes on: after the      *)
(* default search discover asks the fallback, which may be the same one    *)
(* again; _enrich keeps the leads as they were, and extract ended before   *)
(* it remembered any page.                                                 *)
CallFails(w) ==
    /\ pc[w] = "searching" \/ (pc[w] = "paying" /\ enriching[w])
    /\ Settle(w, "free")
    /\ GoOn(w)
    /\ UNCHANGED <<paidFirst, named, paidCalls>>

(* Time: a call leaves the window of the day, of the week, of the month; a *)
(* search matters for a day only. Calls time out in a minute and do not age *)
(* while they are out.                                                     *)
Age(c) ==
    /\ state[c] \notin {"free", "out"}
    /\ \/ /\ age[c] # "month" /\ asked[c] # {}
          /\ age' = [age EXCEPT ![c] = IF @ = "day" THEN "week" ELSE "month"]
          /\ UNCHANGED <<state, asked>>
       \/ /\ age[c] = "month" \/ asked[c] = {}
          /\ state' = [state EXCEPT ![c] = "free"]
          /\ asked' = [asked EXCEPT ![c] = {}]
          /\ age'   = [age EXCEPT ![c] = "day"]
    /\ UNCHANGED <<paidFirst, pc, run>>

RunStep(w) ==
    \/ \E b \in BOOLEAN : StartRun(w, b)
    \/ EndRun(w) \/ EndRunCalling(w) \/ CallFails(w)
    \/ PaidSearch(w) \/ PaidSearchRefused(w)
    \/ SearchAnswered(w)
    \/ \E as \in Outcomes : ReadAnswered(w, as)
    \/ \E wanted \in SUBSET Pages, b \in BOOLEAN : Extract(w, wanted, b)
    \/ PaidRead(w) \/ PaidReadRefused(w)

Next ==
    \/ \E w \in Workers : RunStep(w)
    \/ \E c \in Calls : Age(c)

Spec == Init /\ [][Next]_vars
-----------------------------------------------------------------------------
(* Properties.                                                             *)

(* The budget: however many workers read it before any of them has         *)
(* recorded its call, the calls of the last 24 hours that were answered or *)
(* are out exceed it by at most one for every worker but one.              *)
BudgetHeld ==
    Cardinality({c \in Calls : state[c] # "free" /\ age[c] = "day"})
        <= Budget + Cardinality(Workers) - 1

(* No page is paid for twice in 7 days, whichever job asks, except by jobs *)
(* that run side by side: then once by each worker. What was answered but  *)
(* could not be recorded escapes this.                                     *)
PaidOnce ==
    \A p \in Pages :
        Cardinality({c \in Calls : /\ p \in asked[c] /\ age[c] # "month"
                                   /\ state[c] \in Outcomes \cup {"out"}})
            <= Cardinality(Workers)

(* A site where paying found nothing CLOSED_AFTER times in 30 days is not  *)
(* paid for again, but by jobs that asked before the last miss was logged. *)
ClosedForGood ==
    \A s \in {Site[p] : p \in Pages} :
        Cardinality({c \in Calls : state[c] = "nothing" /\ \E p \in asked[c] : Site[p] = s})
            <= ClosedAfter + Cardinality(Workers) - 1
=============================================================================
