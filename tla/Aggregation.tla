----------------------------- MODULE Aggregation -----------------------------
(***************************************************************************)
(* How the value of one counter of one job travels up the tree of proxies. *)
(* The clients of a proxy accumulate into the job's exporter; its parent   *)
(* scrapes the job's profile, takes the difference with the profile it saw *)
(* last (the shadow state of scrape_proxy in src/src/scrapper.rs) and      *)
(* merges it into its own exporter of the job (src/src/exporter.rs,        *)
(* src/src/proxywireprotocol.rs).                                          *)
(*                                                                         *)
(* A scrape is one step: the child's profile is fixed when it answers, and *)
(* the value of the parent is only added to by its own clients meanwhile.  *)
(***************************************************************************)
EXTENDS Integers, FiniteSets, Functions

CONSTANTS
  Root,        \* the aggregating proxy at the top
  Others,      \* the proxies below it
  Parent,      \* the parent of each of them, the only proxy to scrape it
  Unknown,     \* the job is not in a scraper's shadow state
  Absent,      \* the counter is not in a job's exporter, or there is no exporter
  MaxClients,  \* bound on the number of client connections
  MaxIncrements,  \* bound on the number of increments
  MaxFaults    \* bound on the number of crashes and dropped or replaced scrapers

Nodes == Others \cup {Root}

ASSUME TreeAssumption ==
  /\ Root \notin Others /\ IsFiniteSet(Others)
  /\ Parent \in [Others -> Nodes]
ASSUME ValuesAssumption == Unknown \notin Int /\ Absent \notin Int
ASSUME BoundsAssumption ==
  /\ MaxClients \in Nat /\ MaxIncrements \in Nat /\ MaxFaults \in Nat

VARIABLES
  clients,   \* local clients of the job at a proxy
  counter,   \* references to the job's entry, 0 when there is none
  value,     \* the counter in the job's exporter
  scraped,   \* the proxies that their parent has a scraper for
  shadow,    \* what the parent's scraper of a proxy saw last; 0: not listed
  saved,     \* the counter in the profile the root stored last
  own,       \* history: what the local clients added to the exporter
  past,      \* history: what scrapers that ended or were dropped had seen
  first,     \* history: values that were the first of their name
  total,     \* history: increments so far
  joined,    \* number of client connections so far
  faults,    \* number of faults so far
  calm       \* history: no fault, and no job that ended and came back unseen

vars == <<clients, counter, value, shadow, saved, own, past, first, total, joined, faults, calm,
          scraped>>

(***************************************************************************)
(* The type invariant.  Values and shadow values are never negative, also  *)
(* after a job that restarted with less than it had (substract, merge):    *)
(* what a scrape takes off was merged before.                              *)
(***************************************************************************)
TypeOK ==
  /\ clients \in [Nodes -> 0 .. MaxClients]
  /\ counter \in [Nodes -> Nat]
  /\ value \in [Nodes -> Nat \cup {Absent}]
  /\ shadow \in [Others -> Nat \cup {Unknown}]
  /\ saved \in Nat \cup {Absent}
  /\ own \in [Nodes -> Nat] /\ past \in [Nodes -> Nat] /\ first \in [Nodes -> Nat]
  /\ total \in 0 .. MaxIncrements /\ joined \in 0 .. MaxClients
  /\ faults \in 0 .. MaxFaults /\ calm \in BOOLEAN
  /\ scraped \subseteq Others

Init ==
  /\ clients = [n \in Nodes |-> 0]
  /\ counter = [n \in Nodes |-> 0]
  /\ value = [n \in Nodes |-> Absent]
  /\ shadow = [n \in Others |-> Unknown]
  /\ saved = Absent
  /\ own = [n \in Nodes |-> 0] /\ past = [n \in Nodes |-> 0] /\ first = [n \in Nodes |-> 0]
  /\ total = 0 /\ joined = 0 /\ faults = 0
  /\ calm = TRUE
  /\ scraped = Others

Children(n) == {c \in Others : Parent[c] = n}

\* History: a job that has ended at n has been noticed before it comes back.
NoticedAt(n) == n = Root \/ counter[n] > 0 \/ shadow[n] = Unknown

-----------------------------------------------------------------------------
\* The entry of the job loses one reference; with the last one the exporter is
\* dropped, and stored before by the aggregator (relax_job).
Relax(n) ==
  LET last == counter[n] = 1 IN
  /\ counter' = [counter EXCEPT ![n] = @ - 1]
  /\ value' = IF last THEN [value EXCEPT ![n] = Absent] ELSE value
  /\ saved' = IF last /\ n = Root THEN value[n] ELSE saved
  /\ own' = IF last THEN [own EXCEPT ![n] = 0] ELSE own
  /\ first' = IF last THEN [first EXCEPT ![n] = 0] ELSE first

\* A client of the job connects (resolve_job).
Attach(n) ==
  /\ joined < MaxClients
  /\ joined' = joined + 1
  /\ clients' = [clients EXCEPT ![n] = @ + 1]
  /\ counter' = [counter EXCEPT ![n] = @ + 1]
  /\ calm' = (calm /\ NoticedAt(n))
  /\ UNCHANGED <<value, shadow, saved, own, past, first, total, faults, scraped>>

\* It describes the counter: push, which leaves one that exists alone.
Describe(n) ==
  /\ clients[n] > 0 /\ value[n] = Absent
  /\ value' = [value EXCEPT ![n] = 0]
  /\ UNCHANGED <<clients, counter, shadow, saved, own, past, first, total, joined, faults, calm, scraped>>

\* It sends a value: accumulate, which adds to a described counter.
Increment(n) ==
  /\ clients[n] > 0 /\ value[n] # Absent /\ total < MaxIncrements
  /\ value' = [value EXCEPT ![n] = @ + 1]
  /\ own' = [own EXCEPT ![n] = @ + 1]
  /\ total' = total + 1
  /\ UNCHANGED <<clients, counter, shadow, saved, past, first, joined, faults, calm, scraped>>

Detach(n) ==
  /\ clients[n] > 0
  /\ clients' = [clients EXCEPT ![n] = @ - 1]
  /\ Relax(n)
  /\ past' = IF counter[n] = 1 THEN [past EXCEPT ![n] = 0] ELSE past
  /\ UNCHANGED <<shadow, total, joined, faults, calm, scraped>>

-----------------------------------------------------------------------------
\* What the profile of the job says of the counter: one without data (0) is
\* left out.  0 stands for a counter that is not listed.
Listed(n) == IF value[n] = Absent THEN 0 ELSE value[n]

\* Mutant: the difference the other way round.
SubstractSwapped(current, previous) ==
  IF current = 0 THEN previous ELSE previous - current

\* Mutant: the previous profile is not taken off.
SubstractNothing(current, previous) == current

\* JobProfile::substract for one counter.  One that only the previous profile
\* lists is taken over from it.
Substract(current, previous) ==
  IF current = 0 THEN previous ELSE current - previous

\* push, then accumulate: a counter that is new to the exporter is entered with
\* its value before the same value is merged into it.
PushAndMerge(n, v) ==
  IF value[n] = Absent THEN v + v ELSE value[n] + v

\* The first scrape that finds the job: resolve_job, then the whole value.
ScrapeNew(n) ==
  LET p == Parent[n] v == Listed(n) IN
  /\ n \in scraped /\ counter[n] > 0 /\ shadow[n] = Unknown
  /\ counter' = [counter EXCEPT ![p] = @ + 1]
  /\ value' = IF v = 0 THEN value ELSE [value EXCEPT ![p] = PushAndMerge(p, v)]
  /\ first' = IF v # 0 /\ value[p] = Absent THEN [first EXCEPT ![p] = @ + v] ELSE first
  /\ shadow' = [shadow EXCEPT ![n] = v]
  /\ calm' = (calm /\ NoticedAt(p))
  /\ UNCHANGED <<clients, saved, own, past, total, joined, faults, scraped>>

\* A later one: the difference with the previous profile.
ScrapeAgain(n) ==
  LET p == Parent[n] v == Listed(n) s == shadow[n] d == Substract(v, s) IN
  /\ n \in scraped /\ counter[n] > 0 /\ s # Unknown
  /\ v # 0 \/ s # 0
  /\ value' = [value EXCEPT ![p] = PushAndMerge(p, d)]
  /\ first' = IF value[p] = Absent THEN [first EXCEPT ![p] = @ + d] ELSE first
  /\ shadow' = [shadow EXCEPT ![n] = v]
  /\ UNCHANGED <<clients, counter, saved, own, past, total, joined, faults, calm, scraped>>

\* Mutant: the job stays in the shadow state.
ScrapeGoneKeepsShadow(n) ==
  LET p == Parent[n] IN
  /\ n \in scraped /\ counter[n] = 0 /\ shadow[n] # Unknown
  /\ Relax(p)
  /\ past' = [past EXCEPT ![p] = IF counter[p] = 1 THEN 0 ELSE @ + shadow[n]]
  /\ UNCHANGED <<clients, shadow, total, joined, faults, calm, scraped>>

\* Mutant: only a job that listed the counter is noticed when it leaves.
ScrapeGoneIfListed(n) ==
  LET p == Parent[n] IN
  /\ n \in scraped /\ counter[n] = 0 /\ shadow[n] \notin {Unknown, 0}
  /\ Relax(p)
  /\ past' = [past EXCEPT ![p] = IF counter[p] = 1 THEN 0 ELSE @ + shadow[n]]
  /\ shadow' = [shadow EXCEPT ![n] = Unknown]
  /\ UNCHANGED <<clients, total, joined, faults, calm, scraped>>

\* The job has left the child: relax_job, and the shadow state forgets it.
ScrapeGone(n) ==
  LET p == Parent[n] IN
  /\ n \in scraped /\ counter[n] = 0 /\ shadow[n] # Unknown
  /\ Relax(p)
  /\ past' = [past EXCEPT ![p] = IF counter[p] = 1 THEN 0 ELSE @ + shadow[n]]
  /\ shadow' = [shadow EXCEPT ![n] = Unknown]
  /\ UNCHANGED <<clients, total, joined, faults, calm, scraped>>

-----------------------------------------------------------------------------
SeenOf(c) == IF shadow[c] = Unknown THEN 0 ELSE shadow[c]

\* A scraper is dropped (a scrape that failed, /disconnect) or replaced by a new
\* one (/join again): its shadow state is gone, its reference is not given back.
DropScraper(n) ==
  /\ n \in scraped /\ faults < MaxFaults
  /\ faults' = faults + 1
  /\ past' = [past EXCEPT ![Parent[n]] = @ + SeenOf(n)]
  /\ shadow' = [shadow EXCEPT ![n] = Unknown]
  /\ scraped' \in {scraped, scraped \ {n}}
  /\ calm' = FALSE
  /\ UNCHANGED <<clients, counter, value, saved, own, first, total, joined>>

\* A proxy that is not scraped joins its parent again (it was started again, or
\* a repair told the parent to).
JoinAgain(n) ==
  /\ n \notin scraped
  /\ scraped' = scraped \cup {n}
  /\ UNCHANGED <<clients, counter, value, shadow, saved, own, past, first, total, joined, faults,
                 calm>>

\* A proxy stops and is started again before its parent notices.  Its table of
\* scrapers is empty, and the proxies it scraped are told nothing.
CrashRestart(n) ==
  /\ n # Root /\ faults < MaxFaults
  /\ faults' = faults + 1
  /\ clients' = [clients EXCEPT ![n] = 0]
  /\ counter' = [counter EXCEPT ![n] = 0]
  /\ value' = [value EXCEPT ![n] = Absent]
  /\ shadow' = [c \in Others |-> IF Parent[c] = n THEN Unknown ELSE shadow[c]]
  /\ scraped' = scraped \ Children(n)
  /\ own' = [own EXCEPT ![n] = 0]
  /\ past' = [past EXCEPT ![n] = 0]
  /\ first' = [first EXCEPT ![n] = 0]
  /\ calm' = FALSE
  /\ UNCHANGED <<saved, total, joined>>

Scrape(n) == ScrapeNew(n) \/ ScrapeAgain(n) \/ ScrapeGone(n)

Next ==
  \/ \E n \in Nodes : Attach(n) \/ Describe(n) \/ Increment(n) \/ Detach(n)
  \/ \E n \in Others : Scrape(n) \/ DropScraper(n) \/ JoinAgain(n) \/ CrashRestart(n)

Spec == Init /\ [][Next]_vars

(***************************************************************************)
(* Fairness: the scraping thread of a proxy goes over its scrapers for     *)
(* ever (run_scrapping), each of them being due once per period.           *)
(***************************************************************************)
Fairness == \A n \in Others : WF_vars(Scrape(n))

FairSpec == Spec /\ Fairness

-----------------------------------------------------------------------------
Seen(n) == SumFunctionOnSet([c \in Others |-> SeenOf(c)], Children(n))

(***************************************************************************)
(* Nothing a proxy has seen is missing from its value: the exporter of a   *)
(* job holds at least what its own clients added and what every scraper in *)
(* place has read, across jobs that end and come back between two scrapes, *)
(* crashed children and replaced scrapers (scrape_proxy, substract, merge).*)
(***************************************************************************)
SeenIsCounted ==
  \A n \in Nodes : Listed(n) >= own[n] + Seen(n)

(***************************************************************************)
(* Without faults, and as long as no job comes back before its end was     *)
(* noticed, the value is exact but for one thing: each name's first value  *)
(* from a child counts twice (push, then accumulate, in scrape_proxy).     *)
(***************************************************************************)
ExactWhileCalm ==
  calm => \A n \in Nodes : Listed(n) = own[n] + Seen(n) + past[n] + first[n]

(***************************************************************************)
(* The inductive invariant of the properties above: an entry has at least  *)
(* as many references as clients and scrapers that know the job, so that   *)
(* it is there as long as somebody has seen a value of it; an entry        *)
(* without references has nothing; and while all is calm a value never     *)
(* falls below what the parent has seen of it.                             *)
(***************************************************************************)
Watched(n) == {c \in Children(n) : shadow[c] # Unknown}

ReferencesCover ==
  \A n \in Nodes :
    clients[n] <= joined /\ clients[n] + Cardinality(Watched(n)) <= counter[n]

UnusedIsEmpty ==
  \A n \in Nodes :
    counter[n] = 0 => value[n] = Absent /\ own[n] = 0 /\ past[n] = 0 /\ first[n] = 0

CalmGrows ==
  calm => \A n \in Others :
            counter[n] > 0 /\ shadow[n] # Unknown => shadow[n] <= Listed(n)

IndInv ==
  /\ TypeOK /\ ReferencesCover /\ UnusedIsEmpty
  /\ SeenIsCounted /\ ExactWhileCalm /\ CalmGrows

\* The parent's shadow state agrees with the child.
Synced(n) == shadow[n] = IF counter[n] = 0 THEN Unknown ELSE Listed(n)

(***************************************************************************)
(* Once the clients are quiet every scraper in place catches up with its   *)
(* child, ends of jobs included, whatever crashed, was dropped, replaced   *)
(* or joined again before (run_scrapping, scrape_proxy).  A proxy whose    *)
(* parent was restarted and that has not joined again is not caught up     *)
(* with: nobody scrapes it.                                                *)
(***************************************************************************)
Propagates == <>[](\A n \in scraped : Synced(n))
==============================================================================
