---------------------------- MODULE ScrapeLocks ------------------------------
(***************************************************************************)
(* Who waits for whom while the tree is repaired.                          *)
(*                                                                         *)
(* The scraping thread of a proxy holds its `scrapes' mutex for a whole    *)
(* pass.  When a scrape fails it sends /remove to the root and waits, and  *)
(* when the answer names a replacement it sends /join to its own web       *)
(* server and waits again.  The root serves /remove with the `known_client'*)
(* mutex held, and in the meantime sends /disconnect and /join/multiple to *)
(* other proxies, whose handlers need the `scrapes' mutex there.  A        *)
(* request is given up after the 30 s of reqwest, but its handler goes on  *)
(* waiting for the mutex, and is then carried out late.                    *)
(*                                                                         *)
(* A retry whose first try is still waiting is served as well: the table   *)
(* is then changed twice for one failure.                                  *)
(*                                                                         *)
(* Tbon has the repair itself, as one step; here it is cut at each of its  *)
(* waits.  The table is reduced to which proxies have an entry, who lists  *)
(* them as a child, how many children each entry counts, and the depths.   *)
(* The order of entries in the table decides between proxies of the same   *)
(* depth: here any of them may be taken.                                   *)
(***************************************************************************)
EXTENDS Overlay

CONSTANTS
  Tree,        \* the parent of each proxy, once all have joined
  Level,       \* the depth of each proxy
  MaxCrashes,  \* bound on the proxies that stop
  MaxTries     \* tries of a /remove request (6 in the code)

ASSUME ShapeAssumption ==
  /\ IsFiniteSet(Proxies)
  /\ Tree \in [Proxies -> Nodes] /\ Level \in [Nodes -> Nat]
  /\ Level[Root] = 0 /\ \A c \in Proxies : Level[c] = Level[Tree[c]] + 1
ASSUME LocksBoundsAssumption == MaxCrashes \in Nat /\ MaxTries \in Nat \ {0}

VARIABLES
  up,       \* the proxies that run
  entered,  \* known_client: the proxies that have an entry, the root aside
  parent,   \* known_client: the entry that lists a proxy as its child, or None
  refs,     \* known_client: refcount, a residue of a u32 as in Tbon
  depth,    \* known_client: the depth
  scrapers, \* ExporterFactory.scrapes: the proxies that a proxy scrapes
  pc,       \* the scraping thread: it holds the mutex unless "idle"
  report,   \* the /remove request it sent last
  queue,    \* /remove requests that wait for the mutex of the root
  repair,   \* the one being served, None when there is none
  pending,  \* /join and /disconnect requests that wait for a scrapes mutex
  missed,   \* proxies whose new parent was not told of them (history)
  stale,    \* proxies of which a request was carried out that the table no
            \* longer wanted (history)
  recount   \* entries that counted off a child which they did not list (history)

table   == <<entered, parent, refs, depth>>
threads == <<pc, report>>
history == <<missed, stale, recount>>
locksVars == <<up, table, scrapers, threads, queue, repair, pending, history>>

Reports  == [from : Nodes, target : Proxies, try : 1 .. MaxTries]
Requests == [at : Nodes, op : {"join", "disconnect"}, arg : Proxies, by : Reports]
Repairs  == [report : Reports, replacement : Proxies, kids : SUBSET Proxies,
             step : {"disconnect", "adopt"}]

ASSUME NoneAssumption == None \notin Repairs

\* The type invariant: a /remove request is sent MaxTries times at most, and only
\* proxies of the tree are asked for, scraped or taken for a replacement.
LocksTypeOK ==
  /\ up \subseteq Nodes /\ Root \in up
  /\ entered \subseteq Proxies
  /\ parent \in [Proxies -> Nodes \cup {None}]
  /\ refs \in [Nodes -> Int]
  /\ depth \in [Nodes -> Nat]
  /\ scrapers \in [Nodes -> SUBSET Proxies]
  /\ pc \in [Nodes -> {"idle", "remove", "join"}]
  /\ report \in [Nodes -> Reports \cup {None}]
  /\ queue \subseteq Reports
  /\ repair \in Repairs \cup {None}
  /\ pending \subseteq Requests
  /\ missed \subseteq Proxies /\ stale \subseteq Proxies /\ recount \subseteq Nodes

LocksInit ==
  /\ up = Nodes
  /\ entered = Proxies /\ parent = Tree /\ depth = Level
  /\ refs = [n \in Nodes |-> Cardinality({c \in Proxies : Tree[c] = n})]
  /\ scrapers = [n \in Nodes |-> {c \in Proxies : Tree[c] = n}]
  /\ pc = [n \in Nodes |-> "idle"] /\ report = [n \in Nodes |-> None]
  /\ queue = {} /\ repair = None /\ pending = {}
  /\ missed = {} /\ stale = {} /\ recount = {}

-----------------------------------------------------------------------------
\* A process stops: its requests and the handlers in it are gone.
Stops(c) ==
  /\ c \in up /\ Cardinality(Nodes \ up) < MaxCrashes
  /\ up' = up \ {c}
  /\ scrapers' = [scrapers EXCEPT ![c] = {}]
  /\ pc' = [pc EXCEPT ![c] = "idle"]
  /\ pending' = {q \in pending : q.at # c}
  /\ UNCHANGED <<table, report, queue, repair, history>>

\* run_scrapping: a scrape fails; remove_proxy_scrape asks the root.
ReportsFailure(n, c) ==
  /\ n \in up /\ pc[n] = "idle" /\ c \in scrapers[n] \ up
  /\ LET r == [from |-> n, target |-> c, try |-> 1]
     IN  report' = [report EXCEPT ![n] = r] /\ queue' = queue \cup {r}
  /\ pc' = [pc EXCEPT ![n] = "remove"]
  /\ UNCHANGED <<up, table, scrapers, repair, pending, history>>

\* The pass ends: the failed scraper is removed and the mutex released.
EndPass(n) ==
  /\ pc' = [pc EXCEPT ![n] = "idle"]
  /\ scrapers' = [scrapers EXCEPT ![n] = @ \ {report[n].target}]

\* Mutant: one retry too many.
MayRetryOnceMore(n) == report[n].try <= MaxTries

MayRetry(n) == report[n].try < MaxTries

\* No answer within the time limit: again, and after the last try go on.
RemoveTimesOut(n) ==
  /\ pc[n] = "remove"
  /\ LET r == [report[n] EXCEPT !.try = @ + 1]
     IN  IF MayRetry(n)
           THEN /\ report' = [report EXCEPT ![n] = r] /\ queue' = queue \cup {r}
                /\ UNCHANGED <<pc, scrapers>>
           ELSE EndPass(n) /\ UNCHANGED <<report, queue>>
  /\ UNCHANGED <<up, table, repair, pending, history>>

\* Whether the sender of r still waits for its answer.
Waits(r) == pc[r.from] = "remove" /\ report[r.from] = r

\* The answer to r: no replacement, or one that the sender joins to itself.
Answer(r, x) ==
  IF ~Waits(r) THEN UNCHANGED <<pc, scrapers, pending>>
  ELSE IF x = None THEN EndPass(r.from) /\ UNCHANGED pending
  ELSE /\ pc' = [pc EXCEPT ![r.from] = "join"]
       /\ pending' = pending \cup {[at |-> r.from, op |-> "join", arg |-> x, by |-> r]}
       /\ UNCHANGED scrapers

OwnJoin(n) == {q \in pending : q.at = n /\ q.by = report[n]}

\* Mutant: a request without a time limit.
JoinEndsWhenServed(n) ==
  /\ pc[n] = "join" /\ OwnJoin(n) = {}
  /\ EndPass(n)
  /\ UNCHANGED <<up, table, report, queue, repair, pending, history>>

\* The own /join is answered, or given up while its handler goes on.
JoinEnds(n) ==
  /\ pc[n] = "join"
  /\ EndPass(n)
  /\ UNCHANGED <<up, table, report, queue, repair, pending, history>>

-----------------------------------------------------------------------------
HasEntry == entered \cup {Root}
ChildrenOf(t) == {c \in Proxies : parent[c] = t}

\* max_by_key on the depth; the root has the least.
DeepestOnes == {c \in entered : \A d \in entered : depth[d] <= depth[c]}

\* repair_tbon for a sender that is not known: BadReq.
RefuseRemove(r) ==
  /\ repair = None /\ r \in queue /\ r.from \notin HasEntry
  /\ queue' = queue \ {r}
  /\ Answer(r, None)
  /\ UNCHANGED <<up, table, report, repair, history>>

\* removefrom: who lists the target when its sender does not any more.
Delisted(r) == IF parent[r.target] = r.from THEN None ELSE parent[r.target]

\* removefrom counts a child off whether it is listed or not.
CountOff(r) == recount' = recount \cup (IF parent[r.target] = r.from THEN {} ELSE {r.from})

(***************************************************************************)
(* repair_tbon without a replacement: the target has no entry, or its      *)
(* entry counts no children.  Any that it lists are lost with it.          *)
(***************************************************************************)
RemoveLeaf(r) ==
  /\ repair = None /\ r \in queue /\ r.from \in HasEntry
  /\ r.target \in entered => refs[r.target] = 0
  /\ queue' = queue \ {r}
  /\ entered' = entered \ {r.target}
  /\ parent' = [c \in Proxies |-> IF c = r.target THEN Delisted(r)
                                  ELSE IF parent[c] = r.target THEN None ELSE parent[c]]
  /\ refs' = [refs EXCEPT ![r.from] = @ - 1]
  /\ CountOff(r)
  /\ Answer(r, None)
  /\ UNCHANGED <<up, depth, report, repair, missed, stale>>

\* A request of the root: nothing to wait for when the proxy is down.
Ask(q) == IF q.at \in up THEN {q} ELSE {}

\* Who lists replacement x, unless that is the target itself.
Lister(r, x) ==
  LET p == IF x = r.target THEN Delisted(r) ELSE parent[x]
  IN  IF p = r.target THEN None ELSE p

\* Mutant: the former parent of the replacement is not asked to drop it.
DisconnectNobody(r, x) == {}

\* /disconnect of replacement x at its former parent.
Disconnect(r, x) ==
  IF Lister(r, x) = None THEN {}
  ELSE Ask([at |-> Lister(r, x), op |-> "disconnect", arg |-> x, by |-> r])

(***************************************************************************)
(* repair_tbon up to the first wait: the table, and /disconnect.  The      *)
(* sender counts off the target and counts the replacement.  The target    *)
(* may itself be the deepest entry: what it adopts is lost with it.        *)
(***************************************************************************)
BeginRepair(r) ==
  /\ repair = None /\ r \in queue
  /\ r.from \in HasEntry /\ r.target \in entered /\ refs[r.target] # 0
  /\ queue' = queue \ {r}
  /\ entered' = entered \ {r.target}
  /\ \E x \in DeepestOnes :
       LET kids == ChildrenOf(r.target) \ {x}
       IN  /\ parent' = [c \in Proxies |->
                            IF c = x THEN r.from
                            ELSE IF c = r.target THEN Delisted(r)
                            ELSE IF c \notin kids THEN parent[c]
                            ELSE IF x = r.target THEN None ELSE x]
           /\ refs' = [n \in Nodes |-> refs[n] - (IF n = Lister(r, x) THEN 1 ELSE 0)
                                             + (IF n = x THEN Cardinality(kids) ELSE 0)]
           /\ depth' = [depth EXCEPT ![x] = depth[r.from] + 1]
           /\ pending' = pending \cup Disconnect(r, x)
           /\ repair' = [report |-> r, replacement |-> x, kids |-> kids,
                         step |-> "disconnect"]
  /\ CountOff(r)
  /\ UNCHANGED <<up, scrapers, threads, missed, stale>>

\* /join/multiple at the replacement, after the answer to /disconnect or when it
\* is given up.  Of several children one arrives (see Tbon).
Adopt ==
  /\ repair # None /\ repair.step = "disconnect"
  /\ \E K \in SUBSET repair.kids :
       /\ Cardinality(K) = IF repair.kids = {} THEN 0 ELSE 1
       /\ pending' = pending \cup
            UNION {Ask([at |-> repair.replacement, op |-> "join", arg |-> k,
                        by |-> repair.report]) : k \in K}
       /\ missed' = missed \cup (repair.kids \ K)
  /\ repair' = [repair EXCEPT !.step = "adopt"]
  /\ UNCHANGED <<up, table, scrapers, threads, queue, stale, recount>>

\* The root answers /remove and releases its mutex.  A sender that has given up
\* does not learn of the replacement.
EndRepair ==
  /\ repair # None /\ repair.step = "adopt"
  /\ repair' = None
  /\ Answer(repair.report, repair.replacement)
  /\ missed' = IF Waits(repair.report) THEN missed ELSE missed \cup {repair.replacement}
  /\ UNCHANGED <<up, table, report, queue, stale, recount>>

-----------------------------------------------------------------------------
\* A handler has the mutex; ProxyScraper::new fails before it needs it.
Free(q) == pc[q.at] = "idle" \/ (q.op = "join" /\ q.arg \notin up)

\* add_scrape or remove_scrape, at once or after the sender has given up.
Serve(q) ==
  /\ q \in pending /\ Free(q)
  /\ pending' = pending \ {q}
  /\ scrapers' = [scrapers EXCEPT ![q.at] =
                   IF q.op = "disconnect" THEN @ \ {q.arg}
                   ELSE IF q.arg \in up THEN @ \cup {q.arg} ELSE @]
  /\ stale' = IF (q.op = "join") = (parent[q.arg] = q.at) THEN stale ELSE stale \cup {q.arg}
  /\ UNCHANGED <<up, table, threads, queue, repair, missed, recount>>

Step ==
  \/ \E n \in Nodes, c \in Proxies : ReportsFailure(n, c)
  \/ \E n \in Nodes : RemoveTimesOut(n) \/ JoinEnds(n)
  \/ \E r \in queue : RefuseRemove(r) \/ RemoveLeaf(r) \/ BeginRepair(r)
  \/ Adopt \/ EndRepair
  \/ \E q \in pending : Serve(q)

LocksNext == Step \/ \E c \in Proxies : Stops(c)

\* Threads run, a mutex that is released goes to one that waits, and a request
\* is given up in the end.
LocksFairness == WF_locksVars(Step)

LocksSpec == LocksInit /\ [][LocksNext]_locksVars /\ LocksFairness

-----------------------------------------------------------------------------
Quiet == queue = {} /\ repair = None /\ pending = {} /\ \A n \in Nodes : pc[n] = "idle"

(***************************************************************************)
(* Nobody waits for ever: the circular waits (the root for a proxy that    *)
(* waits for the root in run_scrapping, a proxy for its own /join) are all *)
(* broken by the time limit of the requests.                               *)
(***************************************************************************)
NobodyWaitsForever == []<>Quiet

\* Proxies that run and of which no request was lost or late.
OnTime == (up \cap Proxies) \ (missed \cup stale)

(***************************************************************************)
(* When all is quiet a proxy that runs is listed in the table, and scraped *)
(* by the one that lists it and by nobody else.  Three things excuse it:   *)
(* its new parent was not told of it (the sender of /remove had given up,  *)
(* or it was one of several children); a request was carried out after the *)
(* table had changed again; and it may be listed by nobody once a /remove  *)
(* that was served twice, or came from a former parent, has made a count   *)
(* of children wrong.  Even then nobody scrapes it.                        *)
(***************************************************************************)
OneParentUnlessLate ==
  Quiet =>
    \A c \in OnTime :
      /\ recount = {} => parent[c] \in HasEntry
      /\ {n \in up : c \in scrapers[n]} = {parent[c]} \cap up

-----------------------------------------------------------------------------
(***************************************************************************)
(* The inductive invariant of OneParentUnlessLate.  A thread in the middle *)
(* of a pass runs and has reported a proxy that is down for good, and what *)
(* is down scrapes nobody and serves no request.                           *)
(***************************************************************************)
DownIsSilent ==
  /\ \A n \in Nodes : pc[n] # "idle" => /\ n \in up /\ report[n] \in Reports
                                        /\ report[n].target \notin up
  /\ \A r \in queue : r.target \notin up
  /\ \A n \in Nodes \ up : scrapers[n] = {}
  /\ \A q \in pending : q.at \in up

Asked(op, n, c) == \E q \in pending : q.op = op /\ q.at = n /\ q.arg = c

\* The repair being served will have the new parent of c told of it.
WillBeAsked(c) ==
  /\ repair # None
  /\ \/ c = repair.replacement /\ parent[c] = repair.report.from
     \/ /\ repair.step = "disconnect"
        /\ c \in repair.kids /\ parent[c] = repair.replacement

\* Who scrapes a proxy and is not its parent has been asked to stop.
OthersLetGo ==
  \A c \in OnTime, n \in up :
    c \in scrapers[n] => n = parent[c] \/ Asked("disconnect", n, c)

\* A parent scrapes its child, has been asked to, or will be.
ParentTakesOver ==
  \A c \in OnTime :
    parent[c] \in up => \/ c \in scrapers[parent[c]]
                        \/ Asked("join", parent[c], c)
                        \/ WillBeAsked(c)

\* The table is a tree in which depths grow, and refcount counts the children.
SoundTable ==
  /\ up \cap Proxies \subseteq entered
  /\ \A c \in entered : parent[c] \in HasEntry /\ depth[parent[c]] < depth[c]
  /\ \A c \in Proxies \ entered : parent[c] = None
  /\ \A n \in HasEntry : refs[n] = Cardinality(ChildrenOf(n))

SoundUnlessRecount == recount = {} => SoundTable

LocksInv ==
  LocksTypeOK /\ DownIsSilent /\ OthersLetGo /\ ParentTakesOver /\ SoundUnlessRecount
=============================================================================
