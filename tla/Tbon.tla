--------------------------------- MODULE Tbon ---------------------------------
(***************************************************************************)
(* The tree-based overlay network (TBON) of proxies.  The root's web       *)
(* server keeps the topology in `known_client' (src/src/webserver.rs); the *)
(* edges that carry data are the scrapers each proxy keeps in `scrapes'    *)
(* (src/src/exporter.rs).  A proxy asks the root for a parent (/pivot),    *)
(* registers there (/join), and a parent whose scrape fails reports the    *)
(* child to the root (/remove), which repairs the topology and rewires the *)
(* proxies concerned by further requests (/disconnect, /join/multiple).    *)
(*                                                                         *)
(* The root handles /pivot, /remove and the repair of /leave under the     *)
(* `known_client' mutex, its requests to other proxies included, so each   *)
(* of them is one step.  A proxy that is down refuses connections.         *)
(***************************************************************************)
EXTENDS Overlay

CONSTANTS
  Branches,  \* --branches: arity of the k-ary tree
  Faults,    \* kinds of faults that happen
  MaxFaults  \* bound on their number

Kinds == {"crash", "suspicion", "retry", "restart", "leave", "sigterm"}

\* i32::MAX, a depth that no proxy reaches.
Full == 2147483647

ASSUME CountAssumption == IsFiniteSet(Proxies) /\ Cardinality(Proxies) < Full
ASSUME BoundsAssumption ==
  /\ Branches \in Nat \ {0} /\ MaxFaults \in Nat /\ Faults \subseteq Kinds

VARIABLES
  known,    \* known_client: a sequence of ClientPivot
  proc,     \* where the process of a proxy is in its life
  pivot,    \* the parent the root named to a proxy that is about to join
  scrapes,  \* the proxies a proxy scrapes
  wiring,   \* replacements a proxy was told to join and has not yet tried
  leaving,  \* /leave requests between reading the parent and repairing
  faults,   \* number of faults so far
  stray,    \* whether the root ever handled a request that does not fit its
            \* table: a proxy it knows already, a child its parent does not list
  cut       \* proxies whose name was cut off a list of children (history)

vars == <<known, proc, pivot, scrapes, wiring, leaving, faults, stray, cut>>

\* ClientPivot.
Entries == [url : Nodes, refcount : Int, child : Seq(Proxies), depth : Nat]

(***************************************************************************)
(* The type invariant.  Every entry has a real depth: handle_pivot never   *)
(* leaves the -1 it starts from, because the table is never empty.         *)
(* A proxy stopped on SIGTERM is told from one that was killed.            *)
(***************************************************************************)
TypeOK ==
  /\ known \in Seq(Entries)
  /\ proc \in [Nodes -> {"starting", "pivoted", "member", "down", "terminated"}]
  /\ pivot \in [Proxies -> Nodes \cup {None}]
  /\ scrapes \in [Nodes -> SUBSET Proxies]
  /\ wiring \in [Nodes -> SUBSET Proxies]
  /\ leaving \subseteq Proxies \X Nodes
  /\ faults \in 0 .. MaxFaults
  /\ stray \in BOOLEAN
  /\ cut \subseteq Proxies

-----------------------------------------------------------------------------
(***************************************************************************)
(* ClientPivot.  refcount is a u32: an Int stands for its residue, and a   *)
(* negative one is larger than any number of branches.                     *)
(***************************************************************************)
NewPivot(url, depth) == [url |-> url, refcount |-> 0, child |-> <<>>, depth |-> depth]

\* Vec::retain: the elements of s that are not in D, in their order.
Retain(s, D) ==
  LET upto[i \in 0 .. Len(s)] ==
        IF i = 0 THEN <<>>
        ELSE IF s[i] \in D THEN upto[i - 1] ELSE Append(upto[i - 1], s[i])
  IN  upto[Len(s)]

MapTo(e, c) == [e EXCEPT !.refcount = @ + 1, !.child = Append(@, c)]

\* Mutant: the child is dropped, the count is not.
RemoveFromKeepsCount(e, c) == [e EXCEPT !.child = Retain(@, {c})]

RemoveFrom(e, c) == [e EXCEPT !.refcount = @ - 1, !.child = Retain(@, {c})]

Lists(e, c) == \E i \in DOMAIN e.child : e.child[i] = c

\* get_depth_if_not_full.
DepthIfNotFull(e) == IF e.refcount \in 0 .. Branches - 1 THEN e.depth ELSE Full

\* The first index with a property, 0 when there is none (iter().position).
Position(k, P(_)) ==
  LET I == {i \in DOMAIN k : P(k[i])} IN
  IF I = {} THEN 0 ELSE CHOOSE i \in I : \A j \in I : i <= j

PosOf(k, url) == Position(k, LAMBDA e : e.url = url)

\* min_by_key takes the first of the smallest, max_by_key the last of the largest.
TargetNode(k) ==
  Position(k, LAMBDA e : \A j \in DOMAIN k : DepthIfNotFull(e) <= DepthIfNotFull(k[j]))

Deepest(k) ==
  CHOOSE i \in DOMAIN k :
    \A j \in DOMAIN k : k[j].depth < k[i].depth \/ (k[j].depth = k[i].depth /\ j <= i)

-----------------------------------------------------------------------------
(***************************************************************************)
(* repair_tbon as a function of the table: the new table, the replacement, *)
(* the proxy to be disconnected from it and the children it adopts.        *)
(***************************************************************************)
NoRepair(k) == [known |-> k, replacement |-> None, former |-> None, adopted |-> <<>>]

\* The entries that a proxy can have.
EntriesOf(url) == [url : {url}, refcount : Int, child : Seq(Proxies), depth : Int]

\* Mutant: the removed proxy stays in the table.
WithoutKeepsAll(k, url) == k

Without(k, url) == Retain(k, EntriesOf(url))

\* The position of the replacement's parent, 0 when that is removed itself.
Former(k, t, url) == IF Lists(k[t], url) THEN 0 ELSE Position(k, LAMBDA e : Lists(e, url))

Adopted(k, t, url) == Retain(k[t].child, {url})

\* The entry at r takes the place of the one at t below the one at f.
Stitched(k, f, t, r) ==
  LET url == k[r].url
      adopted == Adopted(k, t, url)
      Detached(i) == IF i = Former(k, t, url) THEN RemoveFrom(k[i], url) ELSE k[i]
      Attached(i) == IF i = f THEN MapTo(Detached(i), url) ELSE Detached(i)
  IN  [i \in DOMAIN k |->
         IF i # r THEN Attached(i)
         ELSE [Attached(i) EXCEPT !.depth = k[f].depth + 1,
                                  !.refcount = @ + Len(adopted),
                                  !.child = @ \o adopted]]

Repair(k, from, target) ==
  LET f  == PosOf(k, from)
      k1 == [k EXCEPT ![f] = RemoveFrom(@, target)]
      t  == PosOf(k1, target)
      r  == Deepest(k1)
      p  == Former(k1, t, k1[r].url)
  IN  IF f = 0 THEN NoRepair(k)
      ELSE IF t = 0 \/ k1[t].refcount = 0 THEN NoRepair(Without(k1, target))
      ELSE [known |-> Without(Stitched(k1, f, t, r), target),
            replacement |-> k1[r].url,
            former |-> IF p = 0 THEN None ELSE k1[p].url,
            adopted |-> Adopted(k1, t, k1[r].url)]

Up(n) == proc[n] \notin {"down", "terminated"}

\* get_param: an "&" ends a parameter of a query, so that of a list that is
\* joined with "&" only the first element arrives.
GetParam(list) == SubSeq(list, 1, IF list = <<>> THEN 0 ELSE 1)

\* The names that are lost on the way.
CutOff(list) == {list[i] : i \in DOMAIN list \ DOMAIN GetParam(list)}

\* /join/multiple: the first target that does not answer ends the loop.
Reached(list) ==
  LET to == GetParam(list) IN
  {to[i] : i \in {j \in DOMAIN to : \A l \in 1 .. j : Up(to[l])}}

\* Mutant: the former parent of the replacement is not told to drop it.
RewiredWithoutDisconnect(s, rep) ==
  [n \in Nodes |->
     IF Up(n) /\ n = rep.replacement THEN s[n] \cup Reached(rep.adopted) ELSE s[n]]

\* The scrapers after the requests that the root sends during a repair.
Rewired(s, rep) ==
  [n \in Nodes |->
     IF ~Up(n) THEN s[n]
     ELSE (IF n = rep.former THEN s[n] \ {rep.replacement} ELSE s[n])
            \cup (IF n = rep.replacement THEN Reached(rep.adopted) ELSE {})]

-----------------------------------------------------------------------------
\* A repair is stray when the root knows `from' but not `target' as its child.
StrayRepair(from, target) ==
  LET f == PosOf(known, from) IN f # 0 /\ ~Lists(known[f], target)

Fault(kind) == kind \in Faults /\ faults < MaxFaults /\ faults' = faults + 1

Init ==
  /\ known = <<NewPivot(Root, 0)>>
  /\ proc = [n \in Nodes |-> IF n = Root THEN "member" ELSE "starting"]
  /\ pivot = [n \in Proxies |-> None]
  /\ scrapes = [n \in Nodes |-> {}]
  /\ wiring = [n \in Nodes |-> {}]
  /\ leaving = {}
  /\ faults = 0
  /\ stray = FALSE
  /\ cut = {}

\* Mutant: the depth is left at the -1 it is declared with.
EnterWithoutDepth(n) ==
  LET t == PosOf(known, known[TargetNode(known)].url) IN
  /\ known' = Append([known EXCEPT ![t] = MapTo(@, n)], NewPivot(n, -1))
  /\ stray' = (stray \/ PosOf(known, n) # 0)

\* handle_pivot: the root picks the parent and enters the new proxy below it.
Enter(n) ==
  LET t == PosOf(known, known[TargetNode(known)].url) IN
  /\ known' = Append([known EXCEPT ![t] = MapTo(@, n)], NewPivot(n, known[t].depth + 1))
  /\ stray' = (stray \/ PosOf(known, n) # 0)

Pivot(n) ==
  /\ proc[n] = "starting"
  /\ Enter(n)
  /\ pivot' = [pivot EXCEPT ![n] = known[TargetNode(known)].url]
  /\ proc' = [proc EXCEPT ![n] = "pivoted"]
  /\ UNCHANGED <<scrapes, wiring, leaving, faults, cut>>

\* The answer comes too late: ExporterFactory::join asks again.
PivotRetried(n) ==
  /\ proc[n] = "starting" /\ Fault("retry")
  /\ Enter(n)
  /\ UNCHANGED <<proc, pivot, scrapes, wiring, leaving, cut>>

\* ExporterFactory::join at the parent; when it does not answer the proxy exits.
Join(n) ==
  /\ proc[n] = "pivoted"
  /\ LET ok == Up(pivot[n]) IN
     /\ proc' = [proc EXCEPT ![n] = IF ok THEN "member" ELSE "down"]
     /\ scrapes' = [scrapes EXCEPT ![pivot[n]] = IF ok THEN @ \cup {n} ELSE @,
                                   ![n] = IF ok THEN @ ELSE {}]
     /\ wiring' = [wiring EXCEPT ![n] = IF ok THEN @ ELSE {}]
  /\ pivot' = [pivot EXCEPT ![n] = None]
  /\ UNCHANGED <<known, leaving, faults, stray, cut>>

\* A process stops: what it kept is gone, the root is not told.
Stop(n, how) ==
  /\ Up(n)
  /\ proc' = [proc EXCEPT ![n] = how]
  /\ pivot' = [pivot EXCEPT ![n] = None]
  /\ scrapes' = [scrapes EXCEPT ![n] = {}]
  /\ wiring' = [wiring EXCEPT ![n] = {}]
  /\ UNCHANGED <<known, leaving, stray, cut>>

Crash(n) == Fault("crash") /\ Stop(n, "down")

(***************************************************************************)
(* SIGTERM.  set_data keeps the root's address with one "http://" in front *)
(* and the handler puts another one before it; a URL with two schemes      *)
(* reaches no server, the error is dropped and the process exits.  The     *)
(* guard says so: with one scheme the request would be BeginLeave.         *)
(***************************************************************************)
SetDataSchemes(given) == IF given = 0 THEN 1 ELSE given
LeaveUrlSchemes(given) == SetDataSchemes(given) + 1

SigTerm(n) ==
  /\ Fault("sigterm")
  /\ \E given \in {0, 1} : LeaveUrlSchemes(given) # 1
  /\ Stop(n, "terminated")

Restart(n) ==
  /\ ~Up(n) /\ Fault("restart")
  /\ proc' = [proc EXCEPT ![n] = "starting"]
  /\ UNCHANGED <<known, pivot, scrapes, wiring, leaving, stray, cut>>

(***************************************************************************)
(* run_scrapping and remove_proxy_scrape: the scrape of c fails, the root  *)
(* repairs the tree, p deletes the scraper and is to join the replacement. *)
(***************************************************************************)
Remove(p, c) == \E rep \in {Repair(known, p, c)} :
  /\ known' = rep.known
  /\ scrapes' = Rewired([scrapes EXCEPT ![p] = @ \ {c}], rep)
  /\ wiring' = IF rep.replacement = None THEN wiring
               ELSE [wiring EXCEPT ![p] = @ \cup {rep.replacement}]
  /\ stray' = (stray \/ StrayRepair(p, c))
  /\ cut' = cut \cup CutOff(rep.adopted)
  /\ UNCHANGED <<proc, pivot, leaving>>

ScrapeFails(p, c) ==
  /\ Up(p) /\ c \in scrapes[p] /\ ~Up(c)
  /\ Remove(p, c)
  /\ UNCHANGED faults

\* A scrape fails although the child lives (no answer in time, an error of the
\* parent itself).
Suspect(p, c) ==
  /\ Up(p) /\ c \in scrapes[p] /\ Up(c) /\ Fault("suspicion")
  /\ Remove(p, c)

\* The first answer comes too late: the root repairs twice, p sees the second
\* answer, which has no replacement any more.
RemoveRetried(p, c) ==
  LET rep == Repair(known, p, c) IN
  /\ Up(p) /\ c \in scrapes[p] /\ ~Up(c) /\ Fault("retry")
  /\ known' = Repair(rep.known, p, c).known
  /\ scrapes' = Rewired([scrapes EXCEPT ![p] = @ \ {c}], rep)
  /\ stray' = TRUE
  /\ cut' = cut \cup CutOff(rep.adopted)
  /\ UNCHANGED <<proc, pivot, wiring, leaving>>

\* /join of the replacement at the proxy itself: ProxyScraper::new refuses one
\* that does not answer.
Wire(p, r) ==
  /\ Up(p) /\ r \in wiring[p]
  /\ wiring' = [wiring EXCEPT ![p] = @ \ {r}]
  /\ scrapes' = IF Up(r) THEN [scrapes EXCEPT ![p] = @ \cup {r}] ELSE scrapes
  /\ UNCHANGED <<known, proc, pivot, leaving, faults, stray, cut>>

-----------------------------------------------------------------------------
\* handle_leave: read the parent, disconnect the leaving proxy there.
BeginLeave(n) ==
  LET p == Position(known, LAMBDA e : Lists(e, n)) IN
  /\ proc[n] = "member" /\ p # 0 /\ Fault("leave")
  /\ leaving' = leaving \cup {<<n, known[p].url>>}
  /\ scrapes' = [scrapes EXCEPT ![known[p].url] = @ \ {n}]
  /\ UNCHANGED <<known, proc, pivot, wiring, stray, cut>>

\* Then repair, and tell the parent to join the replacement.
EndLeave(n, p) == <<n, p>> \in leaving /\ \E rep \in {Repair(known, p, n)} :
  /\ leaving' = leaving \ {<<n, p>>}
  /\ known' = rep.known
  /\ scrapes' = LET s == Rewired(scrapes, rep) IN
                IF rep.replacement # None /\ Up(p) /\ Up(rep.replacement)
                  THEN [s EXCEPT ![p] = @ \cup {rep.replacement}] ELSE s
  /\ stray' = (stray \/ StrayRepair(p, n))
  /\ cut' = cut \cup CutOff(rep.adopted)
  /\ UNCHANGED <<proc, pivot, wiring, faults>>

-----------------------------------------------------------------------------
\* What the proxies do by themselves, and what happens to them.
ProxyStep ==
  \/ \E n \in Proxies : Pivot(n) \/ Join(n)
  \/ \E p \in Nodes, c \in Proxies :
       ScrapeFails(p, c) \/ Wire(p, c) \/ EndLeave(c, p)

FaultStep ==
  \/ \E n \in Proxies :
       PivotRetried(n) \/ Crash(n) \/ SigTerm(n) \/ Restart(n) \/ BeginLeave(n)
  \/ \E p \in Nodes, c \in Proxies : Suspect(p, c) \/ RemoveRetried(p, c)

Next == ProxyStep \/ FaultStep

Spec == Init /\ [][Next]_vars

(***************************************************************************)
(* Fairness: the joining thread, the scraping loop (every 10 ms) and the   *)
(* web threads keep running in a process that is up, so some step that     *)
(* they can take is taken.                                                 *)
(***************************************************************************)
Fairness == WF_vars(ProxyStep)

FairSpec == Spec /\ Fairness

Urls(k) == {k[i].url : i \in DOMAIN k}
Tracked == Urls(known)

(***************************************************************************)
(* Faults that come one at a time: the next one waits until every proxy    *)
(* has joined or is gone from the table and no request is under way.       *)
(***************************************************************************)
Settled ==
  /\ \A n \in Proxies : proc[n] = "member" \/ (~Up(n) /\ n \notin Tracked)
  /\ \A n \in Nodes : wiring[n] = {}
  /\ leaving = {}

CalmNext == ProxyStep \/ (Settled /\ FaultStep)

CalmSpec == Init /\ [][CalmNext]_vars /\ Fairness

-----------------------------------------------------------------------------
Children(e) == {e.child[i] : i \in DOMAIN e.child}

\* A table describes a tree of bounded arity rooted in the root proxy.
IsTree(k) ==
  /\ k[1].url = Root /\ k[1].depth = 0
  /\ \A i, j \in DOMAIN k : k[i].url = k[j].url => i = j
  /\ \A i \in DOMAIN k :
       /\ k[i].refcount = Len(k[i].child) /\ k[i].refcount <= Branches
       /\ \A a, b \in DOMAIN k[i].child : k[i].child[a] = k[i].child[b] => a = b
       /\ Children(k[i]) \subseteq Urls(k) \ {Root}
  /\ \A j \in DOMAIN k \ {1} :
       \E i \in DOMAIN k :
         /\ Lists(k[i], k[j].url) /\ k[j].depth = k[i].depth + 1
         /\ \A l \in DOMAIN k : Lists(k[l], k[j].url) => l = i

(***************************************************************************)
(* The topology is a tree of bounded arity rooted in the root proxy as     *)
(* long as no request arrived that does not fit it: one entry per proxy,   *)
(* refcounts that count the children, exactly one parent at the depth      *)
(* above, no parent with more than `branches' children, whatever crashes,  *)
(* leaves, joins and repairs interleave (webserver.rs handle_pivot,        *)
(* repair_tbon, handle_leave).                                             *)
(***************************************************************************)
TreeUnlessStray == ~stray => IsTree(known)

\* Nothing in S that is not in T, and nothing of T missing but what was cut off.
Matches(S, T, C) == S \subseteq T /\ T \ S \subseteq C

(***************************************************************************)
(* When faults come one at a time the scrapers agree with the table again  *)
(* whenever the tree has settled: a tracked proxy scrapes only children    *)
(* that the root lists for it, so that no value is summed twice, and all   *)
(* of them but those whose name was cut off a list of several children     *)
(* that a replacement was told to adopt.                                   *)
(***************************************************************************)
ScrapersFollowTable ==
  Settled => \A i \in DOMAIN known :
               Matches(scrapes[known[i].url], Children(known[i]), cut)

(***************************************************************************)
(* When faults come one at a time every one of them is repaired: from some *)
(* time on no proxy that is down is in the table, and nothing is left to   *)
(* do (README "TBON Self-Repair").                                         *)
(***************************************************************************)
RepairsComplete == <>[]Settled

(***************************************************************************)
(* What the comment on repair_tbon says of it: it "finds a replacement     *)
(* node to stitch the tree back together" (webserver.rs:699-700).  When    *)
(* the tree has settled after one fault at a time, every child in the      *)
(* table is scraped by the parent that lists it.                           *)
(***************************************************************************)
StitchedTogether ==
  Settled => \A i \in DOMAIN known : Children(known[i]) \subseteq scrapes[known[i].url]

-----------------------------------------------------------------------------
(***************************************************************************)
(* The inductive invariant of the table: the root's entry stays in front,  *)
(* alone at depth 0, whatever requests arrive.                             *)
(***************************************************************************)
Rooted(k) ==
  /\ k # <<>> /\ k[1].url = Root /\ k[1].depth = 0
  /\ \A i \in DOMAIN k \ {1} : k[i].url \in Proxies /\ k[i].depth >= 1

TableInv == TypeOK /\ Rooted(known) /\ TreeUnlessStray

(***************************************************************************)
(* The inductive invariant of ScrapersFollowTable, on top of TypeOK and a  *)
(* table that is a tree, for faults that come one at a time.  Kids are the *)
(* children that the root lists for a proxy.                               *)
(***************************************************************************)
Kids(k, u) == {c \in Proxies : \E i \in DOMAIN k : k[i].url = u /\ Lists(k[i], c)}

\* The four kinds of trouble: proxies that join, that are down and not yet
\* removed, that were not yet told of a replacement, that are leaving.
Joining == {n \in Proxies : proc[n] \in {"starting", "pivoted"}}
Lost == {n \in Tracked : ~Up(n)}
Unwired == {n \in Nodes : wiring[n] # {}}

\* There is one kind at a time, and but for joining one proxy in it.
OneTrouble ==
  /\ Joining # {} => Lost = {} /\ Unwired = {} /\ leaving = {}
  /\ Lost # {} => Unwired = {} /\ leaving = {}
  /\ Unwired # {} => leaving = {}
  /\ \A m, n \in Lost : m = n
  /\ \A m, n \in leaving : m = n

\* Where a proxy that joins is, and what one that is not in the table keeps.
JoinsInTable ==
  \A n \in Proxies :
    /\ proc[n] = "starting" => n \notin Tracked /\ scrapes[n] = {}
    /\ proc[n] = "pivoted" => pivot[n] \in Tracked /\ n \in Kids(known, pivot[n])
    /\ ~Up(n) => scrapes[n] = {}

\* Requests under way are about children in the table.
UnderWay ==
  /\ \A n \in Nodes : wiring[n] # {} =>
       n \in Tracked /\ wiring[n] \subseteq {c \in Kids(known, n) : Up(c)}
  /\ \A l \in leaving : l[2] \in Tracked /\ l[1] \in Kids(known, l[2])

\* A proxy scrapes the children listed for it, but for the ones under way.
ScrapesListed ==
  \A u \in Tracked \ Lost :
    Matches(scrapes[u], {c \in Kids(known, u) :
              proc[c] # "pivoted" /\ c \notin wiring[u] /\ <<c, u>> \notin leaving}, cut)

CalmInv ==
  /\ TypeOK /\ Rooted(known) /\ IsTree(known) /\ proc[Root] = "member"
  /\ OneTrouble /\ JoinsInTable /\ UnderWay /\ ScrapesListed
===============================================================================
