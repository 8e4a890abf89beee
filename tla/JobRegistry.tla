----------------------------- MODULE JobRegistry -----------------------------
(***************************************************************************)
(* The per-job table of ExporterFactory (src/src/exporter.rs) and the      *)
(* threads that take and drop references onto its entries:                 *)
(*                                                                         *)
(*   - one thread per UNIX-socket client (src/src/proxy.rs), which         *)
(*     resolves its job on JobDesc and relaxes it at end of file;          *)
(*   - the scraping thread (run_scrapping), which walks over the scrapers  *)
(*     under the `scrapes' mutex; a proxy scraper (scrape_proxy) resolves  *)
(*     the jobs its child reports and relaxes the ones that disappeared;   *)
(*   - the web threads that add (/join) and remove (/disconnect) scrapers. *)
(*                                                                         *)
(* The `perjob' mutex covers resolve_job and relax_job as a whole, so each *)
(* of them is one step; a scrape is a sequence of such steps that the      *)
(* client threads interleave with.                                         *)
(***************************************************************************)
EXTENDS Integers, FiniteSets

CONSTANTS
  Jobs,        \* job ids
  SysJobs,     \* "main" and "Node: <host>", referenced by the factory itself
  Shared,      \* the job every proxy reports: "main"
  Clients,     \* connection slots of the UNIX socket
  Children,    \* proxies that may be scraped, named by their scrape key
  Self,        \* the factory, as the holder of SysJobs
  None,        \* no scraper in progress
  Aggregator,  \* the factory's `aggregator' flag: it stores profiles and traces
  MaxLost      \* bound on the number of steps that abandon references

Holders == Clients \cup Children \cup {Self}
AppJobs == Jobs \ SysJobs

ASSUME JobsAssumption ==
  /\ SysJobs \subseteq Jobs
  /\ Shared \in SysJobs

ASSUME HoldersAssumption ==
  /\ IsFiniteSet(Clients) /\ IsFiniteSet(Children)
  /\ Clients \cap Children = {}
  /\ Self \notin Clients \cup Children
  /\ None \notin Clients \cup Children
  /\ (Clients \cup Children \cup {Self}) \cap Jobs = {}

ASSUME ParametersAssumption == Aggregator \in BOOLEAN /\ MaxLost \in Nat

VARIABLES
  perjob,    \* keys of the `perjob' table
  counter,   \* PerJobRefcount.counter, 0 for a job that has no entry
  islocal,   \* PerJobRefcount.islocal
  held,      \* jobs a holder refers to: a client's job_desc, a scraper's `state'
  relaxed,   \* jobs a scraper has given back and still lists in its `state'
  session,   \* what the thread of a client connection has received
  scrapes,   \* keys of the proxy scrapers in the `scrapes' table
  tracers,   \* jobs whose "/trace.<job>" scraper is in the `scrapes' table
  pending,   \* jobs whose trace scraper waits in `pending_scrapes'
  trace,     \* the trace store's view of a job: no trace, open, done
  saved,     \* how the profile of a job was stored last, if it was
  pass,      \* whether the scraping thread holds the `scrapes' mutex
  left,      \* scrapers this pass has still to visit
  cur,       \* proxy scraper in progress
  gone,      \* its jobs that have left the child and are to be relaxed
  todo,      \* reported jobs it has still to update
  failed,    \* `to_delete': scrapers that failed in this pass
  lost,      \* number of steps so far that abandoned references (history)
  broken     \* jobs whose trace once could not be written (history)

registry == <<perjob, counter, islocal, trace, saved, pending>>
loop     == <<pass, left, cur, gone, todo, failed>>
history  == <<lost, broken>>
vars     == <<registry, held, relaxed, session, scrapes, tracers, loop, history>>

(***************************************************************************)
(* The type invariant.  A counter is a natural number: relax_job's         *)
(* assert!(0 <= counter) never fires.  `saved' tells a profile whose       *)
(* description carries an end time, which only the client threads set,     *)
(* from one stored with the end time 0 of a description received from a    *)
(* child.                                                                  *)
(***************************************************************************)
TypeOK ==
  /\ perjob \subseteq Jobs
  /\ counter \in [Jobs -> Nat]
  /\ islocal \in [Jobs -> BOOLEAN]
  /\ held \in [Holders -> SUBSET Jobs]
  /\ relaxed \in [Children -> SUBSET Jobs]
  /\ session \in [Clients -> {"closed", "open", "identified"}]
  /\ scrapes \subseteq Children
  /\ tracers \subseteq Jobs
  /\ pending \subseteq Jobs
  /\ trace \in [Jobs -> {"none", "open", "done"}]
  /\ saved \in [Jobs -> {"never", "ended", "running"}]
  /\ pass \in BOOLEAN
  /\ left \subseteq Children \cup Jobs
  /\ cur \in Children \cup {None}
  /\ gone \subseteq Jobs
  /\ todo \subseteq Jobs
  /\ failed \subseteq Children \cup Jobs
  /\ lost \in 0 .. MaxLost
  /\ broken \subseteq Jobs

-----------------------------------------------------------------------------
(***************************************************************************)
(* ExporterFactory::new: the entries of the cumulative jobs with counter   *)
(* 1, and their traces, freshly cleared, when this proxy aggregates.       *)
(***************************************************************************)
Init ==
  /\ perjob = SysJobs
  /\ counter = [j \in Jobs |-> IF j \in SysJobs THEN 1 ELSE 0]
  /\ islocal = [j \in Jobs |-> FALSE]
  /\ held = [h \in Holders |-> IF h = Self THEN SysJobs ELSE {}]
  /\ session = [c \in Clients |-> "closed"]
  /\ scrapes = {} /\ tracers = {}
  /\ pending = IF Aggregator THEN SysJobs ELSE {}
  /\ trace = [j \in Jobs |-> IF Aggregator /\ j \in SysJobs THEN "open" ELSE "none"]
  /\ saved = [j \in Jobs |-> "never"]
  /\ pass = FALSE /\ left = {} /\ cur = None
  /\ gone = {} /\ todo = {} /\ failed = {}
  /\ relaxed = [s \in Children |-> {}]
  /\ lost = 0 /\ broken = {}

(***************************************************************************)
(* TraceView::get for a job that gets an entry: on an aggregator, the      *)
(* trace the store has for it (a finished one included) or a new one.      *)
(* Creating it can fail (its file exists or cannot be written): the        *)
(* `.ok()' of resolve_job leaves the job without a trace.                  *)
(***************************************************************************)
TraceOf(j) == IF Aggregator /\ trace[j] = "none" THEN {"none", "open"} ELSE {trace[j]}

(***************************************************************************)
(* resolve_job: one more reference; an unknown job gets an entry and the   *)
(* scraper of its trace, if it has one, is left in the pending list.       *)
(***************************************************************************)
Resolve(j, local) ==
  LET new == j \notin perjob IN
  /\ perjob' = perjob \cup {j}
  /\ counter' = [counter EXCEPT ![j] = @ + 1]
  /\ islocal' = [islocal EXCEPT ![j] = local \/ (~new /\ @)]
  /\ \E t \in IF new THEN TraceOf(j) ELSE {trace[j]} :
       /\ trace' = [trace EXCEPT ![j] = t]
       /\ pending' = IF new /\ t # "none" THEN pending \cup {j} ELSE pending
  /\ UNCHANGED saved

\* Mutant: the entry is deleted, its profile and trace are left as they were.
RetireUnsaved(j, end) ==
  /\ perjob' = perjob \ {j}
  /\ islocal' = [islocal EXCEPT ![j] = FALSE]
  /\ UNCHANGED <<saved, trace>>

\* relax_job, last reference: the aggregator stores the profile and closes the
\* trace, then the entry is deleted.
Retire(j, end) ==
  /\ perjob' = perjob \ {j}
  /\ islocal' = [islocal EXCEPT ![j] = FALSE]
  /\ saved' = IF Aggregator THEN [saved EXCEPT ![j] = end] ELSE saved
  /\ trace' = IF Aggregator /\ trace[j] = "open" THEN [trace EXCEPT ![j] = "done"] ELSE trace

\* Mutant: any reference dropped retires the job.
RelaxAtAnyCount(j, end, result) ==
  /\ counter' = [counter EXCEPT ![j] = 0]
  /\ Retire(j, end)
  /\ UNCHANGED pending

(***************************************************************************)
(* relax_job: one reference less; `end' says whether the description of    *)
(* the caller has an end time.  saveprofile can fail before ("nofile") or  *)
(* after ("nomodel") it has stored the profile: the `?' then returns with  *)
(* the entry still in the table, its counter 0 and its trace open.  A job  *)
(* without an entry is an error that changes nothing.                      *)
(***************************************************************************)
Failures == {"nofile", "nomodel"}

Relax(j, end, result) ==
  LET last == j \in perjob /\ counter[j] = 1 IN
  /\ result \in Failures => Aggregator /\ last
  /\ counter' = IF j \in perjob THEN [counter EXCEPT ![j] = @ - 1] ELSE counter
  /\ IF last /\ result \notin Failures
       THEN Retire(j, end)
       ELSE /\ saved' = IF result = "nomodel" THEN [saved EXCEPT ![j] = end] ELSE saved
            /\ UNCHANGED <<perjob, islocal, trace>>
  /\ UNCHANGED pending

-----------------------------------------------------------------------------
\* History of the steps that drop references without relaxing them.
Abandon(S) ==
  /\ S # {} => lost < MaxLost
  /\ lost' = IF S # {} THEN lost + 1 ELSE lost

(***************************************************************************)
(* UnixProxy: one thread per connection.                                   *)
(***************************************************************************)
Connect(c) ==
  /\ session[c] = "closed"
  /\ session' = [session EXCEPT ![c] = "open"]
  /\ UNCHANGED <<registry, held, relaxed, scrapes, tracers, loop, history>>

\* The client library sends one JobDesc per connection, before anything else.
RecvJobDesc(c) ==
  /\ session[c] = "open"
  /\ session' = [session EXCEPT ![c] = "identified"]
  /\ \E j \in AppJobs :
       /\ Resolve(j, TRUE)
       /\ held' = [held EXCEPT ![c] = {j}]
  /\ UNCHANGED <<relaxed, scrapes, tracers, loop, history>>

\* A description with an empty jobid starts no exporter.
RecvAnonymousJobDesc(c) ==
  /\ session[c] = "open"
  /\ session' = [session EXCEPT ![c] = "identified"]
  /\ UNCHANGED <<registry, held, relaxed, scrapes, tracers, loop, history>>

\* End of file: handle_client leaves its loop and relaxes the job it holds.
ClientLeaves(c) ==
  /\ session[c] # "closed"
  /\ session' = [session EXCEPT ![c] = "closed"]
  /\ held' = [held EXCEPT ![c] = {}]
  /\ IF held[c] = {}
       THEN UNCHANGED registry
       ELSE \E j \in held[c], result \in Failures \cup {"ok"} : Relax(j, "ended", result)
  /\ UNCHANGED <<relaxed, scrapes, tracers, loop, history>>

(***************************************************************************)
(* A command that cannot be parsed or applied (a non-finite counter is     *)
(* written as null, a value of another type than the metric has): the `?'  *)
(* returns from handle_client past the code that relaxes the job.          *)
(***************************************************************************)
ClientError(c) ==
  /\ session[c] = "identified"
  /\ session' = [session EXCEPT ![c] = "closed"]
  /\ held' = [held EXCEPT ![c] = {}]
  /\ Abandon(held[c])
  /\ UNCHANGED <<registry, relaxed, scrapes, tracers, loop, broken>>

-----------------------------------------------------------------------------
(***************************************************************************)
(* The web threads.  add_scrape replaces a scraper of the same key by one  *)
(* with an empty shadow state; remove_scrape drops it.  Both wait for the  *)
(* `scrapes' mutex, so neither happens during a pass.                      *)
(***************************************************************************)
DropScrapers(S) ==
  /\ held' = [h \in Holders |-> IF h \in S THEN {} ELSE held[h]]
  /\ relaxed' = [s \in Children |-> IF s \in S THEN {} ELSE relaxed[s]]

AddScrape(s) ==
  /\ ~pass
  /\ scrapes' = scrapes \cup {s}
  /\ DropScrapers({s})
  /\ Abandon(held[s])
  /\ UNCHANGED <<registry, session, tracers, loop, broken>>

RemoveScrape(s) ==
  /\ ~pass /\ s \in scrapes
  /\ scrapes' = scrapes \ {s}
  /\ DropScrapers({s})
  /\ Abandon(held[s])
  /\ UNCHANGED <<registry, session, tracers, loop, broken>>

-----------------------------------------------------------------------------
(***************************************************************************)
(* run_scrapping: lock `scrapes' and visit every scraper in turn.          *)
(***************************************************************************)
BeginPass ==
  /\ ~pass
  /\ pass' = TRUE
  /\ left' = scrapes \cup tracers
  /\ UNCHANGED <<registry, held, relaxed, session, scrapes, tracers, cur, gone, todo, failed, history>>

\* ProxyScraper::scrape returns at once when the period has not elapsed.
NotDue(k) ==
  /\ k \in left /\ cur = None
  /\ left' = left \ {k}
  /\ UNCHANGED <<registry, held, relaxed, session, scrapes, tracers, pass, cur, gone, todo, failed,
                 history>>

\* The shadow state of a scraper, by which the next answer is compared.
State(s) == held[s] \cup relaxed[s]

\* The child answers /job; jobs of the shadow state it does not list have left.
Fetch(s) ==
  /\ s \in left \cap Children /\ cur = None
  /\ left' = left \ {s}
  /\ cur' = s
  /\ \E S \in SUBSET AppJobs :
       /\ todo' = S \cup {Shared}
       /\ gone' = State(s) \ (S \cup {Shared})
  /\ UNCHANGED <<registry, held, relaxed, session, scrapes, tracers, pass, failed, history>>

\* No answer, or not a list of profiles.
FetchFails(s) ==
  /\ s \in left \cap Children /\ cur = None
  /\ left' = left \ {s}
  /\ failed' = failed \cup {s}
  /\ Abandon(held[s])
  /\ UNCHANGED <<registry, held, relaxed, session, scrapes, tracers, pass, cur, gone, todo, broken>>

\* Mutant: a relaxed job is still to be relaxed.
RelaxGoneTwice(j) ==
  /\ cur # None /\ j \in gone
  /\ Relax(j, "running", "ok")
  /\ held' = [held EXCEPT ![cur] = @ \ {j}]
  /\ relaxed' = [relaxed EXCEPT ![cur] = @ \cup {j}]
  /\ UNCHANGED <<session, scrapes, tracers, loop, history>>

\* Mutant: the job is taken out of the shadow state without relax_job.
RelaxGoneWithoutRelax(j) ==
  /\ cur # None /\ j \in gone
  /\ held' = [held EXCEPT ![cur] = @ \ {j}]
  /\ relaxed' = [relaxed EXCEPT ![cur] = @ \cup {j}]
  /\ gone' = gone \ {j}
  /\ UNCHANGED <<registry, session, scrapes, tracers, pass, left, cur, todo, failed, history>>

\* First loop of scrape_proxy: relax a job that has left the child.  It stays in
\* the shadow state until the loop is over.
RelaxGone(j) ==
  /\ cur # None /\ j \in gone
  /\ Relax(j, "running", "ok")
  /\ held' = [held EXCEPT ![cur] = @ \ {j}]
  /\ relaxed' = [relaxed EXCEPT ![cur] = @ \cup {j}]
  /\ gone' = gone \ {j}
  /\ UNCHANGED <<session, scrapes, tracers, pass, left, cur, todo, failed, history>>

\* Second loop: all the jobs relaxed are removed from the shadow state.
ForgetGone ==
  /\ cur # None /\ gone = {} /\ relaxed[cur] # {}
  /\ relaxed' = [relaxed EXCEPT ![cur] = {}]
  /\ UNCHANGED <<registry, held, session, scrapes, tracers, loop, history>>

\* Mutant: a scraper that failed is kept.
AbortKeepsScraper == cur' = None /\ gone' = {} /\ todo' = {} /\ UNCHANGED failed

Abort == cur' = None /\ gone' = {} /\ todo' = {} /\ failed' = failed \cup {cur}

\* The profile cannot be stored: scrape_proxy returns the error, with every job
\* relaxed so far still in the shadow state.
RelaxGoneFails(j) ==
  /\ cur # None /\ j \in gone
  /\ \E result \in Failures : Relax(j, "running", result)
  /\ held' = [held EXCEPT ![cur] = @ \ {j}]
  /\ relaxed' = [relaxed EXCEPT ![cur] = @ \cup {j}]
  /\ Abandon(held[cur] \ {j})
  /\ Abort
  /\ UNCHANGED <<session, scrapes, tracers, pass, left, broken>>

\* The shadow state lists only jobs the child still has.
ShadowCurrent == cur # None /\ gone = {} /\ relaxed[cur] = {}

\* Mutant: a reference is taken at every scrape, not only for a new job.
UpdateAlwaysResolves(j) ==
  /\ ShadowCurrent /\ j \in todo
  /\ Resolve(j, FALSE)
  /\ held' = [held EXCEPT ![cur] = @ \cup {j}]
  /\ todo' = todo \ {j}
  /\ UNCHANGED <<relaxed, session, scrapes, tracers, pass, left, cur, gone, failed, history>>

\* Third loop: a job that is new to this scraper is resolved, then updated.
Update(j) ==
  /\ ShadowCurrent /\ j \in todo
  /\ IF j \in State(cur) THEN UNCHANGED registry ELSE Resolve(j, FALSE)
  /\ held' = [held EXCEPT ![cur] = @ \cup {j}]
  /\ todo' = todo \ {j}
  /\ UNCHANGED <<relaxed, session, scrapes, tracers, pass, left, cur, gone, failed, history>>

\* A counter of another type than the job's exporter has ends the scrape.
UpdateFails(j) ==
  /\ ShadowCurrent /\ j \in todo
  /\ IF j \in State(cur) THEN UNCHANGED registry ELSE Resolve(j, FALSE)
  /\ held' = [held EXCEPT ![cur] = @ \cup {j}]
  /\ Abandon(held[cur] \cup {j})
  /\ Abort
  /\ UNCHANGED <<relaxed, session, scrapes, tracers, pass, left, broken>>

EndFetch ==
  /\ ShadowCurrent /\ todo = {}
  /\ cur' = None
  /\ UNCHANGED <<registry, held, relaxed, session, scrapes, tracers, pass, left, gone, todo, failed,
                 history>>

(***************************************************************************)
(* scrape_trace: Trace::push refuses a job that is done, and any write to  *)
(* its file may fail (a full disk, a file that was removed).  The scraper  *)
(* fails either way.                                                       *)
(***************************************************************************)
ScrapeTrace(j) ==
  /\ j \in left \cap Jobs /\ cur = None
  /\ left' = left \ {j}
  /\ \/ trace[j] = "done" /\ failed' = failed \cup {j} /\ UNCHANGED broken
     \/ trace[j] # "done" /\ UNCHANGED <<failed, broken>>
     \/ trace[j] # "done" /\ failed' = failed \cup {j} /\ broken' = broken \cup {j}
  /\ UNCHANGED <<registry, held, relaxed, session, scrapes, tracers, pass, cur, gone, todo, lost>>

\* Mutant: the pending list is drained and its scrapers are not inserted.
EndPassDropsPending ==
  /\ pass /\ left = {} /\ cur = None
  /\ scrapes' = scrapes \ failed
  /\ tracers' = tracers \ failed
  /\ pending' = {}
  /\ DropScrapers(failed)
  /\ pass' = FALSE /\ failed' = {}
  /\ UNCHANGED <<perjob, counter, islocal, trace, saved, session, left, cur, gone, todo, history>>

\* The pending scrapers are inserted, then the failed ones deleted; the shadow
\* state of a deleted scraper goes with it.
EndPass ==
  /\ pass /\ left = {} /\ cur = None
  /\ scrapes' = scrapes \ failed
  /\ tracers' = (tracers \cup pending) \ failed
  /\ pending' = {}
  /\ DropScrapers(failed)
  /\ pass' = FALSE /\ failed' = {}
  /\ UNCHANGED <<perjob, counter, islocal, trace, saved, session, left, cur, gone, todo, history>>

-----------------------------------------------------------------------------
ClientStep(c) ==
  \/ Connect(c) \/ RecvJobDesc(c) \/ RecvAnonymousJobDesc(c)
  \/ ClientLeaves(c) \/ ClientError(c)

ScraperStep(s) == AddScrape(s) \/ RemoveScrape(s) \/ Fetch(s) \/ FetchFails(s)

JobStep(j) ==
  \/ RelaxGone(j) \/ RelaxGoneFails(j)
  \/ Update(j) \/ UpdateFails(j) \/ ScrapeTrace(j)

Next ==
  \/ \E c \in Clients : ClientStep(c)
  \/ \E s \in Children : ScraperStep(s)
  \/ \E j \in Jobs : JobStep(j)
  \/ \E k \in Children \cup Jobs : NotDue(k)
  \/ BeginPass \/ ForgetGone \/ EndFetch \/ EndPass

Spec == Init /\ [][Next]_vars

-----------------------------------------------------------------------------
\* The client threads and scrapers, and the factory, that refer to a job.
Refs(j) == {h \in Holders : j \in held[h]}

(***************************************************************************)
(* The counter of a job is never below the number of its holders, whatever *)
(* the order in which client threads, scrapes, /join and /disconnect take  *)
(* and drop references and whichever of them fail: the last live holder    *)
(* keeps the entry (exporter.rs relax_job).                                *)
(***************************************************************************)
RefcountCovers == \A j \in Jobs : Cardinality(Refs(j)) <= counter[j]

(***************************************************************************)
(* As long as no step has abandoned a reference (a client thread that ends *)
(* on an error, a scraper that is dropped with its shadow state) the       *)
(* counter is exactly the number of holders: resolve_job and relax_job are *)
(* paired on every other path of proxy.rs and scrapper.rs.                 *)
(***************************************************************************)
RefcountExactUnlessLost ==
  lost = 0 => \A j \in Jobs : counter[j] = Cardinality(Refs(j))

(***************************************************************************)
(* A job some holder refers to has an entry: relax_job's "No such job to   *)
(* remove" and scrape_proxy's "No such JobID" never happen, and a client   *)
(* never accumulates in an exporter that was already stored and dropped.   *)
(***************************************************************************)
HeldJobsRegistered == \A h \in Holders : held[h] \subseteq perjob

(***************************************************************************)
(* An open trace is being sampled or is about to be: its scraper is in the *)
(* table or in the pending list, across passes that delete failed scrapers *)
(* of the same key, unless a write to that very trace has failed once      *)
(* (exporter.rs run_scrapping, resolve_job, relax_job; scrapper.rs         *)
(* scrape_trace): nothing inserts a trace scraper that was deleted again.  *)
(***************************************************************************)
OpenTraceIsScrapedUnlessBroken ==
  \A j \in Jobs : trace[j] = "open" => j \in tracers \cup pending \cup broken

\* A step that removes entries removes unused ones that are stored and have no
\* open trace.
RetiresUnused ==
  \A j \in perjob \ perjob' :
    /\ Refs(j)' = {}
    /\ Aggregator => saved'[j] # "never"
    /\ trace'[j] # "open"

(***************************************************************************)
(* A job leaves the table only when nothing refers to it any more and, on  *)
(* an aggregator, with its profile stored and its trace, if it could be    *)
(* created, closed (relax_job serializes before it deletes).               *)
(***************************************************************************)
RetiredWhenUnused == [][RetiresUnused]_vars

-----------------------------------------------------------------------------
(***************************************************************************)
(* What the proofs carry beside the properties above: an inductive         *)
(* strengthening.  A client thread holds at most the one job it announced; *)
(* a pass visits a scraper once, under the mutex, and a scrape in progress *)
(* relaxes only jobs of its own shadow state; only the scrape in progress  *)
(* and the failed ones list jobs they have relaxed; a trace scraper fails  *)
(* only for a finished job or one whose trace could not be written, and,   *)
(* while nothing was lost, a failed proxy scraper has nothing to lose; a   *)
(* job without an entry counts 0, and only an aggregator has traces.       *)
(***************************************************************************)
SessionsHoldOneJob ==
  \A c \in Clients :
    \/ held[c] = {}
    \/ session[c] = "identified" /\ \E j \in AppJobs : held[c] = {j}

PassConsistent ==
  /\ left # {} => pass
  /\ cur # None => pass /\ gone \subseteq held[cur] /\ cur \notin left \cup failed
  /\ \A s \in Children : relaxed[s] # {} => s = cur \/ s \in failed
  /\ left \cap failed = {}
  /\ failed # {} => pass

FailedHaveNothingToLose ==
  /\ \A j \in failed \cap Jobs : trace[j] = "done" \/ j \in broken
  /\ lost = 0 => \A s \in failed \cap Children : held[s] = {}

TableConsistent ==
  /\ \A j \in Jobs \ perjob : counter[j] = 0
  /\ ~Aggregator => \A j \in Jobs : trace[j] = "none"

IndInv ==
  /\ TypeOK
  /\ RefcountCovers /\ RefcountExactUnlessLost
  /\ HeldJobsRegistered /\ OpenTraceIsScrapedUnlessBroken
  /\ SessionsHoldOneJob /\ PassConsistent
  /\ FailedHaveNothingToLose /\ TableConsistent

-----------------------------------------------------------------------------
\* Jobs that keep a reference nobody will give back.
Leaked == {j \in perjob : counter[j] > Cardinality(Refs(j))}

Stored == {j \in Jobs : saved[j] # "never"}

Life == INSTANCE JobLife WITH
  Users <- Holders, Owner <- Self, Pinned <- SysJobs, Keeps <- Aggregator,
  uses <- held, live <- perjob, stored <- Stored, leaked <- Leaked

(***************************************************************************)
(* The registry keeps the promise of JobLife: whatever interleaves, the    *)
(* step that gives back the last reference of a job is the one that stores *)
(* and deletes it (or fails to store it), and a job lives for ever only    *)
(* when a client thread or a scraper was dropped with references to it     *)
(* (exporter.rs resolve_job, relax_job; proxy.rs; scrapper.rs).            *)
(***************************************************************************)
ImplementsJobLife == Life!Spec
=============================================================================
