# A TLA+ model of the metric proxy

`proxy_v2` is a metric proxy for HPC jobs, written in Rust (`src/src`).  One
proxy runs per node.  Programs send counters to the proxy of their node over a
UNIX socket; proxies form a tree (the TBON, a tree-based overlay network) in
which every proxy periodically *scrapes* its children over HTTP and merges what
they report; the root stores a profile and a trace per job.

This directory holds TLA+ modules that model the proxy, TLC configurations that
check them on small instances, and proofs that TLAPS checks for every instance.

## Inventory

| Part | State it keeps | Operations | Hard behaviour | Module |
|---|---|---|---|---|
| Job registry (`exporter.rs`, `ExporterFactory.perjob`) | one `PerJobRefcount` per job: counter, exporter, `islocal` | `resolve_job`, `relax_job`, `profiles` | several threads take and drop references; failing saves; error returns | `JobRegistry`, `JobLife` |
| Client threads (`proxy.rs`) | job description and exporter of a connection | `handle_command`, `handle_client` | a thread may end on an error at any command | `JobRegistry`, `ClientLib` |
| Scraping loop (`exporter.rs run_scrapping`, `scrapper.rs`) | `scrapes`, `pending_scrapes`, `to_delete`, a shadow profile per child | `scrape_proxy`, `scrape_trace`, `add_scrape`, `remove_scrape` | a scrape is many locked steps with client threads in between; half-done scrapes; the mutex held over requests | `JobRegistry`, `ScrapeLocks` |
| Counters (`proxywireprotocol.rs`, `Exporter`) | counters and gauges per name | `push`, `accumulate`, `merge`, `set`, `substract` | values of a former life of a job; zero values are not reported | `Aggregation` |
| TBON topology (`webserver.rs`) | `known_client`: url, refcount, children, depth | `/pivot`, `/remove`, `/leave`, `repair_tbon` | crashes, restarts and retries during repairs | `Tbon` |
| TBON edges (`exporter.rs`, `webserver.rs`) | the scrapers of every proxy | `join`, `/join`, `/join/multiple`, `/disconnect`, `remove_proxy_scrape` | requests that fail halfway, are late, or wait for each other | `Tbon`, `ScrapeLocks` |
| Trace store (`trace.rs`) | frames of a job's trace, sampling period, done flag | `get`, `push`, `fold`, `load`, `done` (`clear` only at the start, for the proxy's own two jobs) | maximum size, halving of the rate, failing and short writes, torn files | `TraceStore` |
| Profile store (`profiles.rs`, `extrap.rs`) | profile files, model files, both in memory | `saveprofile`, `refresh_profiles`, `generate_extrap_model`, `get_jsonl` | files overwritten and cut off, two writers, wall times that wrap | `ProfileStore` |
| Alarms (`exporter.rs`, `proxywireprotocol.rs`, `icc.rs`) | alarms per exporter, what the controller was sent | `add_alarm`, `delete_alarm`, `check_alarms`, `list_alarms`, `notify_alarms` | locks of tables, groups and values, taken in a nest | `Alarms` |
| Client library (`lib.rs`) | metrics of a process, socket, polling thread | `push_entry`, `inc`, `set`, `dump_values`, `release`, destructor | values changed while they are dumped; two dumps at once; end of the process | `ClientLib` |
| The rest | | web pages, Prometheus text, FTIO, system metrics, SLURM, command line, exporters | input, output and formatting | none |

How they interact: client threads and the scraping thread meet in the registry
(`perjob` mutex); the web threads change the scrapers (`scrapes` mutex) on
request of other proxies; the root repairs the topology (`known_client` mutex)
when a scraping loop somewhere reports a failed scrape, and sends requests that
change the scrapers of other proxies.  `relax_job` stores profiles with the
`perjob` mutex held; requests for alarms hold it too.

What makes them correct: a job in use is never retired and an unused one is
stored exactly when its last reference goes; an open trace is sampled as long
as it can be written; a value
seen by a scrape is counted, and eventually by every level that scrapes; an increment
in a client process arrives once; the topology is a tree, agrees with the
scrapers that carry the data, and gets rid of proxies that are gone; nobody
waits for ever; files can be read back after a crash.

## Modules

`JobLife` is the abstract specification of the registry: users of jobs, jobs
that live from the first use to the last, profiles stored by the step that ends
the last one, and users that forget what they use.  It knows no counters.

`JobRegistry` models the registry, the client threads, the scraping loop and
the web threads of one proxy.  `resolve_job` and `relax_job` hold the `perjob`
mutex throughout, so each is one step; a scrape is the sequence `Fetch`,
`RelaxGone`*, `ForgetGone`, `Update`*, `EndFetch` of such steps, with its error
returns (`FetchFails`, `RelaxGoneFails`, `UpdateFails`), inside a pass (`BeginPass` ...
`EndPass`) that holds the `scrapes` mutex, which is why `AddScrape` and
`RemoveScrape` wait for `~pass`.  `held` is who refers to what: the job of a
client thread, the jobs of a scraper.  The shadow state of a scraper (`State`) is
what it holds and what it has already given back in this scrape (`relaxed`),
since `scrape_proxy` takes the latter out only when its first loop is over: after
an error in that loop they stay listed until the scraper is deleted.  `lost`
counts the steps that drop references without giving them back.  Counters and
traces are abstracted: a trace is absent, open or done; `saved` is how a profile
was stored.  A trace may fail to be created (`TraceOf`), which leaves the job
without one, and any push to it may fail (`ScrapeTrace`), which deletes its
scraper while the trace is open; `broken` are the jobs to which this happened.  The
refinement mapping to `JobLife` takes `held` for the uses, the table for the
living jobs, and the jobs whose counter exceeds their holders for the forgotten.

`Aggregation` follows one counter of one job through a fixed tree of proxies.
A scrape is one step here: the profile of the child is fixed when it answers,
and during the update the parent's value is only added to.  `own`, `past` and
`first` are history: what the clients added, what scrapers that ended had seen,
and first values of a name.  A profile leaves out counters that are 0, so 0
stands for "not listed".  `scraped` are the proxies that their parent has a
scraper for: one is dropped when a scrape fails or on request (`DropScraper`), and
a proxy that is restarted has an empty table of scrapers and tells its children
nothing (`CrashRestart`), so that they are not scraped until something makes them
join again (`JoinAgain`), which nothing has to.

`Overlay` names the proxies, for the two modules about the tree.  `Tbon` models
the topology and the scrapers.  `Repair` is `repair_tbon` as a function of the
table (`Stitched` moves the replacement, `Retain` is `Vec::retain`), `Rewired` the
requests it sends.  A repair is one step
with its requests, since the root holds `known_client` until it returns; the
parent's own `/join` of the replacement (`Wire`) comes later.  `cut` is history: the
children whose names `/join/multiple` has lost (`CutOff`).  `/leave` is two
steps because the lock is released in between.  A proxy that is down refuses
connections.  `GetParam` and `Up` stand for code outside the repository: the
web framework (a query parameter ends at `&`) and the operating system.

`ScrapeLocks` cuts a repair at each of its waits.  A scraping thread holds its
`scrapes` mutex while it waits for the root (`pc = "remove"`) and for its own
`/join` (`pc = "join"`); the root holds `known_client` while `/disconnect` and
`/join/multiple` wait in `pending` for the mutex of another proxy.  A sender
gives up after the time limit of the HTTP library (`RemoveTimesOut`, `JoinEnds`,
`Adopt`, `EndRepair`), but the handler stays in `pending` and is carried out
later.  An entry of the table is reduced to who lists a proxy (`parent`), the depth
and the count of children (`refs`), by which `repair_tbon` decides whether there is
something to repair.  `removefrom` counts a child off whether it is listed or not,
so a `/remove` that is served twice makes the count differ from the list: the
children of a proxy that counts none are dropped with it (`RemoveLeaf`), and one
whose count has wrapped is repaired though it has none (`BeginRepair`).  `refs` is an
integer that stands for its residue modulo 2^32: the code only tests it for 0.
`recount` is history: whose count may be wrong.

`TraceStore` follows the trace file of one job and its copy in memory.  Sizes
are in bytes: those of the kinds of frames are constants, and a sample grows with
the counters in it.  A counters frame is abstracted to the time it stands
for and the ids it lists.  A push, a fold and a load hold the trace's mutex and
are one step each.  A torn frame is a length without all of its data.  Every
write may fail, and the `?` then leaves with the file appended to in part, removed
or rewritten in part (`AppendFails`, `FoldFails`, `CreateFails`), the scraper is
deleted and the memory keeps what it had; and every write of data may be short
without an error, as its count is ignored (`PushShort`, `CreateShort`).
`KillInCreate` and `KillInPush` leave every prefix of the
writes that the step would have made, with or without a torn frame at the end.
A reader of a torn frame waits for ever, with the mutex of the trace (`LoadSticks`)
or at the start (`MayHang`), or reports an error that changes nothing; which of
them depends on the bytes that follow.  `Restart` is what `TraceView::new` makes of
the file it finds.  `JobRegistry` describes a proxy that starts without traces
of its jobs; a start with old ones is the subject of `TraceStore`.

`ClientLib` models one client process and the proxy's thread at the other end of
its socket.  `push_entry` is two steps, `Insert` under the write lock of the
table and `Describe`; a dump is `Peek` and `Take` for each entry (the value's
mutex is taken once for the test and once for the copy) under the read lock, and
then `SendValue` for each command of the batch.  A dump may be made by the
polling thread, by `metric_proxy_release` and by the destructor, at the same
time.  The proxy's thread may reject a value whose name other processes have
described with another type, or be killed.

`Alarms` models the alarms of one exporter.  `mutex` is the `perjob` mutex, held
from `Lock` to `Unlock`.  A write of a value is `AskWrite` (the group's lock is
held, the value's asked for) and `Write`.  `Readable` stands for the `RwLock` of
the standard library, which lets no reader in while a writer waits.
`as_trigger` is cut at each of its reads.  `Notify` and `NotifyFails` are
`notify_alarms` of the controller thread.

`ProfileStore` models the profiles and the model files.  A file is created empty
and then written, so `Save` leaves a torn profile until `Write`, and `Create`
an empty model until the last `Line`.  Nothing locks a model file: `Put` writes
at the writer's own position.  Of a model only the lines of the metric
"walltime" are kept.  Time stamps have a width, and their difference wraps.

`JobRegistryProofs`, `AggregationProofs`, `TraceStoreProofs`, `ClientLibProofs`,
`AlarmsProofs`, `ProfileStoreProofs` and `TreeProofs` (for `Tbon` and
`ScrapeLocks`, whose definitions therefore have different names) have the
theorems, and `SumTheorems` the facts about sums and natural numbers they need.
The `MC` modules instantiate the others for TLC. Operators commented "Mutant"
are wrong variants of the definition after them: each property of a passing run
fails when one of them replaces the original.

## Runs

| Run | Result | What it shows |
|---|---|---|
| `registry_safety` | holds | no interleaving or failure retires a job in use, retires one unsaved, or leaves an open trace unsampled whose writes did not fail; the registry implements `JobLife` |
| `aggregation` | holds | nothing seen is lost; exact up to first values while calm; every parent catches up with the children it scrapes |
| `tbon_overlap` | holds | the table is a tree until the root handles a request that does not fit it |
| `tbon_calm` | holds | faults that come one at a time are repaired, and scrapers agree with the table afterwards but for children that were cut off |
| `tbon_stitch` | violated | `StitchedTogether`: only the first adopted child is handed over |
| `scrape_locks` | holds | the circular waits of a repair all end; a proxy ends up with its one parent unless a request was late, and with none at most once a count of children is wrong |
| `trace_store` | holds | what can be read of the file is described and in the order of time whatever failed or was cut off; its samples are bounded, one per period while the proxy lives, and equal to the memory until a write fails; no reader waits for ever for what a kill has cut off |
| `client_library` | holds | increments are neither lost nor doubled between the threads of a process and the proxy; descriptions come first; the destructor flushes |
| `client_delivery` | holds | increments arrive; a gauge at rest is the last one set unless two dumps overlapped |
| `alarms` | holds | a listed alarm agrees with its value; the controller learns every change; the nested read is the only wait that lasts |
| `alarms_answered` | violated | `AlarmsAnswered`: a request for alarms may wait for ever, with the `perjob` mutex held |
| `profile_store` | holds | memory agrees with the files; a start fails on cut-off files only; an undisturbed generation makes a model right again; wall times are right for this proxy's own clients |

Each violated property states what a comment or the repository's README says;
`PROJECT.json` quotes the lines under "findings".

### Bounds

- `registry_safety`: two clients, two children, "main" and one application job,
  one step that loses references (`MaxLost`), any number of failing saves and
  traces. Two holders of each kind let every kind meet itself and every other;
  jobs are independent of each other but for the scraper in progress, which has
  "main" and the application job.
- `aggregation`: root, two children, one grandchild, three connections
  (`MaxClients`: a job at two places, and one that comes back), two increments,
  one fault.  Increments are 1: the code only adds and subtracts.
- `tbon_overlap`: five proxies with two branches make three levels, so that the
  failed proxy, the replacement and the replacement's former parent differ; two
  faults of any kind overlap.
- `tbon_calm`: a chain of four proxies (`Branches = 1`), where a repair adopts
  one child at most, so that nothing is cut off and the scrapers are exactly the
  listed children.  With more branches `RepairsComplete` is false: a child that was
  cut off is scraped by nobody, and nobody notices when it stops (`tbon_stitch`).
  `ScrapersFollowTable` is proved for every arity.
- `scrape_locks`: the root with two proxies, three more below them, two crashes
  and two tries of `/remove` (six in the code): two reports at the same time, a
  replacement taken from the other reporter, and a retry that finds the repair
  done.
- `trace_store`: two counters, files of six bytes, samples of two bytes and one
  for each counter, eight units of time: a trace is folded up to three times, with
  none, one and two counters in it and with odd numbers of samples; two kills, so
  that the second can hit what the first one left, and one operation with failing
  or short writes (`MaxFaults`), of which several may be short.  A short write and
  a kill in the same push are not combined.
- `client_library`: two threads and the polling thread, one counter and one
  gauge, one increment, a socket with room for one command, so that senders wait
  for the proxy.  `client_delivery`: one thread, two values of the gauge.
- `alarms`: one metric with three values, one alarm at a time on one of three
  conditions, a thread of each kind and two writers.
- `profile_store`: two jobs, two commands, three profiles stored (two lives of a
  job, and another job of the same command), two web threads and requests, one
  failed write or kill, time stamps of three bits.
- `CHECK_DEADLOCK FALSE`: in `TraceStore` and `ProfileStore` a proxy that hangs
  or fails at its start takes no step; in `Aggregation`, `Tbon`, `ScrapeLocks`
  and `ProfileStore` the bounds are used up and there is nothing left to do; in
  `Alarms` the deadlock of the nested read is what `AnsweredUnlessNested` is
  stated up to and `alarms_answered` shows.

### Fairness

`Aggregation`: weak fairness of every scrape, as `run_scrapping` visits every
scraper in an endless loop and each is due once per period.  `Tbon`: weak
fairness of the steps the proxies take by themselves, as a whole: some thread of
a live process goes on.  `ScrapeLocks`: weak fairness of the steps of threads
and time limits as a whole; requests are made with the HTTP library's default
limit of 30 seconds, which is why a wait for a mutex elsewhere ends.
`ClientLib`: weak fairness of the polling thread, of dumps and of the proxy's
thread, and strong fairness of a send: a thread that waits for the mutex of the
stream or for room in the socket gets through in the end.  `Alarms`: weak
fairness of a write that can be made and of the controller, strong fairness of a
request, which competes with writers for a lock that is free again and again.
Nothing is assumed about faults, nor that the application calls the library.

## Known divergences

Where the code does something else than a reader would expect, a passing
property is stated up to it, and its comment says so.

- A client thread that ends on an error (`proxy.rs:82, 91, 92`) and a scraper
  that is dropped (`exporter.rs:460, 480, 490`) keep their references for ever:
  `RefcountExactUnlessLost`, and `Forget` of `JobLife`.
- The first value of a counter that is new to an exporter counts twice, being
  pushed and then accumulated (`scrapper.rs:230-231`): `first` in
  `ExactWhileCalm`.
- What a client adds between the last scrape and its end is in no profile of the
  parent (`scrapper.rs:190-201`): `SeenIsCounted` is about what was seen.
- With overlapping crashes the replacement, or a child it adopts, may be dead
  and stays in the table (`webserver.rs:716`): `ScrapersFollowTable` and
  `RepairsComplete` are stated for faults that come one at a time.
- The `/leave` of the SIGTERM handler goes to a URL with two schemes
  (`main.rs:259`): `SigTerm` is a crash.
- A retried `/pivot` enters a proxy twice (`exporter.rs:530`):
  `TreeUnlessStray`.
- A write of a trace that fails deletes the trace's scraper, and nothing inserts
  it again before the job ends (`scrapper.rs:361`, `exporter.rs:447`):
  `OpenTraceIsScrapedUnlessBroken`.  A trace that cannot be created is ignored
  (`exporter.rs:892`): `RetiredWhenUnused` says that no trace is left open.
- A proxy that is restarted forgets its children, which do not join again
  (`exporter.rs:744`): `Propagates` is about the proxies that are scraped.
- A fold that fails has removed the file and left the memory unfolded
  (`trace.rs:562-579`), and a short write to a trace that a restarted proxy has
  found, and not read yet, leaves a torn frame that its reader waits for
  (`trace.rs:498, 425`):
  `DiskIsMemory` and `ReadersReturn`.
- A trace may be larger than `--max-trace-size` after its fold, since the second
  sample of each pair is kept and samples grow with the counters, and descriptions
  are never dropped (`trace.rs:613`): `SamplesBounded` bounds the number of samples.
- The children of a dead proxy but one are listed below the replacement and not
  scraped (`webserver.rs:750-763`): `cut` in `ScrapersFollowTable`.
- A `/remove` that is served again counts the child off a second time
  (`webserver.rs:50, 710`), and a parent whose count is 0 or wrapped is repaired
  wrongly when it stops (`webserver.rs:715`): `recount` in `OneParentUnlessLate`.
- The answer to a retried `/remove` names no replacement, and a scraping thread
  that asks itself to `/join` always waits until the time limit, since it holds
  the mutex that the handler needs (`exporter.rs:437, 608`):
  `OneParentUnlessLate`.
- A trace found at the start has the maximum size 0, so that the next sample of
  its job wipes it (`trace.rs:720`), and ids start again from 0: `IdsAreUnique`
  is stated up to a restart.
- When two dumps overlap a gauge may end on an older value, or on the 0 of a
  gauge that the other dump has just cleared (`lib.rs:267-275`):
  `LastGaugeUnlessOverlap`.
- The wall time of a job that ran on a child wraps around
  (`proxywireprotocol.rs:694`): `WalltimeUnlessScraped`.
- A metric that a client calls "walltime" makes `get_profile` and
  `generate_extrap_model` call each other without end (`profiles.rs:51, 266`):
  `FetchOverflows` and `GetOverflows`.
- Profiles with the average number of metrics are filtered out, not only those
  below it (`extrap.rs:373` against the comment at `:361`), so that the model of
  a single profile is empty and every request for it generates it again: `Model`
  follows the code.

## Proofs

`JobRegistryProofs` proves for every number of jobs, clients and children, and
with or without aggregation, that `JobRegistry!Spec` implies always `TypeOK`,
`RefcountCovers`, `RefcountExactUnlessLost`, `HeldJobsRegistered`,
`OpenTraceIsScrapedUnlessBroken`, and the action property `RetiredWhenUnused`.
It assumes what the ASSUMEs of `JobRegistry` state: finite sets of clients and
children, and different names for different things.

None of the invariants is inductive alone. `IndInv` adds that a client thread
holds at most the job it announced, that the scraper in progress relaxes only
jobs of its own shadow state (`PassConsistent`), that only the scraper in
progress and the failed ones list jobs they have given back, that a trace
scraper fails only for a finished job or one whose trace could not be written,
that a failed proxy scraper has nothing to lose while nothing was lost
(`FailedHaveNothingToLose`), and that a job without an entry counts 0
(`TableConsistent`). The counting lemmas (`TakeCounts`, `GiveCounts`,
`DropCounts`) say how the number of holders changes; `ResolveKeeps` and
`RelaxHolds` carry them through `resolve_job` and `relax_job`; `NextIndInv` has
one case per action.

Its second part proves the refinement, `Spec => ImplementsJobLife`, under the same
invariant.  Its core is `LastUseCounts`: the counter is 1 exactly when its
holder is the last user of a job that nobody forgot.  `TakeLeaksNothing`,
`GiveLeaksNothing` and `DropForgets` say what happens to the forgotten jobs;
`ResolveAcquires` and `RelaxReleases` map the two operations to steps of
`JobLife`, and `StepImplements` every action to a step or a stutter.

`AlarmsProofs` proves `TypeOK`, `ListedIsConsistent` and `ControllerAgrees` for
any alarms, metrics, integer values and readers.  `IndInv` adds that a reader
walks over alarms which its lock on the table keeps there (`WalkConsistent`),
that a value and the state derived from it agree while the value is locked
(`GuardedStateHolds`), that no alarm is reported twice (`AnswersUnique`), and
what the controller was told of the alarms a round has passed (`ToldIsSent`).

`ProfileStoreProofs` proves all five invariants of `ProfileStore` for any jobs,
runs and threads; the bounds on saves, requests and faults are constants too, so
the results hold for any number of them.  It assumes finitely many jobs and at
least one command.  `FilesInv` is for `MemoryIsDisk` and `StartFailsOnCutOnly`: it
adds what the Saver has done at each of its steps (`SaverConsistent`), that a file
which cannot be read was cut off or is being written (`TornIsCut`), and that a
process which is not there has neither memory nor threads (`DownIsEmpty`).
`ModelsInv` is for `TypeOK`, `SettledModelIsCurrent` and `WalltimeUnlessScraped`.
A thread that nobody has crossed since it gathered its jobs is alone with its model
(`Alone`), and what it has read, fetched or written is what the model should have
(`Ahead`), so that with its last line the model is settled; what is being stored
concerns no settled model (`StoringUnsettles`); a settled model agrees with memory
and, when the process is gone, with the profiles that the next start will find
(`SettledCurrent`), which is why a kill and a restart do not unsettle it.  Wall
times are right because complete profiles are, and a line is only ever copied from
one (`Right`).

`AggregationProofs` proves `TypeOK`, `SeenIsCounted` and `ExactWhileCalm` for any
set of proxies, any parents and any number of clients, increments and faults.
Both compare a value with a sum over the children, and a step changes one term of
it.  `IndInv` adds that an entry has a reference for each client and each scraper
that knows the job (`ReferencesCover`): without it the entry could be dropped, and
the value with it, while a child's part of it is still counted as seen.  An
unused entry has nothing (`UnusedIsEmpty`), so that a job which comes back starts
from 0; and while all is calm a child's value is not below what its parent has
seen (`CalmGrows`), so that `substract` yields no negative difference.  That the
parents form a tree is not needed.

`ClientLibProofs` proves `TypeOK`, `Conserved`, `DescribedFirst`, `ExitFlushes` and
`LastGaugeUnlessOverlap` for any threads, names, values and size of the socket.
`Conserved` sums over the commands of every batch and of the socket.  `IndInv`
adds where the threads are (`Phases`), what an unconnected process cannot have
done (`Unlinked`), that commands have the type of their entry (`KindsAgree`), and
one part for each of the last three: everything that can change or be sent has
been described (`TouchedIsAnnounced`); what the destructor has gone past holds only
late increments (`CollectedOnExit`); without overlap one dump is under way and no
other clears what it has found (`OneDump`), so that the newest value of a gauge is
in the entry, in that dump's batch, in the socket or at the proxy (`LatestGauge`).

`TraceStoreProofs` proves all eight invariants of `TraceStore` for any set of
counters, any sizes of files and frames, any length of time and any number of kills
and faults.  `Sound` (`SamplesDescribed`, `SamplesInOrder`, samples end in the past)
is kept by appending a push (`ExtendSound`), by a fold (`FoldSound`) and by cutting
off the end at any place (`PrefixSound`).  It is said of the memory and of what a
reader finds in the file (`Legible`), the frames in front of the first torn one:
those are a beginning of what the file would be if no write had been short
(`WithinSound`).  `Stored` ties the memory to the file: they mirror each other up to
torn frames until a push fails, and a failed push is the last one of its process, as
it deletes the scraper and the trace that is found again later is a finished one.
This is why no sample is ever appended to what a failed fold has left.  `Unbroken`
is what holds until the first kill, with ids below the next one (`Numbered`) and one
sample per period (`PerPeriod`).  `FilterExists` and `OfKindSelects` characterise the
filters of `fold`: what is selected is listed by an increasing and onto map of
positions, which carries every statement about positions through a fold.  For
`SamplesBounded`, a file that is not folded has all its bytes within the maximum and
so its samples (`SmallFiles`), and one that is folded has no more samples than before
the push.

`TreeProofs` has three parts.  The first proves `TypeOK` and `TreeUnlessStray` of
`Tbon` for any number of proxies and faults and any arity, from
`TableInv = TypeOK /\ Rooted(known) /\ TreeUnlessStray`.  `Rooted` (the root's entry
stays in front, alone at depth 0) holds even after stray requests, and is what makes
`repair_tbon` and `handle_pivot` find what they look for: there is always an entry
to enter a proxy below, and the deepest proxy is not the root.  That the arity is
kept needs more: a proxy with room exists, and a full one, which
`get_depth_if_not_full` puts at `i32::MAX`, is not taken for the nearest.  An entry
of the greatest depth has no children (`DeepestIsLeaf`), and in a tree every depth
down to an entry's own is taken, so that depths do not exceed the number of proxies
(`DepthBounded`).  This is what the assumption `Cardinality(Proxies) < Full` is for,
with `Full` the `i32::MAX` of the code.  A tree is split into five parts (`Unique`,
`Counted`, `Listed`, `OneParent`, `HasParent`), and `Repair` into `Cut`, `Stitched`
and `Without`.  In between the table is no tree, so the parts are proved from who
lists whom after each of them (`CutIs`, `StitchedLists`): the replacement, being a
deepest proxy, has no children, and takes the depth of the removed one, so that the
children it adopts keep theirs.  `RetainSelects` characterises `Retain` by an
increasing map of positions, which carries statements through `Without`.

The second part is about `CalmSpec`, where a fault comes only when the tree has
settled.  `CalmInv` says what holds between: one kind of trouble at a time
(`OneTrouble`: proxies that join, one that is down and listed, one that is to be
told of a replacement, one that leaves), requests under way are about children in
the table (`UnderWay`, `JoinsInTable`), and a proxy scrapes the children listed for
it but for those (`ScrapesListed`).  `RepairKids` says what a repair changes in the
lists: a child is dropped, or replaced by one that takes over its children.
`ScrapersFollow` is `ScrapersFollowTable` for any arity.  A repair gives the
replacement several children to adopt and `/join/multiple` brings one of them; the
others are in `cut` from then on (`ReachedOrCut`).  `Matches` says both halves: a
proxy scrapes nobody but the children the root lists for it, so that in a settled
tree no value is summed by two parents, and of those it lacks only what was cut off.
Until a repair with two adopted children `cut` is empty and the two sets are equal.

The third part proves `LocksTypeOK` and `OneParentUnlessLate` of `ScrapeLocks` for any
tree, any number of crashes and any limit of tries.  The property speaks of quiet
states only; `LocksInv` says what holds in between: whoever scrapes a proxy and is not
its parent has been asked to stop (`OthersLetGo`), and a parent scrapes its child, has
been asked to, or will be asked by the repair under way (`ParentTakesOver`); a proxy
that was reported is down for good, and what is down scrapes nobody and serves
nothing (`DownIsSilent`).  A request that no longer fits the table makes its proxy
stale when it is carried out, which is exactly the exception of the property.
`SoundUnlessRecount` is about the table: as long as no child was counted off that was
not listed, a proxy that runs has an entry, depths grow along the lists and counts
are right, so that a repair finds a replacement that is neither the target nor the
root and no child is dropped.  When a count is wrong none of this holds, and the
property then says only who does not scrape a proxy.

`SumTheorems` is about `SumFunctionOnSet` of the community modules.  The library's
induction theorems take an operator and cannot be used by the installed provers,
so induction is done by a least counterexample: `LeastNat` says that a non-empty
set of natural numbers has a least element, and a set of counterexamples is a
set.  `PartialSums` and `FilterExists` use it to show that the recursive function
exists at all, `SumRemove` that the order of summation does not matter.  From this
follow the facts that are cited: a sum changes by what one term changes
(`SumChange`), sums add up (`SumAdd`), and a sum over a sequence's positions loses
its first or gains a last term (`SumFirst`, `SumLast`).

The proof of `TraceStore` corrected the model's claims.  An earlier invariant said
that all samples of a file are one period long.  It held up to a clock of 12 and
is false: a fold of an odd number drops the last sample, the next sample leaves a
gap before it, and a later fold sums two samples across the gap, so the result is
longer than a period.  `SampledPerPeriod` states what is true: samples are at
least a period long, and there are as many as periods have passed.

Every safety property that a passing run checks is proved.  Model-checked only: the
liveness properties (`Propagates`, `RepairsComplete`, `Delivered`,
`AnsweredUnlessNested`, `NobodyWaitsForever`), as fairness is out of the prover's
reach.

## What is not modelled

- The binomial placement (`--branches 0`), the stop of the root.
- The merge of gauges of several children, time stamps of counters.
- The export of traces to time series and FTIO models; `TraceView::clear`.
- A kill within a single write system call: `do_write_frame` makes two of them
  per frame and each is taken as atomic. The bytes that a reader takes for the
  rest of a torn frame are never a frame by chance. Lines of a model file are
  taken to be equally long and to be written at once.
- FTIO, Extra-P fitting, system metrics, web pages, SLURM and command line:
  input, output, numerical code and formatting.
- The strace exporter is a vendored copy of strace (about a thousand C sources
  and headers under `src/exporters/strace`) with a counting hook; the MPI
  exporter is a template of wrappers.  Both are clients of the client library.
  By number of lines nearly all C code of the repository is this copy; it is not
  the proxy's own logic, and the modules map the Rust sources under `src/src`.

## Plan

1. Done: `JobRegistry` with proofs, `Aggregation`, `Tbon`, `TraceStore`;
   `JobLife` and the proof of the refinement, `ClientLib`, `Alarms`,
   `ProfileStore`, `ScrapeLocks`.
2. Done: proofs of the safety properties of all modules.
3. Modules to come: the binomial placement of `Tbon`; the size counters of the
   MPI wrappers, which are created under a double-checked lock.
